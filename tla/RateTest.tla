------------------------------- MODULE RateTest -------------------------------
(***************************************************************************)
(* src/src/rate_test.cpp from main to exit: one process that opens an      *)
(* ipvs_interface, loading the kernel module when it must, and sets one    *)
(* weight through it.  HttpServer makes the same two calls from its        *)
(* threads; here nothing else runs, so what the calls themselves do to     *)
(* the kernel's table, and what the exit status says of it, stands out.    *)
(***************************************************************************)
EXTENDS IpvsInterface

CONSTANTS
  Args,     \* the command lines: [few |-> BOOLEAN, vip, server, weight]
  Tables    \* the tables the kernel may hold when the program starts

ASSUME RateAssumption ==
  /\ Tables \subseteq [Destinations -> Entries \cup {NoEntry}]
  /\ \A a \in Args : a.few \in BOOLEAN /\ a.weight \in Int

VARIABLES
  pc,             \* the next call of the process
  args,           \* its command line
  loaded,         \* the kernel has the ip_vs module
  sockets,        \* raw sockets the process has open
  m_initialized,
  svc,            \* ce.svc of set_weight
  target,         \* the destination given to ipvs_update_dest
  set,            \* what set_weight returned
  table,          \* the kernel's destinations
  before,         \* the table at the start; read by properties only
  exit_status     \* -1 while the process runs

vars == <<pc, args, loaded, sockets, m_initialized, svc, target, set, table,
          before, exit_status>>

inputs == <<args, before>>
locals == <<svc, target, set>>

Goto(from, to) == pc = from /\ pc' = to

-----------------------------------------------------------------------------
(* ipvs_interface::init *)

Usage ==
  /\ args.few
  /\ Goto("main", "exited")
  /\ exit_status' = 1
  /\ UNCHANGED <<inputs, loaded, sockets, m_initialized, locals, table>>

\* ipvs_init: a raw socket, then IP_VS_SO_GET_INFO on it, which fails without
\* the module.  When it fails the socket stays open and is forgotten.
IpvsInit(from, ok, failed) ==
  /\ \/ /\ loaded
        /\ Goto(from, ok)
        /\ sockets' = sockets + 1
     \/ /\ Goto(from, failed)
        /\ sockets' \in {sockets, sockets + 1}
  /\ m_initialized' = (pc' = ok)
  /\ UNCHANGED <<inputs, loaded, locals, table>>

FirstInit == ~ args.few /\ IpvsInit("main", "vip", "modprobe") /\ UNCHANGED exit_status

\* m_modprobe_ipvs: modprobe may fail, and may succeed to no effect.
Modprobe ==
  /\ \/ Goto("modprobe", "retry") /\ loaded' \in {loaded, TRUE} /\ UNCHANGED exit_status
     \/ Goto("modprobe", "exited") /\ exit_status' = 1 /\ UNCHANGED loaded
  /\ UNCHANGED <<inputs, sockets, m_initialized, locals, table>>

\* Mutation: a modprobe that succeeded is taken for a working interface.
SecondInit_trusting ==
  /\ Goto("retry", "vip")
  /\ m_initialized' = TRUE
  /\ UNCHANGED <<inputs, loaded, sockets, locals, table, exit_status>>

SecondInit ==
  /\ IpvsInit("retry", "vip", "exited")
  /\ exit_status' = IF pc' = "exited" THEN 1 ELSE exit_status

-----------------------------------------------------------------------------
(* ipvs_interface::set_weight *)

\* What host_to_addr may answer for a text, NoAddr when it fails.
Answer(text) ==
  IF NeedsLookup(text) /\ text.host \in DOMAIN Resolver
  THEN Resolver[text.host] \cup {NoAddr} ELSE {NoAddr}

ParseVipText ==
  /\ \E answer \in Answer(args.vip) :
       LET parse == ParseVip(args.vip, answer)
       IN  /\ Goto("vip", IF parse.flags = SERVICE_NONE THEN "destroy" ELSE "server")
           /\ svc' = parse.svc
  /\ UNCHANGED <<inputs, loaded, sockets, m_initialized, target, set, table, exit_status>>

ParseServerText ==
  /\ \E answer \in Answer(args.server) :
       LET parse == ParseServer(args.server, svc, answer)
       IN  /\ Goto("server", IF Reaches(svc, parse) THEN "update" ELSE "destroy")
           /\ target' = Target(svc, parse)
  /\ UNCHANGED <<inputs, loaded, sockets, m_initialized, svc, set, table, exit_status>>

UpdateDest ==
  /\ Editable(table, target)
  /\ Goto("update", "destroy")
  /\ table' = EditDest(table, target, args.weight)
  /\ set' = TRUE
  /\ UNCHANGED <<inputs, loaded, sockets, m_initialized, svc, target, exit_status>>

\* Refused: no such destination, not IPv4, or an error of the kernel's own.
UpdateFails ==
  /\ Goto("update", "destroy")
  /\ UNCHANGED <<inputs, loaded, sockets, m_initialized, locals, table, exit_status>>

-----------------------------------------------------------------------------
(* The return from main *)

\* ~ipvs_interface closes the last socket ipvs_init opened.
Destroy ==
  /\ Goto("destroy", "exited")
  /\ exit_status' = IF set THEN 0 ELSE 1
  /\ sockets' = IF m_initialized THEN sockets - 1 ELSE sockets
  /\ UNCHANGED <<inputs, loaded, m_initialized, locals, table>>

Init ==
  /\ pc = "main"
  /\ args \in Args
  /\ loaded \in BOOLEAN
  /\ sockets = 0
  /\ m_initialized = FALSE
  /\ svc = ClearedService
  /\ target = NoTarget
  /\ set = FALSE
  /\ table \in Tables
  /\ before = table
  /\ exit_status = -1

Next ==
  \/ Usage \/ FirstInit \/ Modprobe \/ SecondInit
  \/ ParseVipText \/ ParseServerText \/ UpdateDest \/ UpdateFails
  \/ Destroy

Spec == Init /\ [][Next]_vars
-----------------------------------------------------------------------------
(* What the two arguments mean, from the usage "[vip] [server name]" and    *)
(* the header's "Virtual IP host and port", "Server host and port": an      *)
(* address or a name, in brackets or not, then a port or none.              *)

HostMeans(text) ==
  IF text.bracket \in {"bare", "unclosed"} THEN {}
  ELSE IF text.host \in DOMAIN InetPton THEN {InetPton[text.host]}
  ELSE IF text.host \in DOMAIN InetAton THEN {InetAton[text.host]}
  ELSE IF text.host \in DOMAIN Resolver THEN Resolver[text.host] ELSE {}

GivenPort(text) == IF text.bracket = "port" THEN text.tail ELSE text.colon

\* The numbers a port text may stand for.
PortMeans(port) ==
  IF port \in DOMAIN Strtol /\ Strtol[port] \in PortNumbers THEN {Strtol[port]}
  ELSE IF port \in DOMAIN TcpServices THEN {TcpServices[port]} ELSE {}

VipMeans == [vaddr : HostMeans(args.vip), vport : PortMeans(GivenPort(args.vip))]

ServerPorts(vport) ==
  IF GivenPort(args.server) = NoText THEN {vport} ELSE PortMeans(GivenPort(args.server))

Meant ==
  {d \in Destinations :
     /\ [vaddr |-> d.vaddr, vport |-> d.vport] \in VipMeans
     /\ d.addr \in HostMeans(args.server)
     /\ d.port \in ServerPorts(d.vport)}

\* The same without the port of a text in brackets.
MeantBesidesPorts ==
  {d \in Destinations :
     /\ d.vaddr \in HostMeans(args.vip) /\ d.addr \in HostMeans(args.server)
     /\ args.vip.bracket = "none" => d.vport \in PortMeans(GivenPort(args.vip))
     /\ args.server.bracket = "none" => d.port \in ServerPorts(d.vport)}

Changed == {d \in Destinations : table[d] # before[d]}

-----------------------------------------------------------------------------
(* Properties.                                                             *)

\* The type invariant; at most one socket is lost to a failed ipvs_init.
TypeOK ==
  /\ pc \in {"main", "modprobe", "retry", "vip", "server", "update", "destroy", "exited"}
  /\ loaded \in BOOLEAN /\ m_initialized \in BOOLEAN /\ set \in BOOLEAN
  /\ sockets \in 0 .. 2
  /\ svc \in Services /\ target \in Targets
  /\ table \in [Destinations -> Entries \cup {NoEntry}]
  /\ exit_status \in {-1, 0, 1}

\* set_weight runs, and the destructor closes, only after an ipvs_init that
\* found the module and left a socket open, first or second attempt.
Initialised ==
  pc \in {"vip", "server", "update", "destroy"} => m_initialized /\ loaded /\ sockets > 0

\* The exit status tells what happened in the kernel: 0 means that one
\* destination has the weight, at the addresses both texts stand for and at
\* the ports of those without brackets, 1 that nothing changed.  The port
\* behind a bracket is left to OnlyMeant, which the code does not keep.
ExitTells ==
  pc = "exited" =>
    IF exit_status = 0
    THEN \E d \in MeantBesidesPorts :
           before[d] # NoEntry /\ table[d].weight = args.weight /\ Changed \subseteq {d}
    ELSE table = before

\* ipvs_interface.cpp:198, "copy vport to dport if not specified": a port that
\* is specified is used.
OnlyMeant == Changed \subseteq Meant
=============================================================================
