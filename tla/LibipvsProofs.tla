----------------------------- MODULE LibipvsProofs -----------------------------
(***************************************************************************)
(* For any services, destinations and settings, in both builds and with    *)
(* any number of reloads: what a reload costs, when an array is overrun,   *)
(* that libipvs implements IpvsTable, and that a dump of a table that      *)
(* keeps still is that table.                                              *)
(***************************************************************************)
EXTENDS Libipvs, SequenceTheorems, TLAPS

-----------------------------------------------------------------------------
(* The shapes of a call.  A socket option that is refused or not possible  *)
(* fails, so the shapes need not say which ones are.                       *)

LEMMA Compatible ==
  ASSUME NEW fn, NEW cmd, NEW possible, SetSockopt(fn, cmd, possible)
  PROVE  SetSockopt(fn, cmd, TRUE)
BY DEF SetSockopt

\* The functions that give an array.
Dumping == {"ipvs_get_services", "ipvs_get_dests", "ipvs_get_daemon"}

Commandeers(fn, cmd) ==
  fn \notin Dumping /\ (NlCall(fn, cmd, 0) \/ SetSockopt(fn, cmd, TRUE))

LEMMA CommandShape ==
  ASSUME NEW fn, fn \notin Dumping, NEW cmd, NEW possible, Command(fn, cmd, possible)
  PROVE  Commandeers(fn, cmd)
BY Compatible DEF Command, Commandeers

LEMMA ServiceCommands ==
  ASSUME NEW s \in Services, NEW o \in Options
  PROVE  \A op \in ServiceOps : OnService(op, s, o) \in Commands
BY DEF OnService, Commands

LEMMA DestCommands ==
  ASSUME NEW s \in Services, NEW d \in Dests, NEW o \in Options
  PROVE  \A op \in DestOps : OnDest(op, s, d, o) \in Commands
BY DEF OnDest, Commands

LEMMA OverallCommands ==
  /\ \A op \in OtherOps, o \in Options : Overall(op, o) \in Commands
  /\ \A op \in DaemonOps, state \in Daemons : Overall(op, state) \in Commands
BY DEF Overall, OnService, Commands

LEMMA CommandingShape ==
  ASSUME Commanding
  PROVE  \E fn, cmd : cmd \in Commands /\ Commandeers(fn, cmd)
<1>1. CASE ipvs_flush
  BY <1>1, OverallCommands, CommandShape DEF ipvs_flush, OtherOps, Dumping
<1>2. CASE ipvs_zero_service
  BY <1>2, OverallCommands, ServiceCommands, CommandShape
     DEF ipvs_zero_service, OtherOps, ServiceOps, Dumping
<1>3. CASE ipvs_set_timeout
  BY <1>3, OverallCommands, CommandShape DEF ipvs_set_timeout, OtherOps, Dumping
<1>4. ASSUME NEW s \in Services, ipvs_add_service(s) \/ ipvs_update_service(s) \/ ipvs_del_service(s)
      PROVE  \E fn, cmd : cmd \in Commands /\ Commandeers(fn, cmd)
  BY <1>4, ServiceCommands, CommandShape
     DEF ipvs_add_service, ipvs_update_service, ipvs_del_service, ServiceOps, Dumping
<1>5. ASSUME NEW s \in Services, NEW d \in Dests,
             ipvs_add_dest(s, d) \/ ipvs_update_dest(s, d) \/ ipvs_del_dest(s, d)
      PROVE  \E fn, cmd : cmd \in Commands /\ Commandeers(fn, cmd)
  BY <1>5, DestCommands, CommandShape
     DEF ipvs_add_dest, ipvs_update_dest, ipvs_del_dest, DestOps, Dumping
<1>6. ASSUME NEW state \in Daemons, ipvs_start_daemon(state) \/ ipvs_stop_daemon(state)
      PROVE  \E fn, cmd : cmd \in Commands /\ Commandeers(fn, cmd)
  BY <1>6, OverallCommands, CommandShape DEF ipvs_start_daemon, ipvs_stop_daemon, DaemonOps, Dumping
<1> QED
  BY <1>1, <1>2, <1>3, <1>4, <1>5, <1>6 DEF Commanding

-----------------------------------------------------------------------------
(* The kernel's table.                                                     *)

LEMMA EntryTyped ==
  /\ \A o \in Options : Fresh(o) \in Entries
  /\ \A e \in Entries \cup {None} : Zeroed(e) \in Entries \cup {None}
  /\ NoDests \in [Dests -> Entries \cup {None}]
BY DEF Fresh, Entries, Zeroed, NoDests

LEMMA EmptyTyped == EmptyTable \in Tables
BY KernelAssumption, EntryTyped DEF EmptyTable, Tables

\* What a command is made of, by its operation.
LEMMA CommandParts ==
  ASSUME NEW c \in Commands
  PROVE  /\ c.op \in ServiceOps \cup DestOps => c.svc \in Services /\ c.opt \in Options
         /\ c.op \in DestOps => c.dest \in Dests
         /\ c.op \in OtherOps => c.opt \in Options
         /\ c.op \in DaemonOps => c.opt \in Daemons
         /\ c.op \in ServiceOps \cup DestOps \cup DaemonOps \cup OtherOps
BY DEF Commands, ServiceOps, DestOps, DaemonOps, OtherOps

\* A row that is there has its settings replaced, or its counter.
LEMMA RowTyped ==
  ASSUME NEW e \in Entries
  PROVE  /\ \A o \in Options : [e EXCEPT !.opt = o] \in Entries
         /\ \A n \in Nat : [e EXCEPT !.conns = n] \in Entries
BY DEF Entries

LEMMA SetService ==
  ASSUME NEW t \in Tables, NEW s \in Services, NEW e \in Entries \cup {None}
  PROVE  [t EXCEPT !.services[s] = e] \in Tables
BY DEF Tables

LEMMA SetDest ==
  ASSUME NEW t \in Tables, NEW s \in Services, NEW d \in Dests, NEW e \in Entries \cup {None}
  PROVE  [t EXCEPT !.dests[s][d] = e] \in Tables
BY DEF Tables

\* Zeroing keeps every row a row.
LEMMA ZeroTyped ==
  ASSUME NEW t \in Tables
  PROVE  ZeroAll(t) \in Tables /\ \A s \in Services : ZeroService(t, s) \in Tables
<1>1. /\ \A s \in Services : Zeroed(t.services[s]) \in Entries \cup {None}
      /\ \A s \in Services, d \in Dests : Zeroed(t.dests[s][d]) \in Entries \cup {None}
  BY EntryTyped DEF Tables
<1>2. /\ [s \in Services |-> Zeroed(t.services[s])] \in [Services -> Entries \cup {None}]
      /\ \A s \in Services :
           [d \in Dests |-> Zeroed(t.dests[s][d])] \in [Dests -> Entries \cup {None}]
  BY <1>1
<1>3. ZeroAll(t) \in Tables
  BY <1>2 DEF ZeroAll, Tables
<1>4. ASSUME NEW s \in Services
      PROVE  ZeroService(t, s) \in Tables
  BY <1>1, <1>2 DEF ZeroService, Tables
<1> QED
  BY <1>3, <1>4

LEMMA EffectTyped ==
  ASSUME NEW t \in Tables, NEW c \in Commands, Accepts(t, c)
  PROVE  Effect(t, c) \in Tables
<1> USE DEF ServiceOps, DestOps, DaemonOps, OtherOps
<1>1. CASE c.op = "new_service"
  BY <1>1, CommandParts, EntryTyped, SetService DEF Effect
<1>2. CASE c.op = "set_service"
  <2>1. c.svc \in Services /\ c.opt \in Options /\ t.services[c.svc] \in Entries
    BY <1>2, CommandParts DEF Accepts, ServiceExists, Tables
  <2>2. Effect(t, c) = [t EXCEPT !.services[c.svc] = [@ EXCEPT !.opt = c.opt]]
    BY <1>2 DEF Effect
  <2> QED
    BY <2>1, <2>2, RowTyped, SetService
<1>3. CASE c.op = "del_service"
  BY <1>3, CommandParts, EntryTyped DEF Effect, Tables
<1>4. CASE c.op = "zero"
  <2>1. c.svc \in Services
    BY <1>4, CommandParts
  <2>2. ZeroService(t, c.svc) \in Tables
    BY <2>1, ZeroTyped
  <2> QED
    BY <1>4, <2>2 DEF Effect
<1>5. CASE c.op = "new_dest"
  BY <1>5, CommandParts, EntryTyped, SetDest DEF Effect
<1>6. CASE c.op = "set_dest"
  <2>1. /\ c.svc \in Services /\ c.dest \in Dests /\ c.opt \in Options
        /\ t.dests[c.svc][c.dest] \in Entries
    BY <1>6, CommandParts DEF Accepts, DestExists, Tables
  <2>2. Effect(t, c) = [t EXCEPT !.dests[c.svc][c.dest] = [@ EXCEPT !.opt = c.opt]]
    BY <1>6 DEF Effect
  <2> QED
    BY <2>1, <2>2, RowTyped, SetDest
<1>7. CASE c.op = "del_dest"
  BY <1>7, CommandParts, SetDest DEF Effect
<1>8. CASE c.op \in DaemonOps
  BY <1>8, CommandParts DEF Effect, Tables
<1>9. CASE c.op = "set_timeout"
  BY <1>9, CommandParts DEF Effect, Tables
<1>10. CASE c.op = "zero_all"
  BY <1>10, ZeroTyped DEF Effect
<1>11. CASE c.op = "flush"
  BY <1>11, EntryTyped DEF Effect, Tables
<1> QED
  BY <1>1, <1>2, <1>3, <1>4, <1>5, <1>6, <1>7, <1>8, <1>9, <1>10, <1>11, CommandParts

-----------------------------------------------------------------------------
(* What a caller is given.                                                 *)

\* A service as ipvs_get_services and ipvs_get_service give it.
ServiceEntry(vias) ==
  [svc : Services, num_dests : Nat, opt : Options, via : vias, conns : Nat]

\* Over netlink it counts no destinations.
Uncounted == {x \in ServiceEntry({"netlink"}) : x.num_dests = 0}

Given == ServiceEntry({"sockopt"}) \cup Uncounted

LEMMA ReadServiceTyped ==
  ASSUME NEW t \in Tables, NEW s \in Services, ServiceExists(t, s)
  PROVE  /\ ReadService(t, s, "sockopt") \in ServiceEntry({"sockopt"})
         /\ ReadService(t, s, "netlink") \in Uncounted
<1>1. t.services[s].opt \in Options /\ t.services[s].conns \in Nat
  BY DEF ServiceExists, Tables, Entries
<1>2. {d \in Dests : DestExists(t, s, d)} \in SUBSET Dests
  OBVIOUS
<1>3. Len(DestsOf(t, s)) \in Nat
  BY <1>2, LibraryAssumption, LenProperties DEF DestsOf
<1>4. copy_stats_from_kern(t.services[s].conns) \in Nat
  BY <1>1, LibraryAssumption DEF copy_stats_from_kern
<1>5. ipvs_parse_stats64(t.services[s].conns) \in Nat
  BY <1>1 DEF ipvs_parse_stats64
<1> QED
  BY <1>1, <1>3, <1>4, <1>5 DEF ReadService, Uncounted, ServiceEntry

LEMMA ListedServices ==
  ASSUME table \in Tables, NEW via
  PROVE  /\ ServicesVia(table, via) \in Seq(Services)
         /\ \A i \in 1 .. Len(ServicesVia(table, via)) :
              ServiceExists(table, ServicesVia(table, via)[i])
<1> DEFINE S == {s \in ServicesOf(table) : via = "netlink" \/ s \in V4}
<1>1. S \in SUBSET Services /\ \A s \in S : ServiceExists(table, s)
  BY DEF ServicesOf
<1>2. ServicesVia(table, via) = ServiceList[S]
  BY DEF ServicesVia
<1> HIDE DEF S
<1>3. ServiceList[S] \in Seq(Services) /\ Lists(ServiceList[S], S)
  BY <1>1, LibraryAssumption
<1>4. \A i \in DOMAIN ServiceList[S] : ServiceList[S][i] \in S
  BY <1>3 DEF Lists
<1>5. DOMAIN ServiceList[S] = 1 .. Len(ServiceList[S])
  BY <1>3, LenProperties
<1> QED
  BY <1>1, <1>2, <1>3, <1>4, <1>5

LEMMA ListedPrefix ==
  ASSUME NEW S, NEW list \in Seq(S), NEW n \in Nat
  PROVE  /\ Listed(list, n) \in Seq(S)
         /\ Len(Listed(list, n)) <= n
         /\ \A i \in 1 .. Len(Listed(list, n)) : i \in 1 .. Len(list) /\ Listed(list, n)[i] = list[i]
         /\ Garbage(list, n) \in Nat
<1> DEFINE m == IF n < Len(list) THEN n ELSE Len(list)
<1>1. Len(list) \in Nat /\ m \in Nat /\ m <= n /\ m <= Len(list)
  BY LenProperties
<1>2. \A i \in 1 .. m : list[i] \in S
  BY <1>1, ElementOfSeq
<1>3. Listed(list, n) = SubSeq(list, 1, m)
  BY DEF Listed
<1> HIDE DEF m
<1>4. /\ SubSeq(list, 1, m) \in Seq(S) /\ Len(SubSeq(list, 1, m)) = m
      /\ \A i \in 1 .. m : SubSeq(list, 1, m)[i] = list[i]
  BY <1>1, <1>2, SubSeqProperties
<1> QED
  BY <1>1, <1>3, <1>4 DEF Garbage

-----------------------------------------------------------------------------
(* The shapes of a question.                                               *)

Question(cmd) ==
  /\ cmd.op \in {"get_services", "get_service", "get_dests", "get_timeout", "get_daemon", "info"}
  /\ cmd.dest = None
  /\ cmd.op = "get_service" => cmd.svc \in Services

\* A dump asks for what its function is named for.
Paired(fn, cmd) ==
  /\ fn = "ipvs_get_services" => cmd.op = "get_services"
  /\ fn = "ipvs_get_dests" => cmd.op = "get_dests"
  /\ fn = "ipvs_get_daemon" => cmd.op = "get_daemon"

\* What the array of a dump is said to hold before anything is received: over
\* netlink only ipvs_get_dests gives it a size.
Preset(fn) == IF fn = "ipvs_get_dests" THEN entry.num_dests ELSE 0

AsksNl(fn, cmd, num) ==
  /\ Question(cmd) /\ Paired(fn, cmd) /\ NlCall(fn, cmd, num)
  /\ fn = "ipvs_get_dests" => entry # None
  /\ num = Preset(fn)

\* What a socket option gives.
Gives(fn, cmd, got, garbage) ==
  /\ cmd.op \in {"get_services", "get_service"} =>
       \A i \in DOMAIN got : \E s \in Services :
         ServiceExists(table, s) /\ got[i] = ReadService(table, s, "sockopt")
  /\ fn = "ipvs_get_services" =>
       LET there == ServicesVia(table, "sockopt")
           listed == Listed(there, num_services)
       IN  /\ got = [i \in 1 .. Len(listed) |-> ReadService(table, listed[i], "sockopt")]
           /\ garbage = Garbage(there, num_services)
  /\ fn = "ipvs_get_dests" =>
       LET s == entry.svc
           there == DestsOf(table, s)
           listed == Listed(there, entry.num_dests)
       IN  /\ entry # None /\ cmd.svc = s
           /\ got = [i \in 1 .. Len(listed) |-> ReadDest(table, s, listed[i], "sockopt")]
           /\ garbage = Garbage(there, entry.num_dests)
  /\ fn = "ipvs_get_daemon" => got = ReadDaemons(table)

AsksSockopt(fn, cmd, possible, got, garbage) ==
  /\ Question(cmd) /\ Paired(fn, cmd) /\ GetSockopt(fn, cmd, possible, got, garbage)
  /\ garbage \in Nat
  /\ Gives(fn, cmd, got, garbage)

LEMMA GivesTyped ==
  ASSUME table \in Tables, NEW fn, NEW cmd, NEW got, NEW garbage, Gives(fn, cmd, got, garbage)
  PROVE  cmd.op \in {"get_services", "get_service"} => \A i \in DOMAIN got : got[i] \in Given
BY ReadServiceTyped DEF Gives, Given

Asks ==
  \/ \E fn, cmd, num : AsksNl(fn, cmd, num)
  \/ \E fn, cmd, possible, got, garbage : AsksSockopt(fn, cmd, possible, got, garbage)
  \/ ~ Netlink /\ Calls("ipvs_getinfo", Info) /\ InfoSockopt("ipvs_getinfo")

LEMMA GetServicesShape ==
  ASSUME table \in Tables, num_services \in Nat, ipvs_get_services
  PROVE  Asks
<1> DEFINE there == ServicesVia(table, "sockopt")
           listed == Listed(there, num_services)
           got == [i \in 1 .. Len(listed) |-> ReadService(table, listed[i], "sockopt")]
           cmd == Read("get_services", None)
<1>1. \/ NlCall("ipvs_get_services", cmd, 0)
      \/ GetSockopt("ipvs_get_services", cmd, TRUE, got, Garbage(there, num_services))
  BY DEF ipvs_get_services, Counted
<1>2. /\ Garbage(there, num_services) \in Nat
      /\ \A i \in 1 .. Len(listed) : listed[i] \in Services /\ ServiceExists(table, listed[i])
  BY ListedServices, ListedPrefix, ElementOfSeq
<1>3. \A i \in DOMAIN got : got[i] = ReadService(table, listed[i], "sockopt")
  OBVIOUS
<1>4. Gives("ipvs_get_services", cmd, got, Garbage(there, num_services))
  BY <1>2, <1>3 DEF Gives
<1>5. Question(cmd) /\ Paired("ipvs_get_services", cmd)
  BY DEF Question, Paired, Read
<1> HIDE DEF got, cmd, there
<1>6. CASE NlCall("ipvs_get_services", cmd, 0)
  BY <1>5, <1>6 DEF Asks, AsksNl, Preset
<1>7. CASE GetSockopt("ipvs_get_services", cmd, TRUE, got, Garbage(there, num_services))
  BY <1>2, <1>4, <1>5, <1>7 DEF Asks, AsksSockopt
<1> QED
  BY <1>1, <1>6, <1>7

LEMMA GetDestsShape ==
  ASSUME table \in Tables, entry \in Given \cup {None}, ipvs_get_dests
  PROVE  Asks
<1> DEFINE s == entry.svc
           there == DestsOf(table, s)
           n == entry.num_dests
           listed == Listed(there, n)
           got == [i \in 1 .. Len(listed) |-> ReadDest(table, s, listed[i], "sockopt")]
           cmd == Read("get_dests", s)
<1>1. /\ entry # None
      /\ \/ NlCall("ipvs_get_dests", cmd, n)
         \/ GetSockopt("ipvs_get_dests", cmd, s \in V4 /\ ServiceExists(table, s), got,
                       Garbage(there, n))
  BY DEF ipvs_get_dests
<1>2. n \in Nat
  BY <1>1 DEF Given, Uncounted, ServiceEntry
<1>3. there \in Seq(Dests)
  BY LibraryAssumption DEF DestsOf
<1>4. Garbage(there, n) \in Nat
  BY <1>2, <1>3, ListedPrefix
<1>5. Question(cmd) /\ Paired("ipvs_get_dests", cmd)
  BY DEF Question, Paired, Read
<1>6. Gives("ipvs_get_dests", cmd, got, Garbage(there, n))
  BY <1>1 DEF Gives, Read
<1> HIDE DEF got, cmd, there
<1>7. CASE NlCall("ipvs_get_dests", cmd, n)
  BY <1>1, <1>5, <1>7 DEF Asks, AsksNl, Preset
<1>8. CASE GetSockopt("ipvs_get_dests", cmd, s \in V4 /\ ServiceExists(table, s), got,
                      Garbage(there, n))
  BY <1>4, <1>5, <1>6, <1>8 DEF Asks, AsksSockopt
<1> QED
  BY <1>1, <1>7, <1>8

LEMMA GetServiceShape ==
  ASSUME table \in Tables, NEW s \in Services, ipvs_get_service(s)
  PROVE  Asks
<1> DEFINE cmd == Read("get_service", s)
           possible == s \in V4 /\ Answered(table, cmd)
           got == IF possible THEN Answer(table, cmd, "sockopt") ELSE <<>>
<1>1. \/ NlCall("ipvs_get_service", cmd, 0)
      \/ GetSockopt("ipvs_get_service", cmd, possible, got, 0)
  BY DEF ipvs_get_service
<1>2. Gives("ipvs_get_service", cmd, got, 0)
  <2>1. CASE possible
    <3>1. /\ got = <<ReadService(table, s, "sockopt")>>
          /\ ServiceExists(table, s)
      BY <2>1 DEF Answer, Answered, Read
    <3>2. \A i \in DOMAIN got : got[i] = ReadService(table, s, "sockopt")
      BY <3>1
    <3> QED
      BY <3>1, <3>2 DEF Gives
  <2>2. CASE ~ possible
    BY <2>2 DEF Gives
  <2> QED
    BY <2>1, <2>2
<1>3. Question(cmd) /\ Paired("ipvs_get_service", cmd)
  BY DEF Question, Paired, Read
<1> HIDE DEF got, cmd, possible
<1>4. CASE NlCall("ipvs_get_service", cmd, 0)
  BY <1>3, <1>4 DEF Asks, AsksNl, Preset
<1>5. CASE GetSockopt("ipvs_get_service", cmd, possible, got, 0)
  BY <1>2, <1>3, <1>5 DEF Asks, AsksSockopt
<1> QED
  BY <1>1, <1>4, <1>5

\* A question with an answer of its own.
LEMMA GetPlainShape ==
  ASSUME NEW fn, NEW op, NEW got,
         \/ fn = "ipvs_get_timeout" /\ op = "get_timeout"
         \/ fn = "ipvs_get_daemon" /\ op = "get_daemon",
         op = "get_daemon" => got = ReadDaemons(table),
         NlCall(fn, Read(op, None), 0) \/ GetSockopt(fn, Read(op, None), TRUE, got, 0)
  PROVE  Asks
<1> DEFINE cmd == Read(op, None)
<1>1. Question(cmd) /\ Paired(fn, cmd) /\ fn \notin {"ipvs_get_dests"}
  BY DEF Question, Paired, Read
<1>2. Gives(fn, cmd, got, 0)
  BY DEF Gives, Read
<1>3. NlCall(fn, cmd, 0) \/ GetSockopt(fn, cmd, TRUE, got, 0)
  OBVIOUS
<1> HIDE DEF cmd
<1>4. CASE NlCall(fn, cmd, 0)
  BY <1>1, <1>4 DEF Asks, AsksNl, Preset
<1>5. CASE GetSockopt(fn, cmd, TRUE, got, 0)
  BY <1>1, <1>2, <1>5 DEF Asks, AsksSockopt
<1> QED
  BY <1>3, <1>4, <1>5

LEMMA AskingShape ==
  ASSUME table \in Tables, num_services \in Nat, entry \in Given \cup {None}, Asking
  PROVE  Asks
<1>1. CASE ipvs_get_timeout
  <2> DEFINE got == Answer(table, Read("get_timeout", None), "sockopt")
  <2>1. \/ NlCall("ipvs_get_timeout", Read("get_timeout", None), 0)
        \/ GetSockopt("ipvs_get_timeout", Read("get_timeout", None), TRUE, got, 0)
    BY <1>1 DEF ipvs_get_timeout
  <2>2. "get_timeout" = "get_daemon" => got = ReadDaemons(table)
    OBVIOUS
  <2> HIDE DEF got
  <2> QED
    BY <2>1, <2>2, GetPlainShape
<1>2. CASE ipvs_get_daemon
  BY <1>2, GetPlainShape DEF ipvs_get_daemon
<1>3. CASE ipvs_getinfo
  <2>1. Question(Info) /\ Paired("ipvs_getinfo", Info)
    BY DEF Question, Paired, Info, Read
  <2> QED
    BY <1>3, <2>1 DEF ipvs_getinfo, Asks, AsksNl, Preset
<1> QED
  BY <1>1, <1>2, <1>3, GetServicesShape, GetDestsShape, GetServiceShape DEF Asking

-----------------------------------------------------------------------------
(* The inductive invariant.                                                *)

KernelInv ==
  /\ table \in Tables
  /\ loads \in Nat /\ kernel_family \in {NoFamily, loads}

History == [info : BOOLEAN, entry : BOOLEAN, call : BOOLEAN]

GlobalInv ==
  /\ build \in {"sockopt", "netlink"} /\ caller \in Callers
  /\ try_nl \in BOOLEAN /\ family \in Int /\ num_services \in Nat
  /\ initialised \in BOOLEAN /\ fresh \in History

IsSeq(got) == \E S : got \in Seq(S)

Sendable(cmd) == cmd \in Commands \/ Question(cmd) \/ cmd = Probe

\* What the message of a call asks for, and what its dump has gathered.
CallTyped(c) ==
  /\ c = [fn |-> c.fn, cmd |-> c.cmd, family |-> c.family, got |-> c.got, seen |-> c.seen,
          num |-> c.num, capacity |-> c.capacity]
  /\ c.seen \in Nat /\ c.num \in Nat /\ c.capacity \in Nat
  /\ IsSeq(c.got)
  /\ Sendable(c.cmd) \/ c.cmd = NoCommand
  /\ c.cmd.op \in {"get_services", "get_service"} => \A i \in DOMAIN c.got : c.got[i] \in Uncounted

CallInv ==
  /\ pc \in {"idle", "resolve", "send", "receive", "dump", "fallback", "undefined"}
  /\ CallTyped(call)
  /\ pc \in {"idle", "fallback"} => call = NoCall
  /\ pc \in {"resolve", "send", "dump"} => Len(call.got) <= call.num
  /\ pc \in {"send", "receive"} => call.cmd.op # "probe"
  /\ pc \in {"dump", "undefined"} => call.cmd.op \in Dumps
  /\ result.ok \in BOOLEAN /\ result.garbage \in Nat

\* After one failure the family is that of the loaded module, unless it has
\* been reloaded since; after two, the message carries it as well.
StrikeInv ==
  /\ strikes \in 0 .. 2
  /\ strikes = 2 => family = kernel_family
  /\ pc = "resolve" /\ strikes = 2 /\ call.cmd.op # "probe" => call.family = kernel_family
  /\ pc = "send" /\ strikes >= 1 => Loaded /\ family = kernel_family
  /\ pc = "send" /\ strikes = 2 => call.family = kernel_family

\* The array of a dump has room, or its size was not netlink's.
Sized ==
  \/ call.num < call.capacity
  \/ call.cmd.op = "get_daemon"
  \/ call.fn = "ipvs_get_dests" /\ entry.via = "sockopt"

BoundInv ==
  /\ entry \in Given \cup {None}
  /\ pc \in {"resolve", "send", "dump"} => Sized
  /\ InBounds

IInv == KernelInv /\ GlobalInv /\ CallInv /\ StrikeInv /\ BoundInv

-----------------------------------------------------------------------------
(* What every return, message and failure leaves behind.                   *)

LEMMA NothingGathered == IsSeq(<<>>) /\ Len(<<>>) = 0 /\ DOMAIN <<>> = {}
BY EmptySeq DEF IsSeq

LEMMA NoCallTyped == CallTyped(NoCall) /\ NoCall.cmd = NoCommand
BY NothingGathered DEF NoCall, CallTyped, NoCommand

LEMMA OpsApart ==
  /\ \A c \in Commands : c.op \notin {"none", "probe", "info", "get_services", "get_service",
                                      "get_dests", "get_timeout", "get_daemon"}
  /\ NoCommand \notin Commands /\ NoCommand.op = "none" /\ Probe \notin Commands /\ Probe.op = "probe"
  /\ Info \notin Commands /\ Info.op = "info" /\ Question(Info)
  /\ \A cmd : Question(cmd) => cmd \notin Commands /\ cmd.op # "probe"
<1>1. \A c \in Commands : c.op \notin {"none", "probe", "info", "get_services", "get_service",
                                       "get_dests", "get_timeout", "get_daemon"}
  BY CommandParts DEF ServiceOps, DestOps, DaemonOps, OtherOps
<1>2. NoCommand.op = "none" /\ Probe.op = "probe" /\ Info.op = "info" /\ Question(Info)
  BY DEF NoCommand, Probe, Info, Read, Question
<1>3. \A cmd : Question(cmd) => cmd.op \in {"get_services", "get_service", "get_dests",
                                            "get_timeout", "get_daemon", "info"}
  BY DEF Question
<1> QED
  BY <1>1, <1>2, <1>3

LEMMA Returned ==
  ASSUME NEW fn, NEW cmd, NEW ok \in BOOLEAN, NEW got, NEW garbage \in Nat,
         Return(fn, cmd, ok, got, garbage)
  PROVE  CallInv' /\ pc' = "idle"
BY NoCallTyped, OpsApart DEF Return, CallInv, Dumps

LEMMA Messaged ==
  ASSUME NEW fn, NEW cmd, NEW num \in Nat, NEW fam, Message(fn, cmd, num, fam), Sendable(cmd)
  PROVE  /\ CallInv' /\ pc' = "resolve"
         /\ call'.fn = fn /\ call'.cmd = cmd /\ call'.family = fam
         /\ call'.num = num /\ (num = 0 => call'.num < call'.capacity)
<1>1. CallTyped(call')
  BY NothingGathered DEF Message, CallTyped
<1>2. result'.ok \in BOOLEAN /\ result'.garbage \in Nat
  BY DEF Message, NoResult
<1>3. call'.got = <<>> /\ call'.num = num /\ pc' = "resolve"
  BY DEF Message
<1>4. Len(call'.got) <= call'.num
  BY <1>3, NothingGathered
<1> QED
  BY <1>1, <1>2, <1>3, <1>4 DEF Message, CallInv, Dumps

LEMMA NlFailed ==
  ASSUME CallInv, GlobalInv, NlFails
  PROVE  CallInv' /\ pc' \in {"idle", "fallback"} /\ try_nl' \in BOOLEAN /\ initialised' \in BOOLEAN
<1>1. CASE call.cmd.op = "probe"
  BY <1>1, NoCallTyped, OpsApart DEF NlFails, CallInv, GlobalInv, Dumps
<1>2. CASE call.cmd.op # "probe"
  <2>1. Return(call.fn, call.cmd, FALSE, <<>>, 0)
    BY <1>2 DEF NlFails, Failed
  <2>2. CallInv' /\ pc' = "idle"
    BY <2>1, Returned
  <2> QED
    BY <1>2, <2>1, <2>2 DEF NlFails, Return, GlobalInv
<1> QED
  BY <1>1, <1>2

-----------------------------------------------------------------------------
(* The caller's steps keep the invariant.                                  *)

LEMMA AgedTyped ==
  ASSUME NEW f \in History
  PROVE  /\ Aged(f) \in History
         /\ [f EXCEPT !.call = TRUE] \in History
         /\ [f EXCEPT !.entry = TRUE] \in History
         /\ [f EXCEPT !.call = TRUE, !.entry = TRUE] \in History
         /\ [f EXCEPT !.info = TRUE, !.call = TRUE] \in History
BY DEF Aged, History

LEMMA ReturnedTyped ==
  ASSUME NEW fn, NEW cmd, NEW ok \in BOOLEAN, NEW got, NEW garbage,
         Return(fn, cmd, ok, got, garbage), GlobalInv
  PROVE  initialised' \in BOOLEAN
BY DEF Return, GlobalInv

\* Any step that returns to the caller keeps what is said of an open call.
LEMMA AtRest ==
  ASSUME IInv, pc' \in {"idle", "fallback", "receive"}, entry' \in Given \cup {None},
         strikes' = strikes, family' = family, kernel_family' = kernel_family
  PROVE  StrikeInv' /\ BoundInv'
BY DEF IInv, StrikeInv, BoundInv, InBounds

LEMMA NlCallStep ==
  ASSUME NEW fn, NEW cmd, NEW num \in Nat, NlCall(fn, cmd, num), Sendable(cmd), IInv,
         num = 0 \/ (fn = "ipvs_get_dests" /\ entry # None /\ num = entry.num_dests)
  PROVE  IInv'
<1>1. KernelInv'
  BY DEF NlCall, IInv, KernelInv, kernel
<1>2. initialised' \in BOOLEAN => GlobalInv'
  BY AgedTyped DEF NlCall, IInv, GlobalInv, library
<1>3. CASE Failed(fn, cmd)
  <2>1. CallInv' /\ pc' = "idle" /\ initialised' \in BOOLEAN
    BY <1>3, Returned, ReturnedTyped DEF Failed, IInv
  <2>2. StrikeInv' /\ BoundInv'
    BY <2>1, AtRest DEF NlCall, IInv, BoundInv, library, kernel
  <2> QED
    BY <1>1, <1>2, <2>1, <2>2 DEF IInv
<1>4. CASE Message(fn, cmd, num, family)
  <2>1. /\ CallInv' /\ pc' = "resolve"
        /\ call'.fn = fn /\ call'.family = family
        /\ call'.num = num /\ (num = 0 => call'.num < call'.capacity)
    BY <1>4, Messaged
  <2>2. UNCHANGED <<initialised, entry, strikes, family, kernel_family>>
    BY <1>4 DEF NlCall, Message, library, kernel
  <2>3. StrikeInv'
    BY <2>1, <2>2 DEF IInv, StrikeInv, Loaded
  <2>4. num = 0 \/ (fn = "ipvs_get_dests" /\ entry.via = "sockopt")
    BY DEF IInv, BoundInv, Given, Uncounted, ServiceEntry
  <2>5. BoundInv'
    BY <2>1, <2>2, <2>4 DEF IInv, BoundInv, InBounds, Sized
  <2> QED
    BY <1>1, <1>2, <2>1, <2>2, <2>3, <2>5 DEF IInv, GlobalInv
<1> QED
  BY <1>3, <1>4 DEF NlCall

LEMMA SetSockoptStep ==
  ASSUME NEW fn, NEW cmd \in Commands, SetSockopt(fn, cmd, TRUE), IInv
  PROVE  IInv'
<1>1. \E ok \in BOOLEAN : Return(fn, cmd, ok, <<>>, 0)
  BY DEF SetSockopt, Failed
<1>2. CallInv' /\ pc' = "idle" /\ initialised' \in BOOLEAN
  BY <1>1, Returned, ReturnedTyped DEF IInv
<1>3. KernelInv'
  BY EffectTyped DEF SetSockopt, IInv, KernelInv
<1>4. GlobalInv'
  BY <1>2, AgedTyped DEF SetSockopt, IInv, GlobalInv, library
<1>5. StrikeInv' /\ BoundInv'
  BY <1>2, AtRest DEF SetSockopt, IInv, BoundInv, library
<1> QED
  BY <1>2, <1>3, <1>4, <1>5 DEF IInv

LEMMA GetSockoptStep ==
  ASSUME NEW fn, NEW cmd, NEW possible, NEW got, NEW garbage,
         AsksSockopt(fn, cmd, possible, got, garbage), IInv
  PROVE  IInv'
<1> USE DEF AsksSockopt
<1>1. \E list : \E ok \in BOOLEAN, n \in Nat : Return(fn, cmd, ok, list, n)
  BY DEF GetSockopt, Failed
<1>2. CallInv' /\ pc' = "idle" /\ initialised' \in BOOLEAN
  BY <1>1, Returned, ReturnedTyped DEF IInv
<1>3. entry' \in Given \cup {None}
  <2>1. \/ UNCHANGED entry
        \/ /\ cmd.op \in {"get_services", "get_service"}
           /\ \E i \in DOMAIN got : entry' = got[i]
    BY DEF GetSockopt
  <2> QED
    BY <2>1, GivesTyped DEF IInv, KernelInv, BoundInv
<1>4. KernelInv'
  BY DEF GetSockopt, IInv, KernelInv, kernel
<1>5. fresh' \in History
  BY AgedTyped DEF GetSockopt, IInv, GlobalInv
<1>6. GlobalInv'
  BY <1>2, <1>5 DEF GetSockopt, IInv, GlobalInv, library
<1>7. StrikeInv' /\ BoundInv'
  BY <1>2, <1>3, AtRest DEF GetSockopt, library, kernel
<1> QED
  BY <1>2, <1>4, <1>6, <1>7 DEF IInv

LEMMA InfoSockoptStep ==
  ASSUME NEW fn, InfoSockopt(fn), IInv
  PROVE  IInv'
<1>1. \E ok \in BOOLEAN : Return(fn, Info, ok, <<>>, 0)
  BY DEF InfoSockopt, Failed
<1>2. CallInv' /\ pc' = "idle" /\ initialised' \in BOOLEAN
  BY <1>1, Returned, ReturnedTyped DEF IInv
<1>3. KernelInv'
  BY DEF InfoSockopt, IInv, KernelInv, kernel
<1>4. fresh' \in History
  BY AgedTyped DEF InfoSockopt, IInv, GlobalInv
<1>5. num_services' \in Nat
  <2>1. UNCHANGED num_services \/ num_services' = Len(ServicesVia(table, "sockopt"))
    BY DEF InfoSockopt
  <2>2. ServicesVia(table, "sockopt") \in Seq(Services)
    BY ListedServices DEF IInv, KernelInv
  <2> QED
    BY <2>1, <2>2, LenProperties DEF IInv, GlobalInv
<1>6. GlobalInv'
  BY <1>2, <1>4, <1>5 DEF InfoSockopt, IInv, GlobalInv
<1>7. StrikeInv' /\ BoundInv'
  BY <1>2, AtRest DEF InfoSockopt, IInv, BoundInv, kernel
<1> QED
  BY <1>2, <1>3, <1>6, <1>7 DEF IInv

LEMMA InitStep ==
  ASSUME ipvs_init, IInv
  PROVE  IInv'
<1>1. CASE InfoSockopt("ipvs_init")
  BY <1>1, InfoSockoptStep
<1>2. CASE /\ try_nl' = TRUE
           /\ Message("ipvs_init", Probe, 0, NoFamily)
           /\ fresh' = [fresh EXCEPT !.call = TRUE]
           /\ UNCHANGED <<build, caller, kernel, family, num_services, entry, strikes>>
  <2>1. /\ CallInv' /\ pc' = "resolve" /\ call'.cmd = Probe
        /\ call'.num = 0 /\ call'.num < call'.capacity
    BY <1>2, Messaged DEF Sendable
  <2>2. initialised' = initialised
    BY <1>2 DEF Message
  <2>3. KernelInv'
    BY <1>2 DEF IInv, KernelInv, kernel
  <2>4. GlobalInv'
    BY <1>2, <2>2, AgedTyped DEF IInv, GlobalInv
  <2>5. StrikeInv'
    BY <1>2, <2>1, OpsApart DEF IInv, StrikeInv, kernel
  <2>6. BoundInv'
    BY <1>2, <2>1 DEF IInv, BoundInv, InBounds, Sized
  <2> QED
    BY <2>1, <2>3, <2>4, <2>5, <2>6 DEF IInv
<1> QED
  BY <1>1, <1>2 DEF ipvs_init

LEMMA CloseStep ==
  ASSUME ipvs_close, IInv
  PROVE  IInv'
<1> USE DEF ipvs_close, IInv
<1>1. KernelInv'
  BY DEF KernelInv, kernel
<1>2. GlobalInv'
  BY DEF GlobalInv, library, history
<1>3. CallInv'
  BY DEF CallInv
<1>4. StrikeInv' /\ BoundInv'
  BY DEF StrikeInv, BoundInv, InBounds, Sized, kernel, library, history, Loaded
<1> QED
  BY <1>1, <1>2, <1>3, <1>4

-----------------------------------------------------------------------------
(* So do the steps of a netlink call.                                      *)

LEMMA FailureStep ==
  ASSUME IInv, NlFails, UNCHANGED <<outside, kernel, family, fresh>>, strikes' \in {0, strikes}
  PROVE  IInv'
<1>1. CallInv' /\ pc' \in {"idle", "fallback"} /\ try_nl' \in BOOLEAN /\ initialised' \in BOOLEAN
  BY NlFailed DEF IInv
<1>2. KernelInv'
  BY DEF IInv, KernelInv, kernel
<1>3. GlobalInv'
  BY <1>1 DEF IInv, GlobalInv, outside
<1>4. StrikeInv' /\ BoundInv'
  BY <1>1 DEF IInv, StrikeInv, BoundInv, InBounds, outside, kernel
<1> QED
  BY <1>1, <1>2, <1>3, <1>4 DEF IInv

LEMMA UnresolvedStep ==
  ASSUME IInv, NlUnresolved
  PROVE  IInv'
<1> USE DEF NlUnresolved
<1>1. CallInv' /\ pc' \in {"idle", "fallback"} /\ try_nl' \in BOOLEAN /\ initialised' \in BOOLEAN
  BY NlFailed DEF IInv
<1>2. KernelInv'
  BY DEF IInv, KernelInv, kernel
<1>3. GlobalInv'
  BY <1>1 DEF IInv, GlobalInv, outside, Unresolved
<1>4. StrikeInv' /\ BoundInv'
  BY <1>1 DEF IInv, StrikeInv, BoundInv, InBounds, outside, kernel
<1> QED
  BY <1>1, <1>2, <1>3, <1>4 DEF IInv

LEMMA StaleStep ==
  ASSUME IInv, NlSendStale
  PROVE  IInv'
<1> USE DEF NlSendStale
<1>1. CallInv' /\ pc' \in {"idle", "fallback"} /\ try_nl' \in BOOLEAN /\ initialised' \in BOOLEAN
  BY NlFailed DEF IInv
<1>2. KernelInv'
  BY DEF IInv, KernelInv, kernel
<1>3. GlobalInv'
  BY <1>1 DEF IInv, GlobalInv, outside
<1>4. strikes \in {0, 1} /\ strikes' \in 1 .. 2 /\ (strikes' = 2 => family = kernel_family)
  BY DEF IInv, StrikeInv
<1>5. StrikeInv' /\ BoundInv'
  BY <1>1, <1>4 DEF IInv, StrikeInv, BoundInv, InBounds, outside, kernel
<1> QED
  BY <1>1, <1>2, <1>3, <1>5 DEF IInv

LEMMA ResolveStep ==
  ASSUME IInv, NlResolve
  PROVE  IInv'
<1> USE DEF NlResolve
<1>1. KernelInv'
  BY DEF IInv, KernelInv, kernel
<1>2. kernel_family \in Int
  BY DEF IInv, KernelInv, NoFamily
<1>3. CASE call.cmd.op = "probe"
  <2>1. /\ CallInv' /\ pc' = "resolve" /\ call'.family = kernel_family
        /\ call'.num = 0 /\ call'.num < call'.capacity
    BY <1>3, Messaged, OpsApart DEF Sendable
  <2>2. GlobalInv'
    BY <1>2, <1>3 DEF IInv, GlobalInv, outside, history, Message
  <2>3. StrikeInv' /\ BoundInv'
    BY <2>1 DEF IInv, StrikeInv, BoundInv, InBounds, Sized, outside, kernel, history
  <2> QED
    BY <1>1, <2>1, <2>2, <2>3 DEF IInv
<1>4. CASE call.cmd.op # "probe"
  <2>1. pc = "resolve" /\ pc' = "send" /\ UNCHANGED <<call, result, initialised>>
    BY <1>4
  <2>2. CallInv'
    BY <1>4, <2>1 DEF IInv, CallInv
  <2>3. GlobalInv'
    BY <1>2, <2>1 DEF IInv, GlobalInv, outside, history
  <2>4. StrikeInv' /\ BoundInv'
    BY <1>4, <2>1 DEF IInv, StrikeInv, BoundInv, InBounds, Sized, outside, kernel, history, Loaded
  <2> QED
    BY <1>1, <2>2, <2>3, <2>4 DEF IInv
<1> QED
  BY <1>3, <1>4

LEMMA CommandStep ==
  ASSUME IInv, NlCommand
  PROVE  IInv'
<1> USE DEF NlCommand, Arrives
<1>1. KernelInv'
  BY EffectTyped DEF IInv, KernelInv
<1>2. GlobalInv'
  BY AgedTyped DEF IInv, GlobalInv, outside
<1>3. CallInv'
  BY DEF IInv, CallInv
<1>4. StrikeInv' /\ BoundInv'
  BY DEF IInv, StrikeInv, BoundInv, InBounds, outside
<1> QED
  BY <1>1, <1>2, <1>3, <1>4 DEF IInv

LEMMA DumpStep ==
  ASSUME IInv, NlDump
  PROVE  IInv'
<1> USE DEF NlDump, Arrives
<1>1. KernelInv'
  BY DEF IInv, KernelInv, kernel
<1>2. GlobalInv'
  BY DEF IInv, GlobalInv, outside
<1>3. CallInv'
  BY DEF IInv, CallInv
<1>4. StrikeInv' /\ BoundInv'
  BY DEF IInv, StrikeInv, BoundInv, InBounds, Sized, outside
<1> QED
  BY <1>1, <1>2, <1>3, <1>4 DEF IInv

LEMMA OneGathered ==
  ASSUME NEW x
  PROVE  IsSeq(<<x>>) /\ DOMAIN <<x>> = {1} /\ <<x>>[1] = x
<1>1. <<x>> \in Seq({x})
  OBVIOUS
<1>2. DOMAIN <<x>> = 1 .. 1 /\ <<x>>[1] = x
  OBVIOUS
<1>3. 1 .. 1 = {1}
  OBVIOUS
<1> QED
  BY <1>1, <1>2, <1>3 DEF IsSeq

LEMMA QuestionStep ==
  ASSUME IInv, NlQuestion
  PROVE  IInv'
<1> USE DEF NlQuestion, Arrives
<1> DEFINE answer == Answer(table, call.cmd, "netlink")
<1>1. KernelInv'
  BY DEF IInv, KernelInv, kernel
<1>2. GlobalInv'
  BY DEF IInv, GlobalInv, outside
<1>3. call.cmd.op = "get_service" => ReadService(table, call.cmd.svc, "netlink") \in Uncounted
  <2>1. call.cmd.op = "get_service" => call.cmd.svc \in Services
    BY OpsApart DEF IInv, CallInv, CallTyped, Sendable, Question
  <2> QED
    BY <2>1, ReadServiceTyped DEF IInv, KernelInv, Answered
<1>4. IsSeq(answer)
  BY OneGathered, NothingGathered DEF Answer
<1>5. call.cmd.op \in {"get_services", "get_service"} => \A i \in DOMAIN answer : answer[i] \in Uncounted
  <2>1. call.cmd.op = "get_service" =>
          answer = <<ReadService(table, call.cmd.svc, "netlink")>>
    BY DEF Answer
  <2> QED
    BY <1>3, <2>1, OneGathered
<1> HIDE DEF answer
<1>6. call' = [call EXCEPT !.got = answer]
  BY DEF answer
<1>7. CallTyped(call') /\ call'.cmd = call.cmd
  BY <1>4, <1>5, <1>6 DEF IInv, CallInv, CallTyped
<1>8. CallInv'
  BY <1>7 DEF IInv, CallInv
<1>9. StrikeInv' /\ BoundInv'
  BY DEF IInv, StrikeInv, BoundInv, InBounds, outside
<1> QED
  BY <1>1, <1>2, <1>8, <1>9 DEF IInv

LEMMA AppendSeq ==
  ASSUME NEW got, IsSeq(got), NEW x
  PROVE  /\ IsSeq(Append(got, x)) /\ Len(got) \in Nat /\ Len(Append(got, x)) = Len(got) + 1
         /\ DOMAIN got = 1 .. Len(got) /\ DOMAIN Append(got, x) = 1 .. Len(got) + 1
         /\ \A i \in 1 .. Len(got) : Append(got, x)[i] = got[i]
         /\ Append(got, x)[Len(got) + 1] = x
<1>1. PICK S : got \in Seq(S)
  BY DEF IsSeq
<1>2. got \in Seq(S \cup {x})
  BY <1>1
<1>3. Append(got, x) \in Seq(S \cup {x})
  BY <1>2, AppendProperties
<1>4. /\ Len(got) \in Nat /\ DOMAIN got = 1 .. Len(got)
      /\ DOMAIN Append(got, x) = 1 .. Len(Append(got, x))
  BY <1>2, <1>3, LenProperties
<1> QED
  BY <1>2, <1>3, <1>4, AppendProperties DEF IsSeq

\* The next service of a dump.
LEMMA SourceTyped ==
  ASSUME table \in Tables, call.cmd.op = "get_services",
         call.seen \in Nat, call.seen < Len(Source)
  PROVE  Source[call.seen + 1] \in Uncounted
<1> DEFINE ss == ServicesVia(table, "netlink")
           f  == [i \in 1 .. Len(ss) |-> ReadService(table, ss[i], "netlink")]
<1>1. Source = f
  BY DEF Source
<1>2. /\ ss \in Seq(Services)
      /\ \A i \in 1 .. Len(ss) : ServiceExists(table, ss[i])
  BY ListedServices
<1> HIDE DEF ss
<1>3. Len(ss) \in Nat /\ \A i \in 1 .. Len(ss) : ReadService(table, ss[i], "netlink") \in Uncounted
  BY <1>2, ElementOfSeq, LenProperties, ReadServiceTyped
<1>4. f \in [1 .. Len(ss) -> Uncounted]
  BY <1>3
<1>5. Len(f) = Len(ss)
  BY <1>3
<1>6. call.seen + 1 \in 1 .. Len(ss)
  BY <1>1, <1>3, <1>5
<1> QED
  BY <1>1, <1>4, <1>6

LEMMA DumpEntryStep ==
  ASSUME IInv, NlDumpEntry
  PROVE  IInv'
<1> USE DEF NlDumpEntry
<1>1. KernelInv'
  BY DEF IInv, KernelInv, kernel
<1>2. GlobalInv'
  BY DEF IInv, GlobalInv, outside, history
<1>3. CASE call.num < call.capacity \/ call.cmd.op = "get_daemon"
  <2> DEFINE x == Source[call.seen + 1]
             got == Append(call.got, x)
  <2>1. call.cmd.op = "get_services" => x \in Uncounted
    BY SourceTyped DEF IInv, KernelInv, CallInv, CallTyped
  <2>2. call.cmd.op # "get_service"
    BY DEF IInv, CallInv, Dumps
  <2> HIDE DEF x
  <2>3. /\ IsSeq(got) /\ Len(got) = Len(call.got) + 1 /\ Len(call.got) \in Nat
        /\ call.cmd.op = "get_services" => \A i \in DOMAIN got : got[i] \in Uncounted
    BY <2>1, AppendSeq DEF IInv, CallInv, CallTyped
  <2>4. call' = [call EXCEPT !.got = got, !.seen = @ + 1, !.num = @ + 1, !.capacity = call.num + 2]
    BY <1>3 DEF Store, x
  <2> HIDE DEF got
  <2>5. CallTyped(call)
    BY DEF IInv, CallInv
  <2>6. /\ call' = [fn |-> call'.fn, cmd |-> call'.cmd, family |-> call'.family,
                     got |-> call'.got, seen |-> call'.seen, num |-> call'.num,
                     capacity |-> call'.capacity]
        /\ call'.cmd = call.cmd /\ call'.fn = call.fn /\ call'.got = got
        /\ call'.seen = call.seen + 1
        /\ call'.num = call.num + 1 /\ call'.capacity = call.num + 2
    BY <2>4, <2>5 DEF CallTyped
  <2>7. call.num \in Nat /\ call.seen \in Nat
    BY <2>5 DEF CallTyped
  <2>8. CallTyped(call')
    BY <2>2, <2>3, <2>5, <2>6, <2>7 DEF CallTyped
  <2>9. CallInv'
    BY <1>3, <2>3, <2>6, <2>7, <2>8 DEF IInv, CallInv
  <2>10. StrikeInv'
    BY <1>3 DEF IInv, StrikeInv, outside, history, kernel
  <2>11. BoundInv'
    BY <1>3, <2>6, <2>7 DEF IInv, BoundInv, InBounds, Sized, outside
  <2> QED
    BY <1>1, <1>2, <2>9, <2>10, <2>11 DEF IInv
<1>4. CASE ~ (call.num < call.capacity \/ call.cmd.op = "get_daemon")
  <2>1. CallInv'
    BY <1>4 DEF IInv, CallInv
  <2>2. StrikeInv'
    BY <1>4 DEF IInv, StrikeInv, outside, history, kernel
  <2>3. BoundInv'
    BY <1>4 DEF IInv, BoundInv, InBounds, Sized, outside
  <2> QED
    BY <1>1, <1>2, <2>1, <2>2, <2>3 DEF IInv
<1> QED
  BY <1>3, <1>4

LEMMA ReceiveStep ==
  ASSUME IInv, NlReceive
  PROVE  IInv'
<1> DEFINE n == IF pc = "dump" THEN call.num - Len(call.got) ELSE 0
<1>1. /\ Return(call.fn, call.cmd, TRUE, call.got, n) /\ Keep(call.got)
      /\ UNCHANGED <<build, caller, kernel, library, strikes>>
  BY DEF NlReceive
<1>2. n \in Nat
  BY AppendSeq DEF IInv, CallInv, CallTyped
<1> HIDE DEF n
<1>3. CallInv' /\ pc' = "idle" /\ initialised' \in BOOLEAN
  BY <1>1, <1>2, Returned, ReturnedTyped DEF IInv
<1>4. entry' \in Given \cup {None}
  <2>1. \/ UNCHANGED entry
        \/ /\ call.cmd.op \in {"get_services", "get_service"}
           /\ \E i \in DOMAIN call.got : entry' = call.got[i]
    BY <1>1 DEF Keep
  <2> QED
    BY <2>1 DEF IInv, BoundInv, CallInv, CallTyped, Given
<1>5. KernelInv'
  BY <1>1 DEF IInv, KernelInv, kernel
<1>6. fresh' \in History
  BY <1>1, AgedTyped DEF Keep, IInv, GlobalInv
<1>7. GlobalInv'
  BY <1>1, <1>3, <1>6 DEF IInv, GlobalInv, library
<1>8. StrikeInv' /\ BoundInv'
  BY <1>1, <1>3, <1>4, AtRest DEF library, kernel
<1> QED
  BY <1>3, <1>5, <1>7, <1>8 DEF IInv

LEMMA SendingStep ==
  ASSUME IInv, Sending
  PROVE  IInv'
<1>1. CASE NlNoSocket \/ NlSendFails \/ NlReceiveFails
  BY <1>1, FailureStep DEF NlNoSocket, NlSendFails, NlReceiveFails, history
<1> QED
  BY <1>1, UnresolvedStep, ResolveStep, StaleStep, CommandStep, QuestionStep, DumpStep,
     DumpEntryStep, ReceiveStep DEF Sending

-----------------------------------------------------------------------------
(* So does everything else on the machine.                                 *)

\* Another program and the traffic only touch the table.
LEMMA TouchStep ==
  ASSUME IInv, table' \in Tables, fresh' = Aged(fresh),
         UNCHANGED <<inside, kernel_family, loads, strikes>>
  PROVE  IInv'
<1>1. KernelInv'
  BY DEF IInv, KernelInv
<1>2. GlobalInv'
  BY AgedTyped DEF IInv, GlobalInv, inside, library
<1>3. CallInv'
  BY DEF IInv, CallInv, inside
<1>4. StrikeInv' /\ BoundInv'
  BY DEF IInv, StrikeInv, BoundInv, InBounds, Sized, Loaded, inside, library
<1> QED
  BY <1>1, <1>2, <1>3, <1>4 DEF IInv

LEMMA TrafficTyped ==
  ASSUME IInv, Traffic
  PROVE  table' \in Tables
<1>1. PICK n \in Counts, s \in Services :
        \/ /\ ServiceExists(table, s) /\ table.services[s].conns < n
           /\ table' = [table EXCEPT !.services[s].conns = n]
        \/ \E d \in Dests :
             /\ DestExists(table, s, d) /\ table.dests[s][d].conns < n
             /\ table' = [table EXCEPT !.dests[s][d].conns = n]
  BY DEF Traffic
<1>2. n \in Nat /\ table \in Tables
  BY LibraryAssumption DEF IInv, KernelInv
<1>3. CASE /\ ServiceExists(table, s)
           /\ table' = [table EXCEPT !.services[s].conns = n]
  <2>1. table.services[s] \in Entries
    BY <1>2, <1>3 DEF ServiceExists, Tables
  <2>2. table' = [table EXCEPT !.services[s] = [@ EXCEPT !.conns = n]]
    BY <1>3
  <2> QED
    BY <1>2, <2>1, <2>2, RowTyped, SetService
<1>4. ASSUME NEW d \in Dests, DestExists(table, s, d),
             table' = [table EXCEPT !.dests[s][d].conns = n]
      PROVE  table' \in Tables
  <2>1. table.dests[s][d] \in Entries
    BY <1>2, <1>4 DEF DestExists, Tables
  <2>2. table' = [table EXCEPT !.dests[s][d] = [@ EXCEPT !.conns = n]]
    BY <1>4
  <2> QED
    BY <1>2, <2>1, <2>2, RowTyped, SetDest
<1> QED
  BY <1>1, <1>3, <1>4

LEMMA SurroundingStep ==
  ASSUME IInv, Surroundings
  PROVE  IInv' /\ table' \in Tables
<1>1. CASE OtherProgram
  <2>1. table' \in Tables
    BY <1>1, EffectTyped DEF OtherProgram, IInv, KernelInv
  <2> QED
    BY <1>1, <2>1, TouchStep DEF OtherProgram
<1>2. CASE Traffic
  BY <1>2, TrafficTyped, TouchStep DEF Traffic
<1>3. CASE Unload
  <2>1. KernelInv'
    BY <1>3, EmptyTyped DEF Unload, IInv, KernelInv
  <2>2. GlobalInv'
    BY <1>3, AgedTyped DEF Unload, IInv, GlobalInv, inside, library
  <2>3. CallInv'
    BY <1>3 DEF Unload, IInv, CallInv, inside
  <2>4. StrikeInv' /\ BoundInv'
    BY <1>3 DEF Unload, IInv, StrikeInv, BoundInv, InBounds, Sized, inside
  <2> QED
    BY <2>1, <2>2, <2>3, <2>4 DEF IInv, KernelInv
<1>4. CASE Load
  <2>1. KernelInv'
    BY <1>4 DEF Load, IInv, KernelInv
  <2>2. GlobalInv'
    BY <1>4 DEF Load, IInv, GlobalInv, inside, library
  <2>3. CallInv'
    BY <1>4 DEF Load, IInv, CallInv, inside
  <2>4. StrikeInv' /\ BoundInv'
    BY <1>4 DEF Load, IInv, StrikeInv, BoundInv, InBounds, Sized, inside
  <2> QED
    BY <2>1, <2>2, <2>3, <2>4 DEF IInv, KernelInv
<1> QED
  BY <1>1, <1>2, <1>3, <1>4 DEF Surroundings

-----------------------------------------------------------------------------
(* The invariants.                                                         *)

LEMMA CommandingStep ==
  ASSUME IInv, NEW fn, NEW cmd \in Commands, Commandeers(fn, cmd)
  PROVE  IInv'
BY NlCallStep, SetSockoptStep DEF Commandeers, Sendable

LEMMA AskingStep ==
  ASSUME IInv, Asks
  PROVE  IInv'
<1>1. ASSUME NEW fn, NEW cmd, NEW num, AsksNl(fn, cmd, num)
      PROVE  IInv'
  <2>1. /\ num \in Nat
        /\ num = 0 \/ (fn = "ipvs_get_dests" /\ entry # None /\ num = entry.num_dests)
    BY <1>1 DEF AsksNl, Preset, IInv, BoundInv, Given, Uncounted, ServiceEntry
  <2> QED
    BY <1>1, <2>1, NlCallStep DEF AsksNl, Sendable
<1> QED
  BY <1>1, GetSockoptStep, InfoSockoptStep DEF Asks

LEMMA InitInv == Init => IInv
<1> SUFFICES ASSUME Init PROVE IInv
  OBVIOUS
<1>1. table \in Tables
  BY EmptyTyped, LibraryAssumption DEF Init
<1>2. kernel_family \in {0, 1} /\ loads = kernel_family
  BY DEF Init, NoFamily
<1>3. KernelInv
  BY <1>1, <1>2 DEF KernelInv
<1>4. GlobalInv
  <2>1. fresh \in History
    BY DEF Init, History
  <2>2. build \in {"sockopt", "netlink"}
    BY LibraryAssumption DEF Init
  <2>3. caller \in Callers /\ family \in Int /\ num_services \in Nat
    BY DEF Init, NoFamily
  <2>4. try_nl \in BOOLEAN /\ initialised \in BOOLEAN
    BY Zenon DEF Init
  <2> QED
    BY <2>1, <2>2, <2>3, <2>4 DEF GlobalInv
<1>5. CallInv
  BY NoCallTyped DEF Init, CallInv, NoResult
<1>6. StrikeInv /\ BoundInv
  BY DEF Init, StrikeInv, BoundInv, InBounds
<1> QED
  BY <1>3, <1>4, <1>5, <1>6 DEF IInv

LEMMA NextInv == IInv /\ [Next]_vars => IInv'
<1> SUFFICES ASSUME IInv, [Next]_vars PROVE IInv'
  OBVIOUS
<1>1. CASE Commanding
  BY <1>1, CommandingShape, CommandingStep
<1>2. CASE Asking
  BY <1>2, AskingShape, AskingStep DEF IInv, KernelInv, GlobalInv, BoundInv
<1>3. CASE FallBack
  BY <1>3, InfoSockoptStep DEF FallBack
<1>4. CASE UNCHANGED vars
  <2>1. UNCHANGED <<build, caller, table, kernel_family, loads, try_nl, family, num_services,
                    pc, call, result, entry, initialised, fresh, strikes>>
    BY <1>4 DEF vars, kernel, library, history
  <2>2. KernelInv' /\ GlobalInv'
    BY <2>1 DEF IInv, KernelInv, GlobalInv
  <2>3. CallInv'
    BY <2>1 DEF IInv, CallInv
  <2>4. StrikeInv' /\ BoundInv'
    BY <2>1 DEF IInv, StrikeInv, BoundInv, InBounds, Sized, Loaded
  <2> QED
    BY <2>2, <2>3, <2>4 DEF IInv
<1> QED
  BY <1>1, <1>2, <1>3, <1>4, InitStep, CloseStep, SendingStep, SurroundingStep DEF Next

\* What the calls of libipvs.c leave behind for one another: globals, message
\* and array are in step with the kernel as far as the code relies on it.
THEOREM Invariance == Spec => []IInv
BY InitInv, NextInv, PTL DEF Spec

\* The library's globals, the call in progress and the kernel's table have
\* their types, in both builds and whatever fails: libipvs.c as a whole.
THEOREM Typed == Spec => []TypeOK
<1>1. IInv => TypeOK
  <2> SUFFICES ASSUME IInv PROVE TypeOK
    OBVIOUS
  <2>1. call.cmd \in Commands \/ call.cmd.dest = None
    BY DEF IInv, CallInv, CallTyped, Sendable, Question, Probe, NoCommand, Read
  <2>2. CallTyped(call)
    BY DEF IInv, CallInv
  <2>3. call.num \in Nat /\ call.capacity \in Nat
    BY <2>2 DEF CallTyped
  <2> QED
    BY <2>1, <2>3 DEF IInv, KernelInv, GlobalInv, CallInv, StrikeInv, TypeOK, History
<1> QED
  BY <1>1, Invariance, PTL

\* However often the module is reloaded, at most two messages in a row carry a
\* family of the past (ipvs_nl_message and ipvs_nl_send_message).
THEOREM ReloadCost == Spec => []TwoStrikes
<1>1. IInv => TwoStrikes
  BY DEF IInv, StrikeInv, TwoStrikes
<1> QED
  BY <1>1, Invariance, PTL

\* However the table changes during a dump, the parse callbacks stay within
\* their array, unless the socket options gave its size.
THEOREM DumpBounds == Spec => []InBounds
<1>1. IInv => InBounds
  BY DEF IInv, BoundInv
<1> QED
  BY <1>1, Invariance, PTL

-----------------------------------------------------------------------------
(* The refinement: what every return, message and failure is in IpvsTable. *)

Asked(cmd) == IF cmd \in Commands THEN cmd ELSE None

LEMMA ReturnedPhase ==
  ASSUME NEW fn, NEW cmd, NEW ok \in BOOLEAN, NEW got, NEW garbage,
         Return(fn, cmd, ok, got, garbage)
  PROVE  /\ PhaseOf' = IF cmd \in Commands THEN (IF ok THEN "done" ELSE "failed") ELSE "none"
         /\ AskedOf' = Asked(cmd)
<1>1. pc' = "idle" /\ call'.cmd \notin Commands /\ result'.cmd = cmd /\ result'.ok = ok
  BY NoCallTyped, OpsApart DEF Return
<1> QED
  BY <1>1 DEF PhaseOf, AskedOf, InCommand, Asked

LEMMA MessagedPhase ==
  ASSUME NEW fn, NEW cmd, NEW num, NEW fam, Message(fn, cmd, num, fam)
  PROVE  /\ PhaseOf' = IF cmd \in Commands THEN "pending" ELSE "none"
         /\ AskedOf' = Asked(cmd)
<1>1. pc' = "resolve" /\ call'.cmd = cmd
  BY DEF Message
<1> QED
  BY <1>1 DEF PhaseOf, AskedOf, InCommand, Asked

LEMMA FailedPhase ==
  ASSUME IInv, NlFails
  PROVE  /\ PhaseOf' = IF InCommand THEN "failed" ELSE "none"
         /\ AskedOf' = Asked(call.cmd)
<1>1. CASE call.cmd.op = "probe"
  <2>1. pc' = "fallback" /\ call'.cmd \notin Commands /\ call.cmd \notin Commands
    BY <1>1, NoCallTyped, OpsApart DEF NlFails
  <2> QED
    BY <2>1 DEF PhaseOf, AskedOf, InCommand, Asked
<1>2. CASE call.cmd.op # "probe"
  BY <1>2, ReturnedPhase DEF NlFails, Failed, InCommand
<1> QED
  BY <1>1, <1>2

\* Where a call stands before a step.
LEMMA PhaseBefore ==
  ASSUME IInv
  PROVE  /\ pc \in {"idle", "fallback"} => PhaseOf \in {"none", "done", "failed"}
         /\ pc \in {"resolve", "send"} => PhaseOf = IF InCommand THEN "pending" ELSE "none"
         /\ pc = "receive" => PhaseOf = IF InCommand THEN "applied" ELSE "none"
         /\ pc = "dump" => PhaseOf = "none" /\ ~ InCommand
         /\ pc \notin {"idle", "fallback"} => AskedOf = Asked(call.cmd)
         /\ PhaseOf \in {"none", "pending", "applied", "done", "failed"}
         /\ ~ InCommand /\ pc # "idle" => PhaseOf = "none" /\ AskedOf = None
BY OpsApart DEF IInv, CallInv, PhaseOf, AskedOf, InCommand, Asked, Dumps

LEMMA ConsultPhase ==
  ASSUME PhaseOf \in {"none", "done", "failed"}, PhaseOf' = "none", AskedOf' = None,
         UNCHANGED table
  PROVE  Promise!Serve
BY DEF Promise!Serve, Promise!Consult, Promise!Returned

LEMMA SamePhase ==
  ASSUME UNCHANGED <<pc, call, result>>
  PROVE  UNCHANGED <<PhaseOf, AskedOf>>
BY DEF PhaseOf, AskedOf, InCommand

LEMMA CommandeersImplements ==
  ASSUME IInv, NEW fn, NEW cmd \in Commands, Commandeers(fn, cmd)
  PROVE  Promise!Serve
<1>1. PhaseOf \in {"none", "done", "failed"}
  BY PhaseBefore DEF Commandeers, NlCall, SetSockopt, Calls
<1>2. CASE UNCHANGED table /\ Failed(fn, cmd)
  <2>1. PhaseOf' = "failed" /\ AskedOf' = cmd
    BY <1>2, ReturnedPhase DEF Failed, Asked
  <2> QED
    BY <1>1, <1>2, <2>1 DEF Promise!Serve, Promise!Refuse, Promise!Returned
<1>3. CASE UNCHANGED table /\ Message(fn, cmd, 0, family)
  <2>1. PhaseOf' = "pending" /\ AskedOf' = cmd
    BY <1>3, MessagedPhase DEF Asked
  <2> QED
    BY <1>1, <1>3, <2>1 DEF Promise!Serve, Promise!Ask, Promise!Returned
<1>4. CASE /\ Accepts(table, cmd) /\ table' = Effect(table, cmd)
           /\ Return(fn, cmd, TRUE, <<>>, 0)
  <2>1. PhaseOf' = "done" /\ AskedOf' = cmd
    BY <1>4, ReturnedPhase DEF Asked
  <2> QED
    BY <1>1, <1>4, <2>1 DEF Promise!Serve, Promise!Execute, Promise!Returned
<1> QED
  BY <1>2, <1>3, <1>4 DEF Commandeers, NlCall, SetSockopt, kernel

LEMMA AsksImplements ==
  ASSUME IInv, Asks
  PROVE  Promise!Serve
<1>1. PhaseOf \in {"none", "done", "failed"}
  BY PhaseBefore DEF Asks, AsksNl, AsksSockopt, NlCall, GetSockopt, Calls
<1>2. ASSUME NEW fn, NEW cmd, NEW num, AsksNl(fn, cmd, num)
      PROVE  Promise!Serve
  <2>1. PhaseOf' = "none" /\ AskedOf' = None
    BY <1>2, OpsApart, MessagedPhase, ReturnedPhase DEF AsksNl, NlCall, Failed, Asked
  <2>2. UNCHANGED table
    BY <1>2 DEF AsksNl, NlCall, kernel
  <2> QED
    BY <1>1, <2>1, <2>2, ConsultPhase
<1>3. ASSUME NEW fn, NEW cmd, NEW possible, NEW got, NEW garbage,
             AsksSockopt(fn, cmd, possible, got, garbage)
      PROVE  Promise!Serve
  <2>1. PhaseOf' = "none" /\ AskedOf' = None
    BY <1>3, OpsApart, ReturnedPhase DEF AsksSockopt, GetSockopt, Failed, Asked
  <2>2. UNCHANGED table
    BY <1>3 DEF AsksSockopt, GetSockopt, kernel
  <2> QED
    BY <1>1, <2>1, <2>2, ConsultPhase
<1>4. ASSUME InfoSockopt("ipvs_getinfo")
      PROVE  Promise!Serve
  <2>1. PhaseOf' = "none" /\ AskedOf' = None
    BY <1>4, OpsApart, ReturnedPhase DEF InfoSockopt, Failed, Asked
  <2>2. UNCHANGED table
    BY <1>4 DEF InfoSockopt, kernel
  <2> QED
    BY <1>1, <2>1, <2>2, ConsultPhase
<1> QED
  BY <1>2, <1>3, <1>4 DEF Asks

\* A failure on the way is Fail for a command, and nothing for a question.
LEMMA FailureImplements ==
  ASSUME IInv, NlFails, UNCHANGED table, pc \in {"resolve", "send", "receive", "dump"}
  PROVE  Promise!Serve \/ UNCHANGED <<table, PhaseOf, AskedOf>>
<1>1. CASE InCommand
  <2>1. PhaseOf \in {"pending", "applied"} /\ AskedOf = call.cmd
    BY <1>1, PhaseBefore DEF Asked, InCommand
  <2>2. PhaseOf' = "failed" /\ AskedOf' = call.cmd
    BY <1>1, FailedPhase DEF Asked, InCommand
  <2> QED
    BY <2>1, <2>2 DEF Promise!Serve, Promise!Fail
<1>2. CASE ~ InCommand
  <2>1. PhaseOf = "none" /\ PhaseOf' = "none" /\ AskedOf' = None
    BY <1>2, PhaseBefore, FailedPhase DEF Asked, InCommand
  <2> QED
    BY <2>1, ConsultPhase
<1> QED
  BY <1>1, <1>2

LEMMA ResolveImplements ==
  ASSUME IInv, NlResolve
  PROVE  Promise!Serve \/ UNCHANGED <<table, PhaseOf, AskedOf>>
<1>1. UNCHANGED table /\ pc = "resolve"
  BY DEF NlResolve, kernel
<1>2. CASE call.cmd.op = "probe"
  <2>1. ~ InCommand
    BY <1>2, OpsApart DEF InCommand
  <2>2. PhaseOf = "none"
    BY <1>1, <2>1, PhaseBefore
  <2>3. PhaseOf' = "none" /\ AskedOf' = None
    BY <1>2, OpsApart, MessagedPhase DEF NlResolve, Asked
  <2> QED
    BY <1>1, <2>2, <2>3, ConsultPhase
<1>3. CASE call.cmd.op # "probe"
  <2>1. pc' = "send" /\ UNCHANGED <<call, result>>
    BY <1>3 DEF NlResolve
  <2> QED
    BY <1>1, <2>1 DEF PhaseOf, AskedOf, InCommand
<1> QED
  BY <1>2, <1>3

LEMMA ArrivalImplements ==
  ASSUME IInv, NlCommand \/ NlQuestion \/ NlDump
  PROVE  Promise!Serve \/ UNCHANGED <<table, PhaseOf, AskedOf>>
<1>1. pc = "send"
  BY DEF NlCommand, NlQuestion, NlDump, Arrives
<1>2. CASE NlCommand
  <2>1. /\ InCommand /\ Accepts(table, call.cmd) /\ table' = Effect(table, call.cmd)
        /\ pc' = "receive" /\ call' = call
    BY <1>2 DEF NlCommand, InCommand
  <2>2. PhaseOf = "pending" /\ AskedOf = call.cmd
    BY <1>1, <2>1, PhaseBefore DEF Asked, InCommand
  <2>3. PhaseOf' = "applied" /\ AskedOf' = call.cmd
    BY <2>1 DEF PhaseOf, AskedOf, InCommand
  <2> QED
    BY <2>1, <2>2, <2>3 DEF Promise!Serve, Promise!Apply
<1>3. CASE NlQuestion \/ NlDump
  <2>1. /\ call.cmd \notin Commands /\ UNCHANGED table
        /\ pc' \in {"receive", "dump"} /\ call'.cmd = call.cmd
    BY <1>3, OpsApart DEF NlQuestion, NlDump, Dumps, kernel, IInv, CallInv, CallTyped
  <2>2. PhaseOf = "none"
    BY <1>1, <2>1, PhaseBefore DEF InCommand
  <2>3. PhaseOf' = "none" /\ AskedOf' = None
    BY <2>1 DEF PhaseOf, AskedOf, InCommand
  <2> QED
    BY <2>1, <2>2, <2>3, ConsultPhase
<1> QED
  BY <1>2, <1>3

LEMMA DumpEntryImplements ==
  ASSUME IInv, NlDumpEntry
  PROVE  Promise!Serve
<1>1. PhaseOf = "none" /\ call.cmd \notin Commands
  BY PhaseBefore DEF NlDumpEntry, InCommand
<1>2. UNCHANGED table
  BY DEF NlDumpEntry, kernel
<1>3. call'.cmd = call.cmd /\ pc' \in {"dump", "undefined"}
  BY DEF NlDumpEntry, IInv, CallInv, CallTyped
<1>4. PhaseOf' = "none" /\ AskedOf' = None
  BY <1>1, <1>3 DEF PhaseOf, AskedOf, InCommand
<1> QED
  BY <1>1, <1>2, <1>4, ConsultPhase

LEMMA ReceiveImplements ==
  ASSUME IInv, NlReceive
  PROVE  Promise!Serve
<1>1. pc \in {"receive", "dump"} /\ UNCHANGED table
  BY DEF NlReceive, kernel
<1>2. /\ PhaseOf' = IF call.cmd \in Commands THEN "done" ELSE "none"
      /\ AskedOf' = Asked(call.cmd)
  BY ReturnedPhase DEF NlReceive
<1>3. CASE InCommand
  <2>1. PhaseOf = "applied" /\ AskedOf = call.cmd
    BY <1>1, <1>3, PhaseBefore DEF Asked, InCommand
  <2> QED
    BY <1>1, <1>2, <1>3, <2>1 DEF Promise!Serve, Promise!Succeed, Asked, InCommand
<1>4. CASE ~ InCommand
  BY <1>1, <1>2, <1>4, PhaseBefore, ConsultPhase DEF Asked, InCommand
<1> QED
  BY <1>3, <1>4

LEMMA SendingImplements ==
  ASSUME IInv, Sending
  PROVE  Promise!Serve \/ UNCHANGED <<table, PhaseOf, AskedOf>>
<1>1. CASE NlNoSocket \/ NlUnresolved \/ NlSendFails \/ NlSendStale \/ NlReceiveFails
  <2>1. NlFails /\ UNCHANGED table /\ pc \in {"resolve", "send", "receive", "dump"}
    BY <1>1 DEF NlNoSocket, NlUnresolved, NlSendFails, NlSendStale, NlReceiveFails, kernel
  <2> QED
    BY <2>1, FailureImplements
<1> QED
  BY <1>1, ResolveImplements, ArrivalImplements, DumpEntryImplements, ReceiveImplements
     DEF Sending

LEMMA SurroundingsImplement ==
  ASSUME IInv, Surroundings
  PROVE  Promise!Administer
<1>1. table' \in Tables
  BY SurroundingStep
<1>2. UNCHANGED <<pc, call, result>>
  BY DEF Surroundings, OtherProgram, Traffic, Unload, Load, inside
<1> QED
  BY <1>1, <1>2, SamePhase DEF Promise!Administer

LEMMA OpeningImplements ==
  ASSUME IInv, ipvs_init \/ FallBack \/ ipvs_close
  PROVE  Promise!Serve \/ UNCHANGED <<table, PhaseOf, AskedOf>>
<1>1. ASSUME NEW fn, InfoSockopt(fn), pc \in {"idle", "fallback"}
      PROVE  Promise!Serve
  <2>1. PhaseOf' = "none" /\ AskedOf' = None /\ UNCHANGED table
    BY <1>1, OpsApart, ReturnedPhase DEF InfoSockopt, Failed, Asked, kernel
  <2> QED
    BY <1>1, <2>1, PhaseBefore, ConsultPhase
<1>2. ASSUME pc = "idle", Message("ipvs_init", Probe, 0, NoFamily), UNCHANGED kernel
      PROVE  Promise!Serve
  <2>1. PhaseOf' = "none" /\ AskedOf' = None /\ UNCHANGED table
    BY <1>2, OpsApart, MessagedPhase DEF Asked, kernel
  <2> QED
    BY <1>2, <2>1, PhaseBefore, ConsultPhase
<1>3. CASE ipvs_close
  BY <1>3, SamePhase DEF ipvs_close, kernel
<1> QED
  BY <1>1, <1>2, <1>3 DEF ipvs_init, FallBack, Calls

\* Over both transports, whatever is lost, refused or reloaded, a command
\* takes effect at most once and between its call and its return, 0 says that
\* it did, and no other step of the library changes the table: every function
\* of libipvs.c, over ipvs_nl_send_message.
THEOREM Refinement == Spec => ImplementsIpvsTable
<1>1. Init => Promise!TableInit
  <2> SUFFICES ASSUME Init PROVE Promise!TableInit
    OBVIOUS
  <2>1. table \in Tables
    BY InitInv DEF IInv, KernelInv
  <2>2. pc = "idle" /\ call.cmd \notin Commands /\ result.cmd \notin Commands
    BY NoCallTyped, OpsApart DEF Init, NoResult
  <2>3. PhaseOf = "none" /\ AskedOf = None
    BY <2>2 DEF PhaseOf, AskedOf, InCommand
  <2> QED
    BY <2>1, <2>3 DEF Promise!TableInit
<1>2. ASSUME IInv, [Next]_vars
      PROVE  \/ Promise!Serve
             \/ Surroundings /\ Promise!Administer
             \/ UNCHANGED <<table, PhaseOf, AskedOf>>
  <2>1. CASE Commanding
    BY <1>2, <2>1, CommandingShape, CommandeersImplements
  <2>2. CASE Asking
    BY <1>2, <2>2, AskingShape, AsksImplements DEF IInv, KernelInv, GlobalInv, BoundInv
  <2>3. CASE Surroundings
    BY <1>2, <2>3, SurroundingsImplement
  <2>4. CASE UNCHANGED vars
    BY <2>4, SamePhase DEF vars, kernel
  <2> QED
    BY <1>2, <2>1, <2>2, <2>3, <2>4, OpeningImplements, SendingImplements DEF Next
<1>3. IInv /\ [Next]_vars => [Promise!TableNext]_(Promise!tableVars)
  BY <1>2 DEF Promise!TableNext, Promise!tableVars
<1>4. IInv /\ [Next]_vars => [Promise!Serve \/ Surroundings]_(Promise!tableVars)
  BY <1>2 DEF Promise!tableVars
<1> QED
  BY <1>1, <1>3, <1>4, Invariance, PTL DEF Spec, ImplementsIpvsTable, Promise!TableSpec

-----------------------------------------------------------------------------
(* The dumps: what they show is what is there.                             *)

\* A message is under way over netlink only, and its array has one element for
\* every entry that was received.
FlightInv ==
  /\ pc \in {"resolve", "send", "receive", "dump"} => Netlink
  /\ Paired(call.fn, call.cmd)
  /\ call.fn = "ipvs_get_dests" => entry # None
  /\ pc = "receive" => call.fn \notin Dumping
  /\ pc \in {"resolve", "send"} => call.got = <<>>
  /\ pc \in {"resolve", "send", "dump"} =>
       call.seen = Len(call.got) /\ call.num = Len(call.got) + Preset(call.fn)

\* As long as the table keeps still, those are the first ones of the dump.
DumpInv ==
  pc = "dump" /\ fresh.call =>
    /\ Len(call.got) <= Len(Source)
    /\ \A i \in 1 .. Len(call.got) : call.got[i] = Source[i]

\* What was counted is right until services, or the destinations of one, come
\* or go.
FreshInv ==
  /\ fresh.info => num_services = Len(ServicesVia(table, "sockopt"))
  /\ fresh.entry /\ entry # None /\ entry.via = "sockopt" =>
       entry.num_dests = Len(DestsOf(table, entry.svc))

AllExact == ExactServices /\ ExactDests /\ ExactDaemons

EInv == FlightInv /\ DumpInv /\ FreshInv /\ AllExact

-----------------------------------------------------------------------------
(* What is read of the kernel, entry by entry.                             *)

LEMMA DestsListed ==
  ASSUME table \in Tables, NEW s
  PROVE  /\ DestsOf(table, s) \in Seq(Dests)
         /\ ~ ServiceExists(table, s) => Len(DestsOf(table, s)) = 0
<1> DEFINE D == {d \in Dests : DestExists(table, s, d)}
<1>1. D \in SUBSET Dests /\ DestsOf(table, s) = DestList[D]
  BY DEF DestsOf
<1>2. ~ ServiceExists(table, s) => D = {}
  BY DEF DestExists
<1> HIDE DEF D
<1>3. DestList[D] \in Seq(Dests) /\ Lists(DestList[D], D)
  BY <1>1, LibraryAssumption
<1>4. DOMAIN DestList[D] = 1 .. Len(DestList[D]) /\ Len(DestList[D]) \in Nat
  BY <1>3, LenProperties
<1>5. ASSUME D = {} PROVE Len(DestList[D]) = 0
  <2>1. \A i \in DOMAIN DestList[D] : DestList[D][i] \in D
    BY <1>3 DEF Lists
  <2>2. 1 \notin 1 .. Len(DestList[D])
    BY <1>4, <1>5, <2>1
  <2> QED
    BY <1>4, <2>2
<1> QED
  BY <1>1, <1>2, <1>3, <1>5

\* A daemon's dump has at most one entry for each of the two.
LEMMA DaemonsListed ==
  ReadDaemons(table) \in Seq(Daemons) /\ Len(ReadDaemons(table)) \in Nat
<1> DEFINE of(state) == IF state \in table.daemons THEN <<state>> ELSE <<>>
<1>1. /\ \A state \in Daemons : <<state>> \in Seq(Daemons)
      /\ <<>> \in Seq(Daemons)
  OBVIOUS
<1>2. \A state \in Daemons : of(state) \in Seq(Daemons)
  BY <1>1
<1>3. ReadDaemons(table) = of("master") \o of("backup")
  BY DEF ReadDaemons
<1> HIDE DEF of
<1>4. of("master") \o of("backup") \in Seq(Daemons)
  BY <1>2, ConcatProperties DEF Daemons
<1> QED
  BY <1>3, <1>4, LenProperties

\* A dump goes through what is there, in the order of the kernel.
LEMMA SourceShows ==
  ASSUME table \in Tables
  PROVE  /\ Len(Source) \in Nat
         /\ call.cmd.op = "get_services" =>
              LET there == ServicesVia(table, "netlink")
              IN  /\ Len(Source) = Len(there)
                  /\ \A i \in 1 .. Len(there) :
                       Source[i] = ReadService(table, there[i], "netlink")
         /\ call.cmd.op = "get_dests" =>
              LET there == DestsOf(table, call.cmd.svc)
              IN  /\ Len(Source) = Len(there)
                  /\ \A i \in 1 .. Len(there) :
                       Source[i] = ReadDest(table, call.cmd.svc, there[i], "netlink")
         /\ call.cmd.op = "get_daemon" => Source = ReadDaemons(table)
<1>1. CASE call.cmd.op = "get_services"
  <2> DEFINE ss == ServicesVia(table, "netlink")
  <2>1. Source = [i \in 1 .. Len(ss) |-> ReadService(table, ss[i], "netlink")]
    BY <1>1 DEF Source
  <2>2. Len(ss) \in Nat
    BY ListedServices, LenProperties
  <2> HIDE DEF ss
  <2>3. Len(Source) = Len(ss)
    BY <2>1, <2>2
  <2>4. \A i \in 1 .. Len(ss) : Source[i] = ReadService(table, ss[i], "netlink")
    BY <2>1
  <2> QED
    BY <1>1, <2>2, <2>3, <2>4 DEF ss
<1>2. CASE call.cmd.op = "get_dests"
  <2> DEFINE s == call.cmd.svc
             ds == DestsOf(table, s)
  <2>1. Len(ds) \in Nat /\ (~ ServiceExists(table, s) => Len(ds) = 0)
    BY DestsListed, LenProperties
  <2>2. Source = IF ServiceExists(table, s)
                 THEN [i \in 1 .. Len(ds) |-> ReadDest(table, s, ds[i], "netlink")]
                 ELSE <<>>
    BY <1>2 DEF Source
  <2> HIDE DEF ds, s
  <2>3. CASE ServiceExists(table, s)
    <3>1. Len(Source) = Len(ds)
      BY <2>1, <2>2, <2>3
    <3>2. \A i \in 1 .. Len(ds) : Source[i] = ReadDest(table, s, ds[i], "netlink")
      BY <2>2, <2>3
    <3> QED
      BY <1>2, <2>1, <3>1, <3>2 DEF ds, s
  <2>4. CASE ~ ServiceExists(table, s)
    <3>1. Len(Source) = 0 /\ Len(ds) = 0
      BY <2>1, <2>2, <2>4, EmptySeq
    <3> QED
      BY <1>2, <3>1 DEF ds, s
  <2> QED
    BY <2>3, <2>4
<1>3. CASE call.cmd.op \notin {"get_services", "get_dests"}
  <2>1. Source = ReadDaemons(table)
    BY <1>3 DEF Source
  <2> QED
    BY <1>3, <2>1, DaemonsListed
<1> QED
  BY <1>1, <1>2, <1>3

-----------------------------------------------------------------------------
(* What every return, message and failure leaves behind.                   *)

\* Nothing is promised of what is not a dump, has failed or goes on.
LEMMA NothingShown ==
  ASSUME pc' # "idle" \/ result'.fn \notin Dumping \/ ~ result'.ok
  PROVE  AllExact'
BY DEF AllExact, ExactServices, ExactDests, ExactDaemons, Exact, Dumping

LEMMA ReturnedFlight ==
  ASSUME NEW fn, NEW cmd, NEW ok, NEW got, NEW garbage, Return(fn, cmd, ok, got, garbage)
  PROVE  /\ FlightInv' /\ DumpInv'
         /\ fn \notin Dumping \/ ~ ok => AllExact'
<1>1. pc' = "idle" /\ call' = NoCall /\ result'.fn = fn /\ result'.ok = ok
  BY DEF Return
<1>2. FlightInv' /\ DumpInv'
  BY <1>1 DEF FlightInv, DumpInv, NoCall, Paired
<1> QED
  BY <1>1, <1>2, NothingShown

LEMMA MessagedFlight ==
  ASSUME NEW fn, NEW cmd, NEW num \in Nat, NEW fam, Message(fn, cmd, num, fam),
         Paired(fn, cmd), Netlink', num = Preset(fn), UNCHANGED entry,
         fn = "ipvs_get_dests" => entry # None
  PROVE  FlightInv' /\ DumpInv' /\ AllExact'
<1>1. /\ pc' = "resolve" /\ call'.fn = fn /\ call'.cmd = cmd
      /\ call'.got = <<>> /\ call'.seen = 0 /\ call'.num = num
  BY DEF Message
<1>2. FlightInv'
  BY <1>1, NothingGathered DEF FlightInv, Preset, Paired
<1> QED
  BY <1>1, <1>2, NothingShown DEF DumpInv

LEMMA FailedFlight ==
  ASSUME NlFails
  PROVE  FlightInv' /\ DumpInv' /\ AllExact'
<1>1. CASE call.cmd.op = "probe"
  <2>1. pc' = "fallback" /\ call' = NoCall
    BY <1>1 DEF NlFails
  <2> QED
    BY <2>1, NothingShown DEF FlightInv, DumpInv, NoCall, Paired
<1>2. CASE call.cmd.op # "probe"
  BY <1>2, ReturnedFlight DEF NlFails, Failed
<1> QED
  BY <1>1, <1>2

LEMMA SameServices ==
  ASSUME ServicesOf(table') = ServicesOf(table), NEW via
  PROVE  ServicesVia(table', via) = ServicesVia(table, via)
BY DEF ServicesVia

LEMMA SameDests ==
  ASSUME ServicesOf(table') = ServicesOf(table), table'.dests = table.dests,
         NEW s \in Services
  PROVE  DestsOf(table', s) = DestsOf(table, s)
<1>1. ServiceExists(table', s) <=> ServiceExists(table, s)
  BY DEF ServicesOf
<1>2. \A d \in Dests : DestExists(table', s, d) <=> DestExists(table, s, d)
  BY <1>1 DEF DestExists
<1> QED
  BY <1>2 DEF DestsOf

\* What ages with the table is dropped when it is out of date.
LEMMA AgedFresh ==
  ASSUME IInv, FreshInv, NEW f, f.info = fresh.info, f.entry = fresh.entry,
         fresh' = Aged(f), UNCHANGED <<num_services, entry>>
  PROVE  FreshInv'
<1>1. /\ fresh'.info => fresh.info /\ ServicesOf(table') = ServicesOf(table)
      /\ fresh'.entry => /\ fresh.entry /\ table'.dests = table.dests
                         /\ ServicesOf(table') = ServicesOf(table)
  BY DEF Aged
<1>2. entry # None => entry.svc \in Services
  BY DEF IInv, BoundInv, Given, Uncounted, ServiceEntry
<1> QED
  BY <1>1, <1>2, SameServices, SameDests DEF FreshInv

LEMMA StillFresh ==
  ASSUME FreshInv, fresh'.info => fresh.info, fresh'.entry => fresh.entry,
         UNCHANGED <<table, num_services, entry>>
  PROVE  FreshInv'
BY DEF FreshInv

\* An entry that was just read has the destinations it counts.
LEMMA ReadFresh ==
  ASSUME FreshInv, NEW s, NEW via, entry' = ReadService(table, s, via),
         fresh'.info => fresh.info, UNCHANGED <<table, num_services>>
  PROVE  FreshInv'
<1>1. entry'.via = "sockopt" => entry'.num_dests = Len(DestsOf(table', entry'.svc))
  BY DEF ReadService
<1> QED
  BY <1>1 DEF FreshInv

-----------------------------------------------------------------------------
(* The caller's steps keep it.                                             *)

LEMMA NlCallExact ==
  ASSUME NEW fn, NEW cmd, NEW num \in Nat, NlCall(fn, cmd, num), Paired(fn, cmd),
         num = Preset(fn), fn = "ipvs_get_dests" => entry # None, EInv
  PROVE  EInv'
<1>1. FreshInv'
  BY StillFresh DEF NlCall, EInv, kernel, library
<1>2. CASE Failed(fn, cmd)
  BY <1>1, <1>2, ReturnedFlight DEF Failed, EInv
<1>3. CASE Message(fn, cmd, num, family)
  <2>1. Netlink' /\ UNCHANGED entry
    BY DEF NlCall, Netlink, library
  <2> QED
    BY <1>1, <1>3, <2>1, MessagedFlight DEF EInv
<1> QED
  BY <1>2, <1>3 DEF NlCall

LEMMA SetSockoptExact ==
  ASSUME NEW fn, fn \notin Dumping, NEW cmd, SetSockopt(fn, cmd, TRUE), IInv, EInv
  PROVE  EInv'
<1>1. \E ok : Return(fn, cmd, ok, <<>>, 0)
  BY DEF SetSockopt, Failed
<1>2. FlightInv' /\ DumpInv' /\ AllExact'
  BY <1>1, ReturnedFlight
<1>3. FreshInv'
  <2> DEFINE f == [fresh EXCEPT !.call = TRUE]
  <2>1. f.info = fresh.info /\ f.entry = fresh.entry
    BY DEF IInv, GlobalInv, History
  <2>2. fresh' = Aged(f) /\ UNCHANGED <<num_services, entry>>
    BY DEF SetSockopt, library
  <2> HIDE DEF f
  <2> QED
    BY <2>1, <2>2, AgedFresh DEF EInv
<1> QED
  BY <1>2, <1>3 DEF EInv

\* The whole list fits when it was counted.
LEMMA ListedInFull ==
  ASSUME NEW S, NEW list \in Seq(S), NEW n \in Nat, n = Len(list)
  PROVE  Listed(list, n) = list /\ Garbage(list, n) = 0
<1>1. Len(list) \in Nat
  BY LenProperties
<1>2. Listed(list, n) = SubSeq(list, 1, Len(list))
  BY <1>1 DEF Listed
<1>3. SubSeq(list, 1, Len(list)) = list
  BY SubSeqFull
<1> QED
  BY <1>1, <1>2, <1>3 DEF Garbage

LEMMA GivesServices ==
  ASSUME table \in Tables, num_services \in Nat, FreshInv, fresh.info,
         NEW cmd, NEW got, NEW garbage, Gives("ipvs_get_services", cmd, got, garbage)
  PROVE  LET there == ServicesVia(table, "sockopt")
         IN  /\ garbage = 0 /\ Len(got) = Len(there) /\ DOMAIN there = 1 .. Len(there)
             /\ \A i \in 1 .. Len(there) : got[i] = ReadService(table, there[i], "sockopt")
<1> DEFINE there == ServicesVia(table, "sockopt")
<1>1. there \in Seq(Services) /\ Len(there) \in Nat /\ DOMAIN there = 1 .. Len(there)
  BY ListedServices, LenProperties
<1>2. num_services = Len(there)
  BY DEF FreshInv
<1>3. Listed(there, num_services) = there /\ Garbage(there, num_services) = 0
  BY <1>1, <1>2, ListedInFull
<1>4. /\ got = [i \in 1 .. Len(there) |-> ReadService(table, there[i], "sockopt")]
      /\ garbage = 0
  BY <1>3 DEF Gives
<1> HIDE DEF there
<1>5. Len(got) = Len(there)
  BY <1>1, <1>4
<1> QED
  BY <1>1, <1>4, <1>5 DEF there

LEMMA GivesDests ==
  ASSUME IInv, FreshInv, fresh.entry, entry.via = "sockopt",
         NEW cmd, NEW got, NEW garbage, Gives("ipvs_get_dests", cmd, got, garbage)
  PROVE  LET there == DestsOf(table, cmd.svc)
         IN  /\ garbage = 0 /\ Len(got) = Len(there) /\ DOMAIN there = 1 .. Len(there)
             /\ \A i \in 1 .. Len(there) :
                  got[i] = ReadDest(table, cmd.svc, there[i], "sockopt")
<1> DEFINE s == cmd.svc
           there == DestsOf(table, s)
           n == entry.num_dests
<1>1. entry # None /\ s = entry.svc
  BY DEF Gives
<1>2. n = Len(there)
  BY <1>1 DEF FreshInv
<1>3. there \in Seq(Dests) /\ Len(there) \in Nat /\ DOMAIN there = 1 .. Len(there)
  BY DestsListed, LenProperties DEF IInv, KernelInv
<1>4. Listed(there, n) = there /\ Garbage(there, n) = 0
  BY <1>2, <1>3, ListedInFull
<1>5. /\ got = [i \in 1 .. Len(there) |-> ReadDest(table, s, there[i], "sockopt")]
      /\ garbage = 0
  BY <1>1, <1>4 DEF Gives
<1> HIDE DEF there
<1>6. Len(got) = Len(there)
  BY <1>3, <1>5
<1> QED
  BY <1>3, <1>5, <1>6 DEF there

\* What is read entry by entry is what the caller is promised.
LEMMA ServicesShown ==
  ASSUME NEW via \in {"sockopt", "netlink"}, UNCHANGED table,
         result'.fn = "ipvs_get_services", result'.via = via,
         fresh'.call /\ (via = "sockopt" => fresh'.info) =>
           LET there == ServicesVia(table, via)
           IN  /\ result'.garbage = 0 /\ Len(result'.got) = Len(there)
               /\ DOMAIN there = 1 .. Len(there)
               /\ \A i \in 1 .. Len(there) : result'.got[i] = ReadService(table, there[i], via)
  PROVE  AllExact'
<1> DEFINE there == ServicesVia(table, via)
<1>1. SUFFICES ASSUME fresh'.call, via = "sockopt" => fresh'.info
               PROVE  ExactServices'
  BY DEF AllExact, ExactServices, ExactDests, ExactDaemons, Exact
<1>2. \A s : /\ ReadService(table, s, via).svc = s
             /\ ReadService(table, s, via).opt = table.services[s].opt
             /\ via = "netlink" => ReadService(table, s, via).conns = table.services[s].conns
             /\ via = "sockopt" =>
                  /\ ReadService(table, s, via).conns = table.services[s].conns % Word
                  /\ ReadService(table, s, via).num_dests = Len(DestsOf(table, s))
  BY DEF ReadService, copy_stats_from_kern, ipvs_parse_stats64
<1>3. /\ result'.garbage = 0 /\ Len(result'.got) = Len(there)
      /\ \A i \in DOMAIN there : result'.got[i] = ReadService(table, there[i], via)
  BY <1>1
<1>4. there = ServicesVia(table', result'.via)
  OBVIOUS
<1> HIDE DEF there
<1>5. \A i \in DOMAIN there :
        /\ result'.got[i].svc = there[i]
        /\ result'.got[i].opt = table'.services[there[i]].opt
        /\ IF result'.via = "netlink"
           THEN result'.got[i].conns = table'.services[there[i]].conns
           ELSE /\ result'.got[i].conns = table'.services[there[i]].conns % Word
                /\ result'.got[i].num_dests = Len(DestsOf(table', there[i]))
  BY <1>2, <1>3
<1> QED
  BY <1>3, <1>4, <1>5 DEF ExactServices

LEMMA DestsShown ==
  ASSUME NEW via \in {"sockopt", "netlink"}, UNCHANGED table,
         result'.fn = "ipvs_get_dests", result'.via = via,
         fresh'.call /\ entry'.via = via /\ (via = "sockopt" => fresh'.entry) =>
           LET s == result'.cmd.svc
               there == DestsOf(table, s)
           IN  /\ result'.garbage = 0 /\ Len(result'.got) = Len(there)
               /\ DOMAIN there = 1 .. Len(there)
               /\ \A i \in 1 .. Len(there) : result'.got[i] = ReadDest(table, s, there[i], via)
  PROVE  AllExact'
<1> DEFINE s == result'.cmd.svc
           there == DestsOf(table, s)
<1>1. SUFFICES ASSUME fresh'.call, entry'.via = via, via = "sockopt" => fresh'.entry
               PROVE  ExactDests'
  BY DEF AllExact, ExactServices, ExactDests, ExactDaemons, Exact
<1>2. \A d : /\ ReadDest(table, s, d, via).dest = d
             /\ ReadDest(table, s, d, via).opt = table.dests[s][d].opt
             /\ ReadDest(table, s, d, via).conns = table.dests[s][d].conns % Word
  BY DEF ReadDest, copy_stats_from_kern, ipvs_parse_stats
<1>3. /\ result'.garbage = 0 /\ Len(result'.got) = Len(there)
      /\ \A i \in DOMAIN there : result'.got[i] = ReadDest(table, s, there[i], via)
  BY <1>1
<1>4. there = DestsOf(table', result'.cmd.svc)
  OBVIOUS
<1> HIDE DEF there
<1>5. \A i \in DOMAIN there :
        /\ result'.got[i].dest = there[i]
        /\ result'.got[i].opt = table'.dests[s][there[i]].opt
        /\ result'.got[i].conns = table'.dests[s][there[i]].conns % Word
  BY <1>2, <1>3
<1> QED
  BY <1>3, <1>4, <1>5 DEF ExactDests

LEMMA DaemonsShown ==
  ASSUME UNCHANGED table, result'.fn = "ipvs_get_daemon",
         fresh'.call => result'.got = ReadDaemons(table)
  PROVE  AllExact'
BY DEF AllExact, ExactServices, ExactDests, ExactDaemons, Exact

LEMMA GetSockoptExact ==
  ASSUME NEW fn, NEW cmd, NEW possible, NEW got, NEW garbage,
         AsksSockopt(fn, cmd, possible, got, garbage), IInv, EInv
  PROVE  EInv'
<1> USE DEF AsksSockopt
<1>1. \E list, ok, n : Return(fn, cmd, ok, list, n)
  BY DEF GetSockopt, Failed
<1>2. FlightInv' /\ DumpInv' /\ (fn \notin Dumping => AllExact')
  BY <1>1, ReturnedFlight
<1>3. /\ UNCHANGED <<table, num_services>> /\ (fresh'.info => fresh.info)
      /\ \/ UNCHANGED entry /\ (fresh'.entry => fresh.entry)
         \/ /\ cmd.op \in {"get_services", "get_service"}
            /\ \E i \in DOMAIN got : entry' = got[i]
  BY DEF GetSockopt, kernel, library, IInv, GlobalInv, History
<1>4. FreshInv'
  <2>1. CASE UNCHANGED entry /\ (fresh'.entry => fresh.entry)
    BY <1>3, <2>1, StillFresh DEF EInv
  <2>2. CASE /\ cmd.op \in {"get_services", "get_service"}
             /\ \E i \in DOMAIN got : entry' = got[i]
    <3>1. PICK s \in Services : entry' = ReadService(table, s, "sockopt")
      BY <2>2 DEF Gives
    <3> QED
      BY <1>3, <3>1, ReadFresh DEF EInv
  <2> QED
    BY <1>3, <2>1, <2>2
<1>5. CASE Failed(fn, cmd)
  BY <1>2, <1>4, <1>5, ReturnedFlight DEF Failed, EInv
<1>6. CASE Return(fn, cmd, TRUE, got, garbage)
  <2>1. /\ result'.fn = fn /\ result'.via = "sockopt" /\ result'.cmd = cmd
        /\ result'.got = got /\ result'.garbage = garbage
    BY <1>6 DEF Return, Via, GetSockopt
  <2>2. CASE fn = "ipvs_get_services"
    <3>1. AllExact'
      BY <1>3, <2>1, <2>2, GivesServices, ServicesShown DEF IInv, KernelInv, GlobalInv, EInv
    <3> QED
      BY <1>2, <1>4, <3>1 DEF EInv
  <2>3. CASE fn = "ipvs_get_dests"
    <3>1. UNCHANGED entry /\ (fresh'.entry => fresh.entry)
      <4>1. cmd.op \notin {"get_services", "get_service"}
        BY <2>3 DEF Paired
      <4> QED
        BY <1>3, <4>1
    <3>2. AllExact'
      BY <1>3, <2>1, <2>3, <3>1, GivesDests, DestsShown DEF EInv
    <3> QED
      BY <1>2, <1>4, <3>2 DEF EInv
  <2>4. CASE fn = "ipvs_get_daemon"
    <3>1. AllExact'
      BY <1>3, <2>1, <2>4, DaemonsShown DEF Gives
    <3> QED
      BY <1>2, <1>4, <3>1 DEF EInv
  <2> QED
    BY <1>2, <1>4, <2>2, <2>3, <2>4 DEF EInv, Dumping
<1> QED
  BY <1>5, <1>6 DEF GetSockopt

LEMMA Unmoved ==
  ASSUME UNCHANGED <<build, table, try_nl, num_services, pc, call, result, entry, fresh>>, EInv
  PROVE  EInv'
<1>1. FlightInv' /\ FreshInv'
  BY DEF EInv, FlightInv, FreshInv, Netlink, Preset
<1>2. Source' = Source
  BY DEF Source
<1>3. DumpInv'
  BY <1>2 DEF EInv, DumpInv
<1>4. AllExact'
  BY DEF EInv, AllExact, ExactServices, ExactDests, ExactDaemons, Exact
<1> QED
  BY <1>1, <1>3, <1>4 DEF EInv

LEMMA InfoExact ==
  ASSUME NEW fn, fn \notin Dumping, InfoSockopt(fn), IInv, EInv
  PROVE  EInv'
<1>1. \E ok : Return(fn, Info, ok, <<>>, 0)
  BY DEF InfoSockopt, Failed
<1>2. FlightInv' /\ DumpInv' /\ AllExact'
  BY <1>1, ReturnedFlight
<1>3. FreshInv'
  BY DEF InfoSockopt, EInv, FreshInv, IInv, GlobalInv, History, kernel
<1> QED
  BY <1>2, <1>3 DEF EInv

LEMMA InitExact ==
  ASSUME ipvs_init, IInv, EInv
  PROVE  EInv'
<1>1. CASE InfoSockopt("ipvs_init")
  BY <1>1, InfoExact DEF Dumping
<1>2. CASE /\ build = "netlink" /\ try_nl' = TRUE
           /\ Message("ipvs_init", Probe, 0, NoFamily)
           /\ fresh' = [fresh EXCEPT !.call = TRUE]
           /\ UNCHANGED <<build, caller, kernel, family, num_services, entry, strikes>>
  <2>1. Paired("ipvs_init", Probe) /\ Netlink' /\ Preset("ipvs_init") = 0
    BY <1>2 DEF Paired, Netlink, Preset
  <2>2. FlightInv' /\ DumpInv' /\ AllExact'
    BY <1>2, <2>1, MessagedFlight
  <2>3. FreshInv'
    BY <1>2, StillFresh DEF EInv, IInv, GlobalInv, History, kernel
  <2> QED
    BY <2>2, <2>3 DEF EInv
<1> QED
  BY <1>1, <1>2 DEF ipvs_init

LEMMA CloseExact ==
  ASSUME ipvs_close, EInv
  PROVE  EInv'
<1>1. UNCHANGED <<build, table, try_nl, num_services, pc, call, result, entry, fresh>>
  BY DEF ipvs_close, kernel, library, history
<1> QED
  BY <1>1, Unmoved

-----------------------------------------------------------------------------
(* So do the steps of a netlink call.                                      *)

LEMMA FailureExact ==
  ASSUME IInv, EInv, NlFails, UNCHANGED <<outside, kernel, fresh>>
  PROVE  EInv'
<1>1. FreshInv'
  BY StillFresh DEF EInv, outside, kernel
<1> QED
  BY <1>1, FailedFlight DEF EInv

LEMMA ResolveExact ==
  ASSUME IInv, EInv, NlResolve
  PROVE  EInv'
<1> USE DEF NlResolve
<1>1. FreshInv' /\ pc = "resolve" /\ Netlink' /\ UNCHANGED entry
  BY StillFresh DEF EInv, FlightInv, Netlink, outside, kernel, history
<1>2. CASE call.cmd.op = "probe"
  <2>1. Paired(call.fn, Info) /\ Preset(call.fn) = 0
    BY <1>2, OpsApart DEF EInv, FlightInv, Paired, Preset
  <2>2. call.fn # "ipvs_get_dests"
    BY <1>2 DEF EInv, FlightInv, Paired
  <2> QED
    BY <1>1, <1>2, <2>1, <2>2, MessagedFlight DEF EInv
<1>3. CASE call.cmd.op # "probe"
  <2>1. pc' = "send" /\ UNCHANGED <<call, result, initialised>>
    BY <1>3
  <2>2. FlightInv' /\ DumpInv'
    BY <1>1, <2>1 DEF EInv, FlightInv, DumpInv, Preset
  <2> QED
    BY <1>1, <2>1, <2>2, NothingShown DEF EInv
<1> QED
  BY <1>2, <1>3

LEMMA CommandExact ==
  ASSUME IInv, EInv, NlCommand
  PROVE  EInv'
<1> USE DEF NlCommand, Arrives
<1>1. call.fn \notin Dumping
  BY OpsApart DEF EInv, FlightInv, Paired, Dumping
<1>2. FlightInv'
  BY <1>1 DEF EInv, FlightInv, Netlink, outside
<1>3. FreshInv'
  BY AgedFresh DEF EInv, outside
<1> QED
  BY <1>2, <1>3, NothingShown DEF EInv, DumpInv

LEMMA QuestionExact ==
  ASSUME IInv, EInv, NlQuestion
  PROVE  EInv'
<1> USE DEF NlQuestion, Arrives
<1>1. call.fn \notin Dumping
  BY DEF EInv, FlightInv, Paired, Dumping
<1>2. call'.fn = call.fn /\ call'.cmd = call.cmd
  BY DEF IInv, CallInv, CallTyped
<1>3. FlightInv'
  BY <1>1, <1>2 DEF EInv, FlightInv, Netlink, outside
<1>4. FreshInv'
  BY StillFresh DEF EInv, outside, kernel
<1> QED
  BY <1>3, <1>4, NothingShown DEF EInv, DumpInv

LEMMA DumpExact ==
  ASSUME IInv, EInv, NlDump
  PROVE  EInv'
<1> USE DEF NlDump, Arrives
<1>1. FlightInv'
  BY DEF EInv, FlightInv, Netlink, Preset, outside
<1>2. FreshInv'
  BY StillFresh DEF EInv, outside, kernel
<1>3. DumpInv'
  <2>1. call'.got = <<>> /\ UNCHANGED <<table, call>>
    BY DEF EInv, FlightInv, kernel
  <2>2. Len(Source) \in Nat /\ Source' = Source
    BY <2>1, SourceShows DEF IInv, KernelInv, Source
  <2> QED
    BY <2>1, <2>2, NothingGathered DEF DumpInv
<1> QED
  BY <1>1, <1>2, <1>3, NothingShown DEF EInv

LEMMA DumpEntryExact ==
  ASSUME IInv, EInv, NlDumpEntry
  PROVE  EInv'
<1> USE DEF NlDumpEntry
<1>1. FreshInv'
  BY StillFresh DEF EInv, outside, kernel, history
<1>2. CASE pc' = "undefined" /\ UNCHANGED call
  <2>1. FlightInv' /\ DumpInv'
    BY <1>2 DEF EInv, FlightInv, DumpInv, outside
  <2> QED
    BY <1>1, <1>2, <2>1, NothingShown DEF EInv
<1>3. CASE /\ call' = [call EXCEPT !.got = Store(@, Source[call.seen + 1]), !.seen = @ + 1,
                                   !.num = @ + 1, !.capacity = call.num + 2]
           /\ UNCHANGED pc
  <2> DEFINE n == Len(call.got)
             x == Source[call.seen + 1]
             got == Append(call.got, x)
  <2>1. CallTyped(call) /\ pc = "dump"
    BY DEF IInv, CallInv
  <2>2. call.seen = n /\ call.num = n + Preset(call.fn) /\ n \in Nat
    BY <2>1, AppendSeq DEF EInv, FlightInv, CallTyped
  <2>3. n < Len(Source) /\ Len(Source) \in Nat
    BY <2>2, SourceShows DEF IInv, KernelInv
  <2> HIDE DEF x
  <2>4. /\ Len(got) = n + 1
        /\ \A i \in 1 .. n : got[i] = call.got[i]
        /\ got[n + 1] = x
    BY <2>1, AppendSeq DEF CallTyped
  <2> HIDE DEF got, n
  <2>5. /\ call'.fn = call.fn /\ call'.cmd = call.cmd /\ call'.got = got
        /\ call'.seen = call.seen + 1 /\ call'.num = call.num + 1
    BY <1>3, <2>1 DEF CallTyped, Store, x, got
  <2>6. Preset(call.fn) \in Nat /\ Preset(call.fn)' = Preset(call.fn)
    <3>1. call.fn = "ipvs_get_dests" => entry.num_dests \in Nat
      BY DEF EInv, FlightInv, IInv, BoundInv, Given, Uncounted, ServiceEntry
    <3> QED
      BY <2>5, <3>1 DEF Preset, outside
  <2>7. FlightInv'
    <3>1. Netlink' /\ UNCHANGED entry /\ pc' = "dump"
      BY <1>3, <2>1 DEF EInv, FlightInv, Netlink, outside
    <3>2. /\ call'.seen = Len(call'.got)
          /\ call'.num = Len(call'.got) + Preset(call.fn)'
      BY <2>2, <2>4, <2>5, <2>6
    <3> QED
      BY <2>5, <3>1, <3>2 DEF EInv, FlightInv
  <2>8. DumpInv'
    <3>1. Source' = Source
      <4>1. UNCHANGED table /\ call'.cmd = call.cmd
        BY <2>5 DEF kernel
      <4> QED
        BY <4>1 DEF Source
    <3>2. SUFFICES ASSUME fresh.call
                   PROVE  n + 1 <= Len(Source) /\ \A i \in 1 .. n + 1 : got[i] = Source[i]
      BY <2>4, <2>5, <3>1 DEF DumpInv, history
    <3>3. \A i \in 1 .. n : call.got[i] = Source[i]
      BY <2>1, <3>2 DEF EInv, DumpInv, n
    <3> QED
      BY <2>2, <2>3, <2>4, <3>3 DEF x
  <2> QED
    BY <1>1, <1>3, <2>1, <2>7, <2>8, NothingShown DEF EInv
<1> QED
  BY <1>2, <1>3

\* A dump that ends with the table as it was has gathered all of it.
LEMMA GatheredAll ==
  ASSUME IInv, EInv, pc = "dump", call.seen >= Len(Source), fresh.call
  PROVE  Len(call.got) = Len(Source) /\ \A i \in 1 .. Len(Source) : call.got[i] = Source[i]
<1>1. Len(call.got) \in Nat /\ Len(Source) \in Nat
  BY AppendSeq, SourceShows DEF IInv, KernelInv, CallInv, CallTyped
<1> QED
  BY <1>1 DEF EInv, FlightInv, DumpInv

LEMMA ReceiveFresh ==
  ASSUME IInv, EInv, NlReceive
  PROVE  FreshInv' /\ (fresh'.call => fresh.call) /\ UNCHANGED table
<1>1. UNCHANGED <<table, num_services>> /\ Keep(call.got)
  BY DEF NlReceive, kernel, library
<1>2. CASE UNCHANGED <<entry, fresh>>
  BY <1>1, <1>2, StillFresh DEF EInv
<1>3. CASE /\ call.cmd.op \in {"get_services", "get_service"}
           /\ \E i \in DOMAIN call.got : entry' = call.got[i]
           /\ fresh' = [fresh EXCEPT !.entry = TRUE]
  <2>1. entry' \in Uncounted
    BY <1>3 DEF IInv, CallInv, CallTyped
  <2>2. entry'.via = "netlink"
    BY <2>1 DEF Uncounted, ServiceEntry
  <2>3. fresh'.info = fresh.info /\ fresh'.call = fresh.call
    BY <1>3 DEF IInv, GlobalInv, History
  <2> QED
    BY <1>1, <2>2, <2>3 DEF EInv, FreshInv
<1> QED
  BY <1>1, <1>2, <1>3 DEF Keep

\* Two sequences with the same elements are the same.
LEMMA SameSeq ==
  ASSUME NEW a, NEW b, IsSeq(a), IsSeq(b), Len(a) = Len(b), \A i \in 1 .. Len(b) : a[i] = b[i]
  PROVE  a = b
<1>1. PICK A, B : a \in Seq(A) /\ b \in Seq(B)
  BY DEF IsSeq
<1>2. a \in Seq(A \cup B) /\ b \in Seq(A \cup B)
  BY <1>1
<1> QED
  BY <1>2, SeqEqual

LEMMA ReceiveExact ==
  ASSUME IInv, EInv, NlReceive
  PROVE  EInv'
<1> DEFINE n == IF pc = "dump" THEN call.num - Len(call.got) ELSE 0
<1>1. Return(call.fn, call.cmd, TRUE, call.got, n)
  BY DEF NlReceive
<1>2. FlightInv' /\ DumpInv' /\ (call.fn \notin Dumping => AllExact')
  BY <1>1, ReturnedFlight
<1>3. FreshInv' /\ (fresh'.call => fresh.call) /\ UNCHANGED table /\ table \in Tables
  BY ReceiveFresh DEF IInv, KernelInv
<1>4. AllExact'
  <2>1. SUFFICES ASSUME call.fn \in Dumping
                 PROVE  AllExact'
    BY <1>2
  <2>2. pc = "dump" /\ call.seen >= Len(Source) /\ Netlink
    BY <2>1 DEF NlReceive, EInv, FlightInv
  <2>3. n = Preset(call.fn)
    <3>1. call.fn = "ipvs_get_dests" => entry.num_dests \in Nat
      BY DEF EInv, FlightInv, IInv, BoundInv, Given, Uncounted, ServiceEntry
    <3>2. Len(call.got) \in Nat /\ call.num = Len(call.got) + Preset(call.fn)
      BY <2>2, AppendSeq DEF EInv, FlightInv, IInv, CallInv, CallTyped
    <3> QED
      BY <2>2, <3>1, <3>2 DEF Preset
  <2> HIDE DEF n
  <2>4. /\ result'.fn = call.fn /\ result'.via = "netlink" /\ result'.cmd = call.cmd
        /\ result'.got = call.got /\ result'.garbage = Preset(call.fn)
    BY <1>1, <2>2, <2>3 DEF Return, Via
  <2>5. fresh'.call => /\ Len(call.got) = Len(Source)
                       /\ \A i \in 1 .. Len(Source) : call.got[i] = Source[i]
    BY <1>3, <2>2, GatheredAll
  <2>6. CASE call.fn = "ipvs_get_services"
    <3> DEFINE there == ServicesVia(table, "netlink")
    <3>1. call.cmd.op = "get_services" /\ Preset(call.fn) = 0
      BY <2>6 DEF EInv, FlightInv, Paired, Preset
    <3>2. DOMAIN there = 1 .. Len(there)
      BY <1>3, ListedServices, LenProperties
    <3>3. /\ Len(Source) = Len(there)
          /\ \A i \in 1 .. Len(there) : Source[i] = ReadService(table, there[i], "netlink")
      BY <1>3, <3>1, SourceShows
    <3>4. fresh'.call =>
            /\ Len(call.got) = Len(there)
            /\ \A i \in 1 .. Len(there) : call.got[i] = ReadService(table, there[i], "netlink")
      BY <2>5, <3>3
    <3> HIDE DEF there
    <3>5. fresh'.call =>
            /\ result'.garbage = 0 /\ Len(result'.got) = Len(there)
            /\ DOMAIN there = 1 .. Len(there)
            /\ \A i \in 1 .. Len(there) :
                 result'.got[i] = ReadService(table, there[i], "netlink")
      BY <2>4, <3>1, <3>2, <3>4
    <3> QED
      BY <1>3, <2>4, <2>6, <3>5, ServicesShown DEF there
  <2>7. CASE call.fn = "ipvs_get_dests"
    <3> DEFINE s == call.cmd.svc
               there == DestsOf(table, s)
    <3>1. call.cmd.op = "get_dests" /\ Preset(call.fn) = entry.num_dests
      BY <2>7 DEF EInv, FlightInv, Paired, Preset
    <3>2. DOMAIN there = 1 .. Len(there)
      BY <1>3, DestsListed, LenProperties
    <3>3. /\ Len(Source) = Len(there)
          /\ \A i \in 1 .. Len(there) : Source[i] = ReadDest(table, s, there[i], "netlink")
      BY <1>3, <3>1, SourceShows
    <3>4. fresh'.call =>
            /\ Len(call.got) = Len(there)
            /\ \A i \in 1 .. Len(there) : call.got[i] = ReadDest(table, s, there[i], "netlink")
      BY <2>5, <3>3
    <3>5. entry'.via = "netlink" => entry.num_dests = 0
      <4>1. UNCHANGED entry
        BY <3>1 DEF NlReceive, Keep
      <4> QED
        BY <2>7, <4>1 DEF EInv, FlightInv, IInv, BoundInv, Given, Uncounted, ServiceEntry
    <3> HIDE DEF there
    <3>6. fresh'.call /\ entry'.via = "netlink" =>
            /\ result'.garbage = 0 /\ Len(result'.got) = Len(there)
            /\ DOMAIN there = 1 .. Len(there)
            /\ \A i \in 1 .. Len(there) :
                 result'.got[i] = ReadDest(table, s, there[i], "netlink")
      BY <2>4, <3>1, <3>2, <3>4, <3>5
    <3>7. s = result'.cmd.svc
      BY <2>4
    <3> QED
      BY <1>3, <2>4, <2>7, <3>6, <3>7, DestsShown DEF there
  <2>8. CASE call.fn = "ipvs_get_daemon"
    <3>1. Source = ReadDaemons(table)
      BY <1>3, <2>8, SourceShows DEF EInv, FlightInv, Paired
    <3>2. fresh'.call => call.got = Source
      <4>1. IsSeq(call.got) /\ IsSeq(Source)
        BY <3>1, DaemonsListed DEF IInv, CallInv, CallTyped, IsSeq
      <4> QED
        BY <2>5, <4>1, SameSeq
    <3> QED
      BY <1>3, <2>4, <2>8, <3>1, <3>2, DaemonsShown
  <2> QED
    BY <2>1, <2>6, <2>7, <2>8 DEF Dumping
<1> QED
  BY <1>2, <1>3, <1>4 DEF EInv

LEMMA SendingExact ==
  ASSUME IInv, EInv, Sending
  PROVE  EInv'
<1>1. CASE NlNoSocket \/ NlUnresolved \/ NlSendFails \/ NlSendStale \/ NlReceiveFails
  BY <1>1, FailureExact
     DEF NlNoSocket, NlUnresolved, NlSendFails, NlSendStale, NlReceiveFails, history
<1> QED
  BY <1>1, ResolveExact, CommandExact, QuestionExact, DumpExact, DumpEntryExact, ReceiveExact
     DEF Sending

-----------------------------------------------------------------------------
(* So does everything else on the machine.                                 *)

LEMMA SurroundingExact ==
  ASSUME IInv, EInv, Surroundings
  PROVE  EInv'
<1>1. /\ UNCHANGED <<build, try_nl, num_services, pc, call, result, entry>>
      /\ fresh' = Aged(fresh) \/ UNCHANGED <<table, fresh>>
  BY DEF Surroundings, OtherProgram, Traffic, Unload, Load, inside, library
<1>2. CASE UNCHANGED <<table, fresh>>
  BY <1>1, <1>2, Unmoved
<1>3. CASE fresh' = Aged(fresh)
  <2>1. FlightInv'
    BY <1>1 DEF EInv, FlightInv, Netlink, Preset
  <2>2. FreshInv'
    BY <1>1, <1>3, AgedFresh DEF EInv
  <2>3. fresh'.call => fresh.call /\ table' = table
    BY <1>3 DEF Aged
  <2>4. DumpInv'
    <3>1. fresh'.call => Source' = Source
      BY <1>1, <2>3 DEF Source
    <3> QED
      BY <1>1, <2>3, <3>1 DEF EInv, DumpInv
  <2>5. AllExact'
    <3>1. /\ fresh'.info => fresh.info
          /\ fresh'.entry => fresh.entry
      BY <1>3 DEF Aged
    <3>2. ExactServices'
      BY <1>1, <2>3, <3>1 DEF EInv, AllExact, ExactServices, Exact
    <3>3. ExactDests'
      BY <1>1, <2>3, <3>1 DEF EInv, AllExact, ExactDests, Exact
    <3>4. ExactDaemons'
      BY <1>1, <2>3, <3>1 DEF EInv, AllExact, ExactDaemons, Exact
    <3> QED
      BY <3>2, <3>3, <3>4 DEF AllExact
  <2> QED
    BY <2>1, <2>2, <2>4, <2>5 DEF EInv
<1> QED
  BY <1>1, <1>2, <1>3

-----------------------------------------------------------------------------
(* The dumps are exact.                                                    *)

LEMMA InitEInv == Init => EInv
BY NothingGathered
   DEF Init, EInv, FlightInv, DumpInv, FreshInv, AllExact, ExactServices, ExactDests,
       ExactDaemons, Exact, NoCall, NoResult, Paired

LEMMA NextEInv == IInv /\ EInv /\ [Next]_vars => EInv'
<1> SUFFICES ASSUME IInv, EInv, [Next]_vars PROVE EInv'
  OBVIOUS
<1>1. CASE Commanding
  <2>1. PICK fn, cmd : cmd \in Commands /\ Commandeers(fn, cmd)
    BY <1>1, CommandingShape
  <2>2. /\ Paired(fn, cmd) /\ 0 = Preset(fn) /\ 0 \in Nat
        /\ fn \notin Dumping /\ fn # "ipvs_get_dests"
    BY <2>1 DEF Commandeers, Dumping, Paired, Preset
  <2>3. CASE NlCall(fn, cmd, 0)
    BY <2>2, <2>3, NlCallExact
  <2>4. CASE SetSockopt(fn, cmd, TRUE)
    BY <2>2, <2>4, SetSockoptExact
  <2> QED
    BY <2>1, <2>3, <2>4 DEF Commandeers
<1>2. CASE Asking
  <2>1. Asks
    BY <1>2, AskingShape DEF IInv, KernelInv, GlobalInv, BoundInv
  <2>2. ASSUME NEW fn, NEW cmd, NEW num, AsksNl(fn, cmd, num)
        PROVE  EInv'
    <3>1. num \in Nat
      BY <2>2 DEF AsksNl, Preset, IInv, BoundInv, Given, Uncounted, ServiceEntry
    <3> QED
      BY <2>2, <3>1, NlCallExact DEF AsksNl
  <2> QED
    BY <2>1, <2>2, GetSockoptExact, InfoExact DEF Asks, Dumping
<1>3. CASE FallBack
  BY <1>3, InfoExact DEF FallBack, Dumping
<1>4. CASE UNCHANGED vars
  BY <1>4, Unmoved DEF vars, kernel, library, history
<1> QED
  BY <1>1, <1>2, <1>3, <1>4, InitExact, CloseExact, SendingExact, SurroundingExact DEF Next

\* What a dump has gathered, and what was counted for one, agrees with the
\* kernel's table for as long as that keeps still.
THEOREM DumpInvariance == Spec => []EInv
BY InitEInv, NextEInv, Invariance, PTL DEF Spec

\* ipvs_get_services gives every service its transport can name, each as it is
\* in the kernel, and nothing else, as long as nothing changes meanwhile.
THEOREM ServicesExact == Spec => []ExactServices
<1>1. EInv => ExactServices
  BY DEF EInv, AllExact
<1> QED
  BY <1>1, DumpInvariance, PTL

\* So does ipvs_get_dests for the destinations of a service whose entry came
\* over the same transport.
THEOREM DestsExact == Spec => []ExactDests
<1>1. EInv => ExactDests
  BY DEF EInv, AllExact
<1> QED
  BY <1>1, DumpInvariance, PTL

\* ipvs_get_daemon gives the daemons that run, over both transports.
THEOREM DaemonsExact == Spec => []ExactDaemons
<1>1. EInv => ExactDaemons
  BY DEF EInv, AllExact
<1> QED
  BY <1>1, DumpInvariance, PTL

=============================================================================
