---------------------------- MODULE RateTestProofs ----------------------------
(***************************************************************************)
(* For any texts, resolver, ports and tables: what a run of rate_test does *)
(* to the table, and that its exit status tells.                           *)
(***************************************************************************)
EXTENDS RateTest, IpvsInterfaceProofs

-----------------------------------------------------------------------------
(* What the texts mean, and what m_parse_service makes of them.            *)

LEMMA AnswerTyped ==
  ASSUME NEW text, NEW answer \in Answer(text)
  PROVE  answer \in Addr4 \cup {NoAddr}
BY AddressAssumption DEF Answer

\* An address that the socket options can carry is one the text stands for.
LEMMA HostMeaning ==
  ASSUME NEW text, NEW answer \in Answer(text), ~ Malformed(text),
         HostAddress(text, answer) \notin Addr6 \cup {NoAddr}
  PROVE  HostAddress(text, answer) \in HostMeans(text)
<1>1. text.bracket \notin {"bare", "unclosed"}
  BY DEF Malformed
<1>2. ~ IsLiteral6(text)
  BY AddressAssumption DEF HostAddress, IsLiteral6
<1>3. CASE IsLiteral4(text)
  <2>1. text.host \in DOMAIN InetAton /\ text.host \notin DOMAIN InetPton
    BY <1>3, SpellingAssumption DEF IsLiteral4
  <2> QED
    BY <1>1, <1>2, <1>3, <2>1 DEF HostAddress, HostMeans
<1>4. CASE ~ IsLiteral4(text)
  <2>1. NeedsLookup(text) /\ HostAddress(text, answer) = answer
    BY <1>2, <1>4 DEF NeedsLookup, HostAddress
  <2>2. text.host \in DOMAIN Resolver /\ answer \in Resolver[text.host]
    BY <2>1 DEF Answer
  <2>3. text.host \notin DOMAIN InetAton /\ text.host \notin DOMAIN InetPton
    BY <1>2, <1>4, <2>2, SpellingAssumption DEF IsLiteral4
  <2> QED
    BY <1>1, <2>1, <2>2, <2>3 DEF HostMeans
<1> QED
  BY <1>3, <1>4

LEMMA PortsAreNatural == \A p \in PortNumbers : p # -1
BY DEF PortNumbers

\* A port that was read is one the port text stands for.
LEMMA PortMeaning ==
  ASSUME NEW port, PortValue(port) # -1
  PROVE  PortValue(port) \in PortMeans(port)
<1>1. CASE port \in DOMAIN Strtol /\ Strtol[port] \in PortNumbers
  <2>1. Strtol[port] # -1
    BY <1>1, PortsAreNatural
  <2>2. m_string_to_number(port) = Strtol[port]
    BY <1>1 DEF m_string_to_number
  <2>3. PortValue(port) = Strtol[port] /\ PortMeans(port) = {Strtol[port]}
    BY <1>1, <2>1, <2>2 DEF PortValue, PortMeans
  <2> QED
    BY <2>3
<1>2. CASE ~ (port \in DOMAIN Strtol /\ Strtol[port] \in PortNumbers)
  <2>1. m_string_to_number(port) = -1
    BY <1>2 DEF m_string_to_number
  <2>2. port \in DOMAIN TcpServices /\ PortValue(port) = TcpServices[port]
    BY <2>1 DEF PortValue, m_service_to_port
  <2> QED
    BY <1>2, <2>2 DEF PortMeans
<1> QED
  BY <1>1, <1>2

\* What m_parse_service leaves when it does not return SERVICE_NONE.
LEMMA ParseMeaning ==
  ASSUME NEW text, NEW s, NEW answer \in Answer(text), NEW parse,
         parse = m_parse_service(text, s, answer),
         parse.flags # SERVICE_NONE, parse.svc.addr \notin Addr6
  PROVE  /\ parse.svc.addr \in HostMeans(text)
         /\ text.bracket = "none" =>
              \/ /\ parse.flags = SERVICE_ADDR /\ GivenPort(text) = NoText
                 /\ parse.svc.port = s.port
              \/ /\ parse.flags = SERVICE_BOTH /\ GivenPort(text) # NoText
                 /\ parse.svc.port \in PortMeans(GivenPort(text))
<1>1. ~ Malformed(text) /\ HostAddress(text, answer) # NoAddr
  BY DEF m_parse_service
<1>2. parse.svc.addr = HostAddress(text, answer)
  BY <1>1 DEF m_parse_service
<1>3. parse.svc.addr \in HostMeans(text)
  BY <1>1, <1>2, HostMeaning
<1>4. text.bracket = "none" => PortText(text) = GivenPort(text)
  <2>1. ~ IsLiteral6(text)
    BY <1>2, AddressAssumption DEF HostAddress, IsLiteral6
  <2> QED
    BY <2>1 DEF PortText, GivenPort
<1>5. CASE PortText(text) = NoText
  BY <1>1, <1>3, <1>4, <1>5 DEF m_parse_service
<1>6. CASE PortText(text) # NoText
  <2>1. PortValue(PortText(text)) # -1
    BY <1>1, <1>6 DEF m_parse_service
  <2>2. parse.flags = SERVICE_BOTH /\ parse.svc.port = PortValue(PortText(text))
    BY <1>1, <1>6, <2>1 DEF m_parse_service
  <2> QED
    BY <1>3, <1>4, <1>6, <2>1, <2>2, PortMeaning
<1> QED
  BY <1>5, <1>6

-----------------------------------------------------------------------------
(* The invariant: between the calls of main, what the next one relies on.  *)

SocketInv ==
  /\ pc = "main" => sockets = 0
  /\ pc \in {"modprobe", "retry"} => sockets \in {0, 1}

\* ExitTells looks at the end of a run only.  This is what leads there: the
\* service that was parsed is one the text means, then so is the destination.
ParseInv ==
  /\ pc = "server" /\ svc.addr \notin Addr6 /\ svc.port # 0 =>
       /\ svc.addr \in HostMeans(args.vip)
       /\ args.vip.bracket = "none" => svc.port \in PortMeans(GivenPort(args.vip))
  /\ pc = "update" \/ set => (Compatible(target) /\ target \in Destinations
                                => target \in MeantBesidesPorts)

EffectInv ==
  /\ before \in [Destinations -> Entries \cup {NoEntry}] /\ args \in Args
  /\ pc \notin {"destroy", "exited"} => ~ set
  /\ IF set THEN Editable(before, target) /\ table = EditDest(before, target, args.weight)
     ELSE table = before
  /\ pc # "exited" => exit_status = -1
  /\ pc = "exited" => exit_status = IF set THEN 0 ELSE 1

RunInv == TypeOK /\ Initialised /\ SocketInv /\ ParseInv /\ EffectInv

LEMMA InitRun == Init => RunInv
<1> SUFFICES ASSUME Init PROVE RunInv
  OBVIOUS
<1>1. TypeOK
  <2>1. svc \in Services /\ target \in Targets
    BY ClearedServiceTyped, NoTargetTyped DEF Init
  <2>2. loaded \in BOOLEAN /\ m_initialized \in BOOLEAN /\ set \in BOOLEAN
    BY DEF Init
  <2>3. table \in [Destinations -> Entries \cup {NoEntry}]
    BY RateAssumption DEF Init
  <2> QED
    BY <2>1, <2>2, <2>3 DEF Init, TypeOK
<1>2. EffectInv
  BY RateAssumption DEF Init, EffectInv
<1>3. Initialised /\ SocketInv
  BY DEF Init, Initialised, SocketInv
<1>4. ParseInv
  BY Zenon DEF Init, ParseInv
<1> QED
  BY <1>1, <1>2, <1>3, <1>4 DEF RunInv

\* ipvs_init, first or second.
LEMMA IpvsInitRun ==
  ASSUME RunInv, NEW from \in {"main", "retry"}, NEW failed \in {"modprobe", "exited"},
         IpvsInit(from, "vip", failed), failed = "modprobe" => from = "main",
         exit_status' = IF pc' = "exited" THEN 1 ELSE exit_status
  PROVE  RunInv'
<1>1. /\ pc = from /\ pc' \in {"vip", failed} /\ m_initialized' = (pc' = "vip")
      /\ pc' = "vip" => loaded /\ sockets' = sockets + 1
      /\ sockets' \in {sockets, sockets + 1}
      /\ UNCHANGED <<args, before, loaded, svc, target, set, table>>
  BY DEF IpvsInit, Goto, inputs, locals
<1>2. sockets \in {0, 1} /\ (pc = "main" => sockets = 0)
  BY <1>1 DEF RunInv, SocketInv
<1>3. TypeOK'
  <2>1. m_initialized' \in BOOLEAN
    BY <1>1
  <2>2. /\ pc' \in {"vip", "modprobe", "exited"} /\ sockets' \in 0 .. 2
        /\ exit_status' \in {-1, 0, 1}
    BY <1>1, <1>2 DEF RunInv, TypeOK
  <2> QED
    BY <1>1, <2>1, <2>2 DEF RunInv, TypeOK
<1>6. Initialised' /\ SocketInv'
  <2>1. pc' = "vip" => m_initialized'
    BY <1>1, Zenon
  <2>2. pc' = "vip" => sockets' > 0
    BY <1>1, <1>2
  <2>3. Initialised'
    BY <1>1, <2>1, <2>2 DEF Initialised
  <2>4. pc' = "modprobe" => sockets' \in {0, 1}
    BY <1>1, <1>2
  <2> QED
    BY <1>1, <2>3, <2>4 DEF SocketInv
<1>4. EffectInv'
  BY <1>1 DEF RunInv, EffectInv
<1>5. ParseInv'
  <2>1. pc' \notin {"server", "update"} /\ ~ set'
    BY <1>1 DEF RunInv, EffectInv
  <2> QED
    BY <2>1, Zenon DEF ParseInv
<1> QED
  BY <1>3, <1>4, <1>5, <1>6 DEF RunInv

\* A call of set_weight that only reads: parsing moves svc or target.
LEMMA ReadingRun ==
  ASSUME RunInv, NEW from \in {"vip", "server", "update"}, NEW to \in {"server", "update", "destroy"},
         Goto(from, to), svc' \in Services, target' \in Targets, ParseInv',
         UNCHANGED <<args, before, loaded, sockets, m_initialized, set, table, exit_status>>
  PROVE  RunInv'
<1>1. pc = from /\ pc' = to
  BY DEF Goto
<1>2. TypeOK'
  BY <1>1 DEF RunInv, TypeOK
<1>3. Initialised' /\ SocketInv'
  BY <1>1 DEF RunInv, Initialised, SocketInv
<1>4. EffectInv'
  <2>1. ~ set
    BY <1>1 DEF RunInv, EffectInv
  <2> QED
    BY <1>1, <2>1 DEF RunInv, EffectInv
<1> QED
  BY <1>2, <1>3, <1>4 DEF RunInv

LEMMA ParseVipRun ==
  ASSUME RunInv, ParseVipText
  PROVE  RunInv'
<1>1. PICK answer \in Answer(args.vip) :
        LET parse == ParseVip(args.vip, answer)
        IN  /\ Goto("vip", IF parse.flags = SERVICE_NONE THEN "destroy" ELSE "server")
            /\ svc' = parse.svc
  BY DEF ParseVipText
<1> PICK parse : parse = ParseVip(args.vip, answer)
  OBVIOUS
<1> PICK to : to = IF parse.flags = SERVICE_NONE THEN "destroy" ELSE "server"
  OBVIOUS
<1>2. /\ Goto("vip", to) /\ svc' = parse.svc
      /\ UNCHANGED <<args, before, loaded, sockets, m_initialized, target, set, table, exit_status>>
  BY <1>1 DEF ParseVipText, inputs
<1>3. svc' \in Services
  BY <1>2, AnswerTyped, ParseTyped, ClearedServiceTyped DEF ParseVip
<1>4. ParseInv'
  <2>1. pc' = to /\ pc = "vip" /\ ~ set'
    BY <1>2 DEF Goto, RunInv, EffectInv
  <2>2. ASSUME to = "server", parse.svc.addr \notin Addr6, parse.svc.port # 0
        PROVE  /\ parse.svc.addr \in HostMeans(args.vip)
               /\ args.vip.bracket = "none" =>
                    parse.svc.port \in PortMeans(GivenPort(args.vip))
    <3>1. parse.flags # SERVICE_NONE
      BY <2>2
    <3>2. parse.svc.addr \in HostMeans(args.vip)
      BY <2>2, <3>1, ParseMeaning DEF ParseVip
    <3>3. ASSUME args.vip.bracket = "none"
          PROVE  parse.svc.port \in PortMeans(GivenPort(args.vip))
      BY <2>2, <3>1, <3>3, ParseMeaning DEF ParseVip, ClearedService
    <3> QED
      BY <3>2, <3>3
  <2> QED
    BY <1>2, <2>1, <2>2 DEF ParseInv
<1> QED
  BY <1>2, <1>3, <1>4, ReadingRun DEF RunInv, TypeOK

LEMMA ParseServerRun ==
  ASSUME RunInv, ParseServerText
  PROVE  RunInv'
<1>1. PICK answer \in Answer(args.server) :
        LET parse == ParseServer(args.server, svc, answer)
        IN  /\ Goto("server", IF Reaches(svc, parse) THEN "update" ELSE "destroy")
            /\ target' = Target(svc, parse)
  BY DEF ParseServerText
<1> PICK parse : parse = ParseServer(args.server, svc, answer)
  OBVIOUS
<1> PICK to : to = IF Reaches(svc, parse) THEN "update" ELSE "destroy"
  OBVIOUS
<1>2. /\ Goto("server", to) /\ target' = Target(svc, parse)
      /\ UNCHANGED <<args, before, loaded, sockets, m_initialized, svc, set, table, exit_status>>
  BY <1>1 DEF ParseServerText, inputs
<1>3. target' \in Targets
  BY <1>2, AnswerTyped, TargetTyped DEF RunInv, TypeOK
<1>4. ParseInv'
  <2>1. pc' = to /\ pc = "server" /\ ~ set'
    BY <1>2 DEF Goto, RunInv, EffectInv
  <2>2. ASSUME to = "update", Compatible(target'), target' \in Destinations
        PROVE  target' \in MeantBesidesPorts
    <3>1. parse.flags # SERVICE_NONE /\ svc.port # 0
      BY <2>2 DEF Reaches
    <3>2. /\ target'.vaddr = svc.addr /\ target'.vport = svc.port
          /\ target'.addr = parse.svc.addr
          /\ target'.port = IF parse.flags = SERVICE_ADDR THEN svc.port ELSE parse.svc.port
      BY <1>2 DEF Target
    <3>3. svc.addr \notin Addr6 /\ parse.svc.addr \notin Addr6
      BY <2>2, <3>2 DEF Compatible
    <3>4. /\ svc.addr \in HostMeans(args.vip)
          /\ args.vip.bracket = "none" => svc.port \in PortMeans(GivenPort(args.vip))
      BY <2>1, <3>1, <3>3 DEF RunInv, ParseInv
    <3>5. parse.svc.addr \in HostMeans(args.server)
      BY <3>1, <3>3, ParseMeaning DEF ParseServer
    <3>6. ASSUME args.server.bracket = "none"
          PROVE  target'.port \in ServerPorts(svc.port)
      <4>1. \/ parse.flags = SERVICE_ADDR /\ GivenPort(args.server) = NoText
            \/ /\ parse.flags = SERVICE_BOTH /\ GivenPort(args.server) # NoText
               /\ parse.svc.port \in PortMeans(GivenPort(args.server))
        BY <3>1, <3>3, <3>6, ParseMeaning DEF ParseServer
      <4> QED
        BY <3>2, <4>1 DEF ServerPorts, SERVICE_ADDR, SERVICE_BOTH
    <3> QED
      BY <2>2, <3>2, <3>4, <3>5, <3>6 DEF MeantBesidesPorts
  <2>3. MeantBesidesPorts' = MeantBesidesPorts
    BY <1>2 DEF MeantBesidesPorts, ServerPorts
  <2> QED
    BY <2>1, <2>2, <2>3 DEF ParseInv, Compatible
<1> QED
  BY <1>2, <1>3, <1>4, ReadingRun DEF RunInv, TypeOK

\* The edit is the one change of the table, on the destination that was named.
LEMMA UpdateRun ==
  ASSUME RunInv, UpdateDest
  PROVE  RunInv'
<1>1. /\ pc = "update" /\ pc' = "destroy" /\ Editable(table, target)
      /\ table' = EditDest(table, target, args.weight) /\ set' = TRUE
      /\ UNCHANGED <<args, before, loaded, sockets, m_initialized, svc, target, exit_status>>
  BY DEF UpdateDest, Goto, inputs
<1>2. ~ set /\ table = before /\ args.weight \in Int
  BY <1>1, RateAssumption DEF RunInv, EffectInv
<1>3. TypeOK'
  <2>1. table' \in [Destinations -> Entries \cup {NoEntry}]
    BY <1>1, <1>2, EditDestTyped DEF RunInv, TypeOK
  <2> QED
    BY <1>1, <2>1 DEF RunInv, TypeOK
<1>4. Initialised' /\ SocketInv'
  BY <1>1 DEF RunInv, Initialised, SocketInv
<1>5. EffectInv'
  <2>1. exit_status' = -1
    BY <1>1 DEF RunInv, EffectInv
  <2> QED
    BY <1>1, <1>2, <2>1 DEF RunInv, EffectInv
<1>6. ParseInv'
  <2>1. MeantBesidesPorts' = MeantBesidesPorts
    BY <1>1 DEF MeantBesidesPorts, ServerPorts
  <2>2. Compatible(target) /\ target \in Destinations => target \in MeantBesidesPorts
    BY <1>1 DEF RunInv, ParseInv
  <2> QED
    BY <1>1, <2>1, <2>2 DEF ParseInv, Compatible
<1> QED
  BY <1>3, <1>4, <1>5, <1>6 DEF RunInv

\* A failed call leads to the end with nothing changed.
LEMMA UpdateFailsRun ==
  ASSUME RunInv, UpdateFails
  PROVE  RunInv'
<1>1. /\ pc = "update" /\ Goto("update", "destroy") /\ ~ set
      /\ UNCHANGED <<args, before, loaded, sockets, m_initialized, svc, target, set, table,
                     exit_status>>
  BY DEF UpdateFails, Goto, inputs, locals, RunInv, EffectInv
<1>2. ParseInv'
  BY <1>1, Zenon DEF Goto, ParseInv
<1> QED
  BY <1>1, <1>2, ReadingRun DEF RunInv, TypeOK

\* What is left: modprobe, and the two ways out of main.
LEMMA OtherRun ==
  ASSUME RunInv, Usage \/ Modprobe \/ Destroy
  PROVE  RunInv'
<1>1. /\ pc \in {"main", "modprobe", "destroy"} /\ pc' \in {"retry", "exited"}
      /\ pc' = "retry" => pc = "modprobe" /\ exit_status' = exit_status
      /\ pc' = "exited" => exit_status' = IF set THEN 0 ELSE 1
      /\ loaded' \in BOOLEAN
      /\ UNCHANGED <<args, before, m_initialized, svc, target, set, table>>
  <2>1. pc \in {"main", "modprobe"} => ~ set
    BY DEF RunInv, EffectInv
  <2>2. CASE Usage
    BY <2>1, <2>2 DEF Usage, Goto, inputs, locals, RunInv, TypeOK
  <2>3. CASE Modprobe
    BY <2>1, <2>3 DEF Modprobe, Goto, inputs, locals, RunInv, TypeOK
  <2>4. CASE Destroy
    BY <2>4 DEF Destroy, Goto, inputs, locals, RunInv, TypeOK
  <2> QED
    BY <2>2, <2>3, <2>4
<1>2. /\ pc' = "retry" => sockets' \in {0, 1}
      /\ sockets' \in 0 .. 2
  <2>1. CASE Destroy
    <3>1. sockets > 0 /\ sockets \in 0 .. 2 /\ m_initialized
      BY <2>1 DEF Destroy, Goto, RunInv, TypeOK, Initialised
    <3>2. sockets' = sockets - 1 /\ pc' = "exited"
      BY <2>1, <3>1 DEF Destroy, Goto
    <3> QED
      BY <3>1, <3>2
  <2>2. CASE Usage \/ Modprobe
    <3>1. sockets' = sockets
      BY <2>2 DEF Usage, Modprobe
    <3> QED
      BY <1>1, <3>1 DEF RunInv, TypeOK, SocketInv
  <2> QED
    BY <2>1, <2>2
<1>3. TypeOK'
  <2>1. exit_status' \in {-1, 0, 1}
    BY <1>1 DEF RunInv, TypeOK
  <2> QED
    BY <1>1, <1>2, <2>1 DEF RunInv, TypeOK
<1>4. Initialised' /\ SocketInv'
  BY <1>1, <1>2 DEF Initialised, SocketInv
<1>5. EffectInv'
  <2>1. pc' = "retry" => ~ set
    BY <1>1 DEF RunInv, EffectInv
  <2> QED
    BY <1>1, <2>1 DEF RunInv, EffectInv
<1>6. ParseInv'
  <2>1. MeantBesidesPorts' = MeantBesidesPorts
    BY <1>1 DEF MeantBesidesPorts, ServerPorts
  <2>2. set => (Compatible(target) /\ target \in Destinations => target \in MeantBesidesPorts)
    BY DEF RunInv, ParseInv
  <2> QED
    BY <1>1, <2>1, <2>2 DEF ParseInv, Compatible
<1> QED
  BY <1>3, <1>4, <1>5, <1>6 DEF RunInv

LEMMA NextRun == RunInv /\ [Next]_vars => RunInv'
<1> SUFFICES ASSUME RunInv, [Next]_vars PROVE RunInv'
  OBVIOUS
<1>1. CASE FirstInit
  <2>1. pc' # "exited"
    BY <1>1 DEF FirstInit, IpvsInit, Goto
  <2> QED
    BY <1>1, <2>1, IpvsInitRun DEF FirstInit
<1>2. CASE SecondInit
  BY <1>2, IpvsInitRun DEF SecondInit
<1>3. CASE UNCHANGED vars
  <2>1. /\ TypeOK' = TypeOK /\ Initialised' = Initialised /\ SocketInv' = SocketInv
        /\ EffectInv' = EffectInv
    BY <1>3 DEF vars, TypeOK, Initialised, SocketInv, EffectInv
  <2>2. ParseInv' = ParseInv
    BY <1>3 DEF vars, ParseInv, MeantBesidesPorts, ServerPorts
  <2> QED
    BY <2>1, <2>2 DEF RunInv
<1> QED
  BY <1>1, <1>2, <1>3, ParseVipRun, ParseServerRun, UpdateRun, UpdateFailsRun, OtherRun DEF Next

-----------------------------------------------------------------------------
(* The theorems.                                                           *)

LEMMA RunInvariance == Spec => []RunInv
BY InitRun, NextRun, PTL DEF Spec

\* Whatever the kernel, modprobe and the resolver do, main keeps its types and
\* loses at most one of the two sockets that ipvs_init may open.
THEOREM RateTyped == Spec => []TypeOK
<1>1. RunInv => TypeOK
  BY DEF RunInv
<1> QED
  BY <1>1, RunInvariance, PTL

\* set_weight and the destructor only ever run on an open socket, with the
\* module in the kernel, however ipvs_interface::init came by it.
THEOREM RateInitialised == Spec => []Initialised
<1>1. RunInv => Initialised
  BY DEF RunInv
<1> QED
  BY <1>1, RunInvariance, PTL

\* For any two texts main returns 0 exactly when the kernel stored the weight:
\* in one destination, at addresses the texts stand for, and at the ports they
\* stand for where the text has no brackets.
THEOREM RateExitTells == Spec => []ExitTells
<1>1. RunInv => ExitTells
  <2> SUFFICES ASSUME RunInv, pc = "exited" PROVE ExitTells
    BY DEF ExitTells
  <2>1. CASE ~ set
    BY <2>1 DEF RunInv, EffectInv, ExitTells
  <2>2. CASE set
    <3> DEFINE new == [weight |-> args.weight, method |-> "droute", thresholds |-> "none"]
    <3>1. Editable(before, target) /\ table = [before EXCEPT ![target] = new]
      BY <2>2 DEF RunInv, EffectInv, EditDest
    <3>2. target \in Destinations /\ before[target] # NoEntry /\ Compatible(target)
      BY <3>1 DEF Editable
    <3>3. table[target] = new /\ Changed \subseteq {target}
      BY <3>1, <3>2 DEF RunInv, EffectInv, Changed
    <3>4. target \in MeantBesidesPorts
      BY <2>2, <3>2 DEF RunInv, ParseInv
    <3> QED
      BY <2>2, <3>2, <3>3, <3>4 DEF RunInv, EffectInv, ExitTells
  <2> QED
    BY <2>1, <2>2
<1> QED
  BY <1>1, RunInvariance, PTL
=============================================================================
