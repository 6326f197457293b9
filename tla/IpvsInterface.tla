---------------------------- MODULE IpvsInterface ----------------------------
(***************************************************************************)
(* The pure part of src/src/ipvs_interface.cpp and of the libipvs call it  *)
(* makes: how set_weight turns the texts of a virtual service and of a     *)
(* server into the key of one IPVS destination, and what the kernel is     *)
(* told to store there.  RateTest and HttpServer run these operators       *)
(* inside their own processes.                                             *)
(*                                                                         *)
(* A text "address[:port]" is kept as the pieces m_parse_service cuts it   *)
(* into, never as characters:                                              *)
(*   bracket  "none"      the text does not begin with '['                 *)
(*            "port"      '[' ... "]:" followed by tail                    *)
(*            "bare"      '[' ... ']' not followed by ':'                  *)
(*            "unclosed"  '[' without ']'                                  *)
(*   host     the address or name (inside the brackets, when there are)    *)
(*   colon    what follows the last ':' of the same part, or NoText        *)
(*   tail     what follows "]:", or NoText                                 *)
(***************************************************************************)
EXTENDS Integers

CONSTANTS
  Addr4,        \* the IPv4 addresses
  Addr6,        \* the IPv6 addresses
  NoAddr,       \* the zero address of a cleared structure; no text means it
  Digits,       \* the host spellings made only of digits
  InetAton,     \* IPv4 spelling -> address, the texts inet_aton accepts
  InetPton,     \* IPv6 spelling -> address, the texts inet_pton accepts
  Resolver,     \* host name -> the addresses gethostbyname may answer with
  Strtol,       \* port text -> the number strtol reads in it
  TcpServices,  \* port text -> the port getservbyname(_, "tcp") gives
  Destinations, \* the destinations the kernel may hold, see Target
  NoEntry       \* the kernel has no such destination

PortNumbers == 0 .. 65535

ASSUME AddressAssumption ==
  /\ Addr4 \cap Addr6 = {}
  /\ NoAddr \notin Addr4 \cup Addr6
  /\ InetAton \in [DOMAIN InetAton -> Addr4]
  /\ InetPton \in [DOMAIN InetPton -> Addr6]
  /\ Resolver \in [DOMAIN Resolver -> SUBSET Addr4]

\* An IPv6 spelling has a ':', which neither inet_aton nor a host name allows.
ASSUME SpellingAssumption == DOMAIN InetPton \cap (DOMAIN InetAton \cup DOMAIN Resolver) = {}

ASSUME PortAssumption ==
  /\ Strtol \in [DOMAIN Strtol -> Int]
  /\ TcpServices \in [DOMAIN TcpServices -> PortNumbers]

-----------------------------------------------------------------------------
(* m_parse_service *)

SERVICE_NONE == 0
SERVICE_ADDR == 1
SERVICE_BOTH == 3    \* SERVICE_ADDR | SERVICE_PORT

NoText == "(no text)"

m_str_is_digit(text) ==
  /\ text.bracket = "none"
  /\ text.host \in Digits
  /\ text.colon = NoText

\* The early returns of m_parse_service, before any address is looked at.
Malformed(text) == m_str_is_digit(text) \/ text.bracket \in {"bare", "unclosed"}

IsLiteral6(text) == text.host \in DOMAIN InetPton /\ text.colon = NoText

IsLiteral4(text) == ~ IsLiteral6(text) /\ text.host \in DOMAIN InetAton

NeedsLookup(text) == ~ Malformed(text) /\ ~ IsLiteral6(text) /\ ~ IsLiteral4(text)

\* A literal is its own answer; host_to_addr's answer stands for a name.
HostAddress(text, answer) ==
  IF IsLiteral6(text) THEN InetPton[text.host]
  ELSE IF IsLiteral4(text) THEN InetAton[text.host] ELSE answer

\* Where portp points when the port is read: strrchr looks for ':' only in
\* the part before the brackets' NUL, so a tail counts for IPv6 literals only.
PortText(text) == IF IsLiteral6(text) THEN text.tail ELSE text.colon

\* Mutation: without the max the code passes.
m_string_to_number_unbounded(port) ==
  IF port \in DOMAIN Strtol /\ Strtol[port] >= 0 THEN Strtol[port] ELSE -1

m_string_to_number(port) ==
  IF port \in DOMAIN Strtol /\ Strtol[port] \in PortNumbers THEN Strtol[port] ELSE -1

m_service_to_port(port) == IF port \in DOMAIN TcpServices THEN TcpServices[port] ELSE -1

PortValue(port) ==
  IF m_string_to_number(port) # -1 THEN m_string_to_number(port) ELSE m_service_to_port(port)

\* The whole of m_parse_service: its return value and the service it leaves.
m_parse_service(text, svc, answer) ==
  LET addr  == HostAddress(text, answer)
      port  == PortText(text)
      Found(p) == [addr |-> addr, port |-> p]
  IN  IF Malformed(text) \/ addr = NoAddr THEN [flags |-> SERVICE_NONE, svc |-> svc]
      ELSE IF port = NoText THEN [flags |-> SERVICE_ADDR, svc |-> Found(svc.port)]
      ELSE IF PortValue(port) = -1 THEN [flags |-> SERVICE_NONE, svc |-> Found(svc.port)]
      ELSE [flags |-> SERVICE_BOTH, svc |-> Found(PortValue(port))]

-----------------------------------------------------------------------------
(* set_weight *)

\* ce.svc after memset.
ClearedService == [addr |-> NoAddr, port |-> 0]

ParseVip(vip, answer) == m_parse_service(vip, ClearedService, answer)

ParseServer(server, svc, answer) == m_parse_service(server, svc, answer)

\* Mutation: the virtual port is copied whether or not a port was given.
Target_vport(svc, parse) ==
  [vaddr |-> svc.addr, vport |-> svc.port, addr |-> parse.svc.addr, port |-> svc.port]

\* The destination ipvs_update_dest is asked for: the virtual service, and the
\* server with the virtual port when its text gave none.
Target(svc, parse) ==
  [vaddr |-> svc.addr, vport |-> svc.port, addr |-> parse.svc.addr,
   port |-> IF parse.flags = SERVICE_ADDR THEN svc.port ELSE parse.svc.port]

\* set_weight gets as far as ipvs_update_dest.
Reaches(svc, parse) == parse.flags # SERVICE_NONE /\ svc.port # 0

-----------------------------------------------------------------------------
(* ipvs_update_dest and the kernel's IP_VS_SO_SET_EDITDEST *)

\* CHECK_COMPAT_SVC and CHECK_COMPAT_DEST: the sockopt interface is IPv4 only.
Compatible(target) == target.vaddr \notin Addr6 /\ target.addr \notin Addr6

Editable(table, target) ==
  /\ Compatible(target)
  /\ target \in Destinations
  /\ table[target] # NoEntry

\* The command carries the weight and also the forwarding method and both
\* connection thresholds, which set_weight fills with DROUTE and zero.
EditDest(table, target, weight) ==
  [table EXCEPT ![target] = [weight |-> weight, method |-> "droute", thresholds |-> "none"]]

Methods == {"masq", "tunnel", "droute"}

Thresholds == {"none", "set"}

Entries == [weight : Int, method : Methods, thresholds : Thresholds]

-----------------------------------------------------------------------------
(* What the locals of a set_weight may hold.                               *)

Addresses == Addr4 \cup Addr6 \cup {NoAddr}

Services == [addr : Addresses, port : PortNumbers]

Targets == [vaddr : Addresses, vport : PortNumbers, addr : Addresses, port : PortNumbers]

NoTarget == [vaddr |-> NoAddr, vport |-> 0, addr |-> NoAddr, port |-> 0]
=============================================================================
