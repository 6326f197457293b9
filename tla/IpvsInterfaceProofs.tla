-------------------------- MODULE IpvsInterfaceProofs --------------------------
(***************************************************************************)
(* What the operators of IpvsInterface return, for any texts, addresses    *)
(* and ports: the lemmas that the proofs about HttpServer and RateTest     *)
(* share.                                                                  *)
(***************************************************************************)
EXTENDS IpvsInterface, TLAPS

\* A text's address is one of the interface's, or none.
LEMMA HostAddressTyped ==
  ASSUME NEW text, NEW answer \in Addr4 \cup {NoAddr}
  PROVE  HostAddress(text, answer) \in Addresses
  BY AddressAssumption DEF HostAddress, IsLiteral6, IsLiteral4, Addresses

\* A port that was read is 16 bits wide.
LEMMA PortValueTyped ==
  ASSUME NEW port
  PROVE  PortValue(port) \in PortNumbers \cup {-1}
<1>1. m_string_to_number(port) \in PortNumbers \cup {-1}
  BY DEF m_string_to_number
<1>2. m_service_to_port(port) \in PortNumbers \cup {-1}
  BY PortAssumption DEF m_service_to_port
<1>3. QED
  BY <1>1, <1>2, Zenon DEF PortValue

\* m_parse_service leaves a service behind, and one of three results.
LEMMA ParseTyped ==
  ASSUME NEW text, NEW s \in Services, NEW answer \in Addr4 \cup {NoAddr}
  PROVE  /\ m_parse_service(text, s, answer).svc \in Services
         /\ m_parse_service(text, s, answer).flags \in {SERVICE_NONE, SERVICE_ADDR, SERVICE_BOTH}
<1> DEFINE addr == HostAddress(text, answer)
           port == PortText(text)
           found(p) == [addr |-> addr, port |-> p]
<1>1. addr \in Addresses
  BY HostAddressTyped
<1>2. s.port \in PortNumbers
  BY DEF Services
<1>3. ASSUME NEW p \in PortNumbers PROVE found(p) \in Services
  BY <1>1 DEF Services
<1>4. PortValue(port) = -1 \/ PortValue(port) \in PortNumbers
  BY PortValueTyped
<1> DEFINE none(v) == [flags |-> SERVICE_NONE, svc |-> v]
           some(v) == [flags |-> SERVICE_ADDR, svc |-> v]
           both(v) == [flags |-> SERVICE_BOTH, svc |-> v]
<1>5. \E v \in Services : m_parse_service(text, s, answer) \in {none(v), some(v), both(v)}
  <2>1. \/ m_parse_service(text, s, answer) = none(s)
        \/ m_parse_service(text, s, answer) = some(found(s.port))
        \/ m_parse_service(text, s, answer) = none(found(s.port))
        \/ /\ PortValue(port) # -1
           /\ m_parse_service(text, s, answer) = both(found(PortValue(port)))
    BY Zenon DEF m_parse_service
  <2> HIDE DEF found, none, some, both, addr, port
  <2>2. QED
    BY <1>2, <1>3, <1>4, <2>1, Zenon
<1>6. QED
  BY <1>5

LEMMA PortZero == 0 \in PortNumbers
  BY DEF PortNumbers

LEMMA ClearedServiceTyped == ClearedService \in Services
  BY PortZero DEF ClearedService, Services, Addresses

LEMMA NoTargetTyped == NoTarget \in Targets
  BY PortZero DEF NoTarget, Targets, Addresses

\* The key given to ipvs_update_dest has addresses and 16-bit ports.
LEMMA TargetTyped ==
  ASSUME NEW text, NEW s \in Services, NEW answer \in Addr4 \cup {NoAddr}
  PROVE  Target(s, ParseServer(text, s, answer)) \in Targets
<1> DEFINE parse == ParseServer(text, s, answer)
<1>1. parse.svc \in Services
  BY ParseTyped DEF ParseServer
<1>2. s.addr \in Addresses /\ s.port \in PortNumbers
  BY DEF Services
<1>3. parse.svc.addr \in Addresses /\ parse.svc.port \in PortNumbers
  BY <1>1 DEF Services
<1> QED
  BY <1>2, <1>3 DEF Target, Targets

\* What the kernel stores is an entry.
LEMMA EditDestTyped ==
  ASSUME NEW t \in [Destinations -> Entries \cup {NoEntry}], NEW d, NEW w \in Int
  PROVE  EditDest(t, d, w) \in [Destinations -> Entries \cup {NoEntry}]
<1>1. [weight |-> w, method |-> "droute", thresholds |-> "none"] \in Entries
  BY DEF Entries, Methods, Thresholds
<1>2. QED
  BY <1>1 DEF EditDest
=============================================================================
