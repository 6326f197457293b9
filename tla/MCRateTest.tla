----------------------------- MODULE MCRateTest -------------------------------
(***************************************************************************)
(* A small instance of RateTest: every shape of text m_parse_service        *)
(* tells apart, as the virtual service and as the server, with ports that   *)
(* are numbers, service names, out of range and nonsense.                   *)
(***************************************************************************)
EXTENDS RateTest

CONSTANTS noEntry, noAddr

MCAddr4    == {"v", "a", "b"}
MCAddr6    == {"six"}
MCDigits   == {"1234"}
MCInetAton == [h \in {"10.0.0.1", "1234"} |-> IF h = "1234" THEN "b" ELSE "a"]
MCInetPton == [h \in {"::1"} |-> "six"]
MCResolver == [vip |-> {"v"}, web |-> {"a", "b"}]

MCStrtol ==
  [p \in {"80", "8080", "0", "65536"} |->
     CASE p = "80" -> 80 [] p = "8080" -> 8080 [] p = "0" -> 0 [] OTHER -> 65536]

MCServices == [http |-> 80]

MCPorts == {NoText, "80", "http", "8080", "0", "65536", "nonsense"}

Plain(host, port)     == [bracket |-> "none", host |-> host, colon |-> port, tail |-> NoText]
Bracketed(host, port) == [bracket |-> "port", host |-> host, colon |-> NoText, tail |-> port]
Broken(shape, host)   == [bracket |-> shape, host |-> host, colon |-> NoText, tail |-> NoText]

Vips ==
  {Plain("vip", p) : p \in {NoText, "80", "http", "0", "65536"}}
    \cup {Bracketed("vip", "80"), Bracketed("::1", "80"), Plain("::1", NoText),
          [Bracketed("vip", "8080") EXCEPT !.colon = "80"]}

Servers ==
  {Plain(h, p) : h \in {"10.0.0.1", "1234", "web", "gone"}, p \in MCPorts}
    \cup {Plain("::1", NoText)}
    \cup {Bracketed(h, p) : h \in {"10.0.0.1", "web", "::1"}, p \in {"80", "8080", "nonsense"}}
    \cup {Broken(shape, "10.0.0.1") : shape \in {"bare", "unclosed"}}

MCArgs ==
  [few : {FALSE}, vip : Vips, server : Servers, weight : {0, 7}]
    \cup {[few |-> TRUE, vip |-> Plain("vip", "80"), server |-> Plain("web", NoText), weight |-> 0]}

\* For the port of a server: "10.0.0.1", "10.0.0.1:80", "[10.0.0.1]:8080" ...
PortArgs ==
  [few : {FALSE}, vip : {Plain("vip", "80")}, weight : {7},
   server : {Plain("10.0.0.1", p) : p \in {NoText, "80", "8080"}}
              \cup {Bracketed("10.0.0.1", p) : p \in {"80", "8080"}}]

Dest(addr, port) == [vaddr |-> "v", vport |-> 80, addr |-> addr, port |-> port]

\* "a" serves on two ports, "b" on one.
MCDestinations == {Dest("a", 80), Dest("a", 8080), Dest("b", 80)}

Masq == [weight |-> 3, method |-> "masq", thresholds |-> "set"]

MCTables == [MCDestinations -> {Masq, noEntry}]
=============================================================================
