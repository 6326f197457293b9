----------------------------- MODULE MCHttpServer -----------------------------
(***************************************************************************)
(* Small instances of HttpServer.  The virtual service is given by a name  *)
(* with a port, as in doc/ipvshttpd-example.conf, and so are the servers,  *)
(* so every request makes two lookups through the static buffer.           *)
(***************************************************************************)
EXTENDS HttpServer, TLC

CONSTANTS c1, c2, c3, noConn, noEntry, noAddr

Text(host, port) == [bracket |-> "none", host |-> host, colon |-> port, tail |-> NoText]

MCAddr4     == {"v", "a", "b", "e"}
MCAddr6     == {}
MCDigits    == {}
MCInetAton  == [h \in {"10.0.0.2"} |-> "b"]
MCInetPton  == [h \in {} |-> "none"]
\* "web1" has two addresses, and only the first returned is used.
MCResolver  == [vip |-> {"v"}, web1 |-> {"a", "e"}, gone |-> {}]
MCStrtol    == [p \in {"80", "65536"} |-> IF p = "80" THEN 80 ELSE 65536]
MCServices  == [http |-> 80]
MCVip       == Text("vip", "80")

Dest(a) == [vaddr |-> "v", vport |-> 80, addr |-> a, port |-> 80]

\* "e" is an address of web1 for which the kernel has no destination.
MCDestinations == {Dest("a"), Dest("b")}

Request(json, key, host_is, host, kernels_is, kernels) ==
  [json |-> json, api_key |-> key, host_is |-> host_is, host |-> host,
   kernels_is |-> kernels_is, kernels |-> kernels]

SetWeight(host, kernels) == Request("object", "right", "text", host, "int", kernels)

Web1At1  == SetWeight(Text("web1", NoText), 1)     \* name, the port of the VIP
Web2At2  == SetWeight(Text("10.0.0.2", "http"), 2) \* literal, a service name
Gone     == SetWeight(Text("gone", "80"), 1)       \* no such host
BadPort  == SetWeight(Text("web1", "x"), 1)
BigPort  == SetWeight(Text("web1", "65536"), 1)
Compound == Request("object", "right", "compound", Text("web1", NoText), "int", 1)
WrongKey == Request("object", "wrong", "text", Text("web1", NoText), "int", 1)
NoCount  == Request("object", "right", "text", Text("web1", NoText), "not_int", 1)
NotJson  == Request("malformed", "missing", "missing", Text("web1", NoText), "missing", 1)
NoObject == Request("other", "missing", "missing", Text("web1", NoText), "missing", 1)

ServedRequests == {Web2At2, Compound}

ServiceRequests ==
  {Web1At1, Web2At2, Gone, BadPort, BigPort, Compound, WrongKey, NoCount, NotJson, NoObject}

Entry(w, m) == [weight |-> w, method |-> m, thresholds |-> "set"]

\* A drained destination, as configured by hand, and one that was removed.
MCChanges == {Entry(0, "masq"), noEntry}

NothingElse == {Entry(0, "masq")}

Symmetry2 == Permutations({c1, c2})

=============================================================================
