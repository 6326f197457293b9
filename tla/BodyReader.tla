------------------------------ MODULE BodyReader ------------------------------
(***************************************************************************)
(* How one connection_handler of src/src/http_server.cpp collects the body *)
(* of a POST: the Content-Length, an int, becomes a size_t that every      *)
(* completed read is subtracted from; when it is zero the request is       *)
(* handled.  The client sends what it likes and may close at any time.     *)
(* Only numbers of bytes matter here, so the body is its length.           *)
(***************************************************************************)
EXTENDS Integers

CONSTANTS
  SizeMod,  \* 2^64 in the code: the values of a size_t
  Lengths,  \* what atoi makes of the first Content-Length header; 0 for none
  MaxBody,  \* bound: the bytes a client ever sends
  Chunk     \* the size of the connection's read buffer

\* No stream comes near 2^64 bytes, whatever length an int declares: neither
\* what is left nor what was read wraps a second time.
ASSUME SizeAssumption ==
  /\ SizeMod \in Nat
  /\ MaxBody \in 0 .. SizeMod - 1
  /\ Chunk \in Nat \ {0}
  /\ Lengths \subseteq Int
  /\ \A l \in Lengths : l + MaxBody < SizeMod /\ MaxBody < l + SizeMod

VARIABLES
  pc,              \* where the connection handler is
  content_length,  \* the local of operator(), an int
  left_to_read,    \* the argument bound to the outstanding read
  body,            \* bytes in m_request_body
  sent,            \* bytes the client has sent after the headers
  open,            \* the client keeps the connection open
  leftover         \* the bytes read with the headers have not been delivered

vars == <<pc, content_length, left_to_read, body, sent, open, leftover>>

\* Arithmetic of size_t, one wrap at most.
ToSize(n) == IF n >= 0 THEN n ELSE n + SizeMod

\* Mutation: what is left is kept in an int.
Remaining_int(left, size) == left - size

Remaining(left, size) == ToSize(left - size)

Init ==
  /\ pc = "headers"
  /\ content_length = 0
  /\ left_to_read = 0
  /\ body = 0
  /\ sent = 0
  /\ open = TRUE
  /\ leftover = TRUE

\* connection_handler::operator() and the first read_chunk.
ReadHeaders ==
  /\ pc = "headers"
  /\ pc' = "reading"
  /\ content_length' \in Lengths
  /\ left_to_read' = ToSize(content_length')
  /\ UNCHANGED <<body, sent, open, leftover>>

\* Mutation: the next read is started with the length this one had.
HandlePostRead_stale(size) ==
  /\ pc = "reading"
  /\ size <= sent - body
  /\ size = 0 => leftover
  /\ leftover' = FALSE
  /\ body' = body + size
  /\ pc' = IF Remaining(left_to_read, size) > 0 THEN "reading" ELSE "handled"
  /\ UNCHANGED <<content_length, left_to_read, sent, open>>

\* handle_post_read without an error: append, subtract, read on or handle.
\* The first read delivers what came with the headers, nothing perhaps.
HandlePostRead(size) ==
  /\ pc = "reading"
  /\ size <= sent - body
  /\ size = 0 => leftover
  /\ leftover' = FALSE
  /\ body' = body + size
  /\ left_to_read' = Remaining(left_to_read, size)
  /\ pc' = IF Remaining(left_to_read, size) > 0 THEN "reading" ELSE "handled"
  /\ UNCHANGED <<content_length, sent, open>>

\* handle_post_read with an error: the handler is dropped, nobody answers.
ReadFails ==
  /\ pc = "reading"
  /\ ~ open
  /\ pc' = "failed"
  /\ UNCHANGED <<content_length, left_to_read, body, sent, open, leftover>>

Send(size) ==
  /\ open
  /\ sent + size <= MaxBody
  /\ sent' = sent + size
  /\ UNCHANGED <<pc, content_length, left_to_read, body, open, leftover>>

Close ==
  /\ open
  /\ open' = FALSE
  /\ UNCHANGED <<pc, content_length, left_to_read, body, sent, leftover>>

Handler ==
  \/ ReadHeaders
  \/ \E size \in 0 .. Chunk : HandlePostRead(size)
  \/ ReadFails

Next ==
  \/ Handler
  \/ \E size \in 1 .. Chunk : Send(size)
  \/ Close

Spec == Init /\ [][Next]_vars

\* The pool runs a posted callback and a read completes when there is data.
FairSpec == Spec /\ WF_vars(Handler)
-----------------------------------------------------------------------------
(* Properties.                                                             *)

\* The type invariant: lengths stay in the range of their C++ types.
TypeOK ==
  /\ pc \in {"headers", "reading", "handled", "failed"}
  /\ content_length \in Lengths \cup {0}
  /\ left_to_read \in 0 .. SizeMod - 1
  /\ body \in Nat
  /\ sent \in Nat
  /\ body <= sent /\ sent <= MaxBody
  /\ open \in BOOLEAN
  /\ leftover \in BOOLEAN

\* However the body is cut into reads, handle_post_request sees exactly the
\* bytes the header declared: never a part of them, never more.
ExactBody == pc = "handled" => body = content_length

\* A client that sends the bytes it declared, and neither more nor closes, has
\* its request handled.
CompleteIsHandled ==
  (pc = "reading" /\ content_length > 0 /\ sent = content_length)
    ~> (pc = "handled" \/ sent > content_length \/ ~ open)

\* http_server.h:67: "a POST request is handled after all POST data has been
\* read into the buffer".
AllReadIsHandled ==
  (pc = "reading" /\ content_length > 0 /\ body >= content_length) ~> pc = "handled"
=============================================================================
