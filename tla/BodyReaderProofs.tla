--------------------------- MODULE BodyReaderProofs ---------------------------
(***************************************************************************)
(* For every size_t, buffer, stream and set of declared lengths: what a    *)
(* body reader hands over is exactly the body that was declared.           *)
(***************************************************************************)
EXTENDS BodyReader, TLAPS

\* What the bound left_to_read stands for: the declared bytes that have not
\* arrived, wrapped once when more arrived than were declared or when the
\* declared length is negative.  A handled request has nothing left.
LeftIsDue ==
  /\ pc = "headers" => body = 0
  /\ pc = "reading" => left_to_read = ToSize(content_length - body)
  /\ pc = "handled" => ToSize(content_length - body) = 0

IInv == TypeOK /\ LeftIsDue

\* A size_t subtraction from a wrapped difference is the wrapped difference,
\* as long as the whole stays above -SizeMod.
LEMMA RemainingIsDue ==
  ASSUME NEW l \in Lengths \cup {0}, NEW b \in Nat, NEW n \in Nat, b + n <= MaxBody
  PROVE  Remaining(ToSize(l - b), n) = ToSize(l - (b + n))
  BY SizeAssumption DEF Remaining, ToSize

\* A wrapped difference is a size_t, and is zero only for equal operands.
LEMMA DueIsSize ==
  ASSUME NEW l \in Lengths \cup {0}, NEW b \in Nat, b <= MaxBody
  PROVE  /\ ToSize(l - b) \in 0 .. SizeMod - 1
         /\ ToSize(l - b) = 0 => b = l
  BY SizeAssumption DEF ToSize

LEMMA InitIInv == Init => IInv
  BY SizeAssumption DEF Init, IInv, TypeOK, LeftIsDue

LEMMA ReadHeadersIInv ==
  ASSUME IInv, ReadHeaders
  PROVE  IInv'
<1>1. body = 0 /\ body' = 0 /\ content_length' \in Lengths
  BY DEF IInv, LeftIsDue, ReadHeaders
<1>2. left_to_read' = ToSize(content_length' - body')
  <2>1. \A l \in Int : l - 0 = l
    OBVIOUS
  <2> content_length' \in Int
    BY <1>1, SizeAssumption
  <2>2. QED
    BY <1>1, <2>1 DEF ReadHeaders
<1>3. left_to_read' \in 0 .. SizeMod - 1
  BY <1>1, <1>2, DueIsSize, SizeAssumption
<1>4. QED
  BY <1>1, <1>2, <1>3 DEF IInv, TypeOK, LeftIsDue, ReadHeaders

\* The only step that moves the three counters together.
LEMMA HandlePostReadIInv ==
  ASSUME IInv, NEW size \in 0 .. Chunk, HandlePostRead(size)
  PROVE  IInv'
<1>1. size \in Nat /\ body + size <= MaxBody /\ body' = body + size
  BY SizeAssumption DEF IInv, TypeOK, HandlePostRead
<1>2. left_to_read' = ToSize(content_length - (body + size))
  <2>1. left_to_read' = Remaining(ToSize(content_length - body), size)
    BY DEF IInv, LeftIsDue, HandlePostRead
  <2>2. QED
    BY <1>1, <2>1, RemainingIsDue DEF IInv, TypeOK
<1>3. left_to_read' \in 0 .. SizeMod - 1
  BY <1>1, <1>2, DueIsSize DEF IInv, TypeOK
<1>4. TypeOK'
  <2>1. body + size <= sent
    BY <1>1 DEF IInv, TypeOK, HandlePostRead
  <2>2. pc' \in {"reading", "handled"} /\ leftover' = FALSE
    BY DEF HandlePostRead
  <2>3. content_length' = content_length /\ sent' = sent /\ open' = open
    BY DEF HandlePostRead
  <2>4. open' \in BOOLEAN /\ leftover' \in BOOLEAN
    BY <2>2, <2>3, Zenon DEF IInv, TypeOK
  <2>5. body' \in Nat /\ sent' \in Nat /\ body' <= sent' /\ sent' <= MaxBody
    BY <1>1, <2>1, <2>3 DEF IInv, TypeOK
  <2>6. QED
    BY <1>3, <2>2, <2>3, <2>4, <2>5, Zenon DEF IInv, TypeOK
<1>5. LeftIsDue'
  <2>1. pc' \in {"reading", "handled"} /\ (pc' = "handled" => ~ left_to_read' > 0)
    BY DEF HandlePostRead
  <2>2. content_length' = content_length
    BY DEF HandlePostRead
  <2>3. QED
    BY <1>1, <1>2, <1>3, <2>1, <2>2, SizeAssumption DEF LeftIsDue
<1>6. QED
  BY <1>4, <1>5 DEF IInv

LEMMA NextIInv == IInv /\ [Next]_vars => IInv'
<1> SUFFICES ASSUME IInv, [Next]_vars PROVE IInv'
  OBVIOUS
<1>1. CASE ReadHeaders
  BY <1>1, ReadHeadersIInv
<1>2. CASE \E size \in 0 .. Chunk : HandlePostRead(size)
  BY <1>2, HandlePostReadIInv
<1>3. CASE ReadFails
  BY <1>3 DEF IInv, TypeOK, LeftIsDue, ReadFails
<1>4. CASE \E size \in 1 .. Chunk : Send(size)
  BY <1>4, SizeAssumption DEF IInv, TypeOK, LeftIsDue, Send
<1>5. CASE Close
  BY <1>5 DEF IInv, TypeOK, LeftIsDue, Close
<1>6. CASE UNCHANGED vars
  BY <1>6 DEF IInv, TypeOK, LeftIsDue, vars
<1>7. QED
  BY <1>1, <1>2, <1>3, <1>4, <1>5, <1>6 DEF Next, Handler

\* The counters keep the range of their C++ types: a subtraction of sizes in
\* handle_post_read wraps at most once.
THEOREM BodyReaderTyped == Spec => []TypeOK
<1>1. IInv => TypeOK
  BY DEF IInv
<1>2. QED
  BY <1>1, InitIInv, NextIInv, PTL DEF Spec

\* handle_post_request is called with exactly the bytes Content-Length
\* declared, however many reads brought them and whatever else was sent.
THEOREM BodyIsExact == Spec => []ExactBody
<1>1. IInv => ExactBody
  BY DueIsSize, SizeAssumption DEF IInv, TypeOK, LeftIsDue, ExactBody
<1>2. QED
  BY <1>1, InitIInv, NextIInv, PTL DEF Spec
=============================================================================
