---------------------------- MODULE StartupProofs ----------------------------
(***************************************************************************)
(* For any command line and any files: what str_split makes of a text,     *)
(* what main has kept of the words and lines it has passed, and so what    *)
(* the server starts with and when main gives up.  Statements about all    *)
(* texts are proved by a least counterexample (LeastExists).               *)
(***************************************************************************)
EXTENDS Startup, SequenceTheorems, WellFoundedInduction, TLAPS

-----------------------------------------------------------------------------
(* The first and the last of a set of places.                              *)

\* Every non-empty set of naturals has a least element: what the proofs by
\* induction below come down to.
LEMMA LeastExists ==
  ASSUME NEW S \in SUBSET Nat, S # {}
  PROVE  \E x \in S : \A y \in S : x <= y
<1> DEFINE R == {ss \in Nat \X Nat : ss[1] < ss[2]}
<1>1. IsWellFoundedOn(R, Nat)
  BY NatLessThanWellFounded DEF OpToRel
<1> HIDE DEF R
<1>2. PICK x \in S : \A y \in S : <<y, x>> \notin R
  BY <1>1, WFMin
<1>3. \A y \in S : ~ (y < x)
  BY <1>2 DEF R
<1> QED
  BY <1>3

LEMMA MinIsLeast ==
  ASSUME NEW S \in SUBSET Nat, S # {}
  PROVE  Min(S) \in S /\ \A y \in S : Min(S) <= y
BY LeastExists DEF Min

LEMMA MaxIsGreatest ==
  ASSUME NEW n \in Nat, NEW S \in SUBSET (0 .. n), S # {}
  PROVE  Max(S) \in S /\ \A y \in S : y <= Max(S)
<1> DEFINE T == {n - x : x \in S}
<1>1. T \in SUBSET Nat /\ T # {}
  <2>1. \A x \in S : n - x \in Nat
    OBVIOUS
  <2>2. PICK x \in S : TRUE
    OBVIOUS
  <2>3. n - x \in T
    BY <2>2
  <2> QED
    BY <2>1, <2>3
<1>2. PICK t \in T : \A u \in T : t <= u
  BY <1>1, LeastExists
<1>3. PICK x \in S : t = n - x
  OBVIOUS
<1>4. \A y \in S : n - x <= n - y
  BY <1>2, <1>3
<1>5. \A y \in S : x >= y
  BY <1>4
<1> QED
  BY <1>5 DEF Max

-----------------------------------------------------------------------------
(* Texts.                                                                  *)

\* A part of a text is a text.
LEMMA PartTyped ==
  ASSUME NEW S, NEW text \in Seq(S), NEW m, NEW n \in 0 .. Len(text), m \in Nat \ {0}
  PROVE  SubSeq(text, m, n) \in Seq(S)
<1>1. \A i \in 1 .. Len(text) : text[i] \in S
  BY ElementOfSeq
<1>2. Len(text) \in Nat
  BY LenProperties
<1>3. CASE m > n
  <2>1. m .. n = {}
    BY <1>2, <1>3
  <2>2. SubSeq(text, m, n) = << >>
    BY <1>2, <1>3, SubSeqEmpty
  <2> QED
    BY <2>2, EmptySeq
<1>4. CASE m <= n
  <2>1. \A i \in m .. n : text[i] \in S
    BY <1>1, <1>2, <1>4
  <2> QED
    BY <1>2, <2>1, SubSeqProperties
<1> QED
  BY <1>2, <1>3, <1>4

\* So is a trimmed text.
LEMMA TrimTyped ==
  ASSUME NEW S, NEW text \in Seq(S)
  PROVE  str_trim(text) \in Seq(S)
<1>1. Len(text) \in Nat /\ DOMAIN text = 1 .. Len(text)
  BY LenProperties
<1>2. str_rtrim(text) \in Seq(S)
  <2> DEFINE kept == {0} \cup {i \in DOMAIN text : text[i] # " "}
  <2>1. kept \in SUBSET (0 .. Len(text)) /\ kept # {}
    <3>1. 0 \in kept /\ \A i \in kept : i = 0 \/ i \in DOMAIN text
      BY Zenon
    <3> HIDE DEF kept
    <3> QED
      BY <1>1, <3>1
  <2>2. str_rtrim(text) = SubSeq(text, 1, Max(kept))
    BY DEF str_rtrim
  <2> HIDE DEF kept
  <2>3. Max(kept) \in 0 .. Len(text)
    BY <1>1, <2>1, MaxIsGreatest
  <2> QED
    BY <2>2, <2>3, PartTyped
<1>3. ASSUME NEW t \in Seq(S) PROVE str_ltrim(t) \in Seq(S)
  <2> DEFINE kept == {i \in DOMAIN t : t[i] # " "}
  <2>1. Len(t) \in Nat /\ DOMAIN t = 1 .. Len(t)
    BY LenProperties
  <2>2. kept \in SUBSET Nat /\ kept \in SUBSET (1 .. Len(t))
    <3>1. \A i \in kept : i \in DOMAIN t
      BY Zenon
    <3> HIDE DEF kept
    <3> QED
      BY <2>1, <3>1
  <2>3. str_ltrim(t) = IF kept = {} THEN << >> ELSE SubSeq(t, Min(kept), Len(t))
    BY DEF str_ltrim, Empty
  <2> HIDE DEF kept
  <2>4. CASE kept = {}
    BY <2>3, <2>4, EmptySeq
  <2>5. CASE kept # {}
    <3>1. Min(kept) \in 1 .. Len(t)
      BY <2>2, <2>5, MinIsLeast
    <3> QED
      BY <2>1, <2>3, <2>5, <3>1, PartTyped
  <2> QED
    BY <2>4, <2>5
<1> QED
  BY <1>2, <1>3 DEF str_trim

-----------------------------------------------------------------------------
(* str_split: its recursion is well-founded, for what is left of the text  *)
(* gets shorter.                                                           *)

\* What the loop makes of what is left from start on, given what it makes of
\* shorter rests.
Rest(text, delim, max_elem, start, shorter) ==
  [tokens \in Nat |->
     LET cuts == Cuts(text, delim, start)
     IN  IF cuts # {} /\ More(tokens, max_elem)
         THEN <<SubSeq(text, start, Min(cuts) - 1)>> \o shorter[Min(cuts) + 1][tokens + 1]
         ELSE IF max_elem # 0 THEN <<SubSeq(text, start, Len(text))>> ELSE <<>>]

Rests(text, delim, max_elem) ==
  CHOOSE pieces : pieces = [start \in Nat |-> Rest(text, delim, max_elem, start, pieces)]

\* str_split is the rest from the first character on, with nothing cut yet.
LEMMA SplitIsRest ==
  ASSUME NEW text, NEW delim, NEW max_elem
  PROVE  str_split(text, delim, max_elem) = Rests(text, delim, max_elem)[1][1]
BY DEF str_split, Rests, Rest

\* The next cut is in what is left.
LEMMA NextCut ==
  ASSUME NEW text, Len(text) \in Nat, NEW delim, NEW start \in Nat, Cuts(text, delim, start) # {}
  PROVE  LET cut == Min(Cuts(text, delim, start))
         IN  /\ cut \in Nat /\ cut \in start .. Len(text) /\ text[cut] = delim
             /\ \A i \in start .. cut - 1 : text[i] # delim
<1> DEFINE cuts == Cuts(text, delim, start)
<1>1. cuts \in SUBSET Nat /\ cuts # {}
  BY DEF Cuts
<1>2. Min(cuts) \in cuts /\ \A y \in cuts : Min(cuts) <= y
  BY <1>1, MinIsLeast
<1>3. \A i : i \in cuts <=> i \in start .. Len(text) /\ text[i] = delim
  BY DEF Cuts
<1> HIDE DEF cuts
<1>4. /\ Min(cuts) \in Nat /\ Min(cuts) \in start .. Len(text) /\ text[Min(cuts)] = delim
      /\ \A i \in start .. Min(cuts) - 1 : text[i] # delim
  BY <1>2, <1>3
<1> QED
  BY <1>4 DEF cuts

\* What is made of a rest depends on shorter rests only.
LEMMA RestLocal ==
  ASSUME NEW text, Len(text) \in Nat, NEW delim, NEW max_elem, NEW start \in Nat,
         NEW f, NEW g, \A s \in Nat : s > start => f[s] = g[s]
  PROVE  Rest(text, delim, max_elem, start, f) = Rest(text, delim, max_elem, start, g)
<1>1. CASE Cuts(text, delim, start) = {}
  BY <1>1 DEF Rest
<1>2. CASE Cuts(text, delim, start) # {}
  <2> DEFINE cut == Min(Cuts(text, delim, start))
  <2>1. cut + 1 \in Nat /\ cut + 1 > start
    BY <1>2, NextCut
  <2>2. f[cut + 1] = g[cut + 1]
    BY <2>1
  <2> QED
    BY <2>2 DEF Rest
<1> QED
  BY <1>1, <1>2

\* The recursion is well-defined from start on.
DefinedFrom(text, delim, max_elem, start) ==
  \E pieces : \A s \in Nat :
    s >= start => pieces[s] = Rest(text, delim, max_elem, s, pieces)

\* One step of the induction, to the rest that is one character longer.
LEMMA DefinedBefore ==
  ASSUME NEW text, Len(text) \in Nat, NEW delim, NEW max_elem, NEW start \in Nat,
         DefinedFrom(text, delim, max_elem, start + 1)
  PROVE  DefinedFrom(text, delim, max_elem, start)
<1>1. PICK f : \A s \in Nat : s >= start + 1 => f[s] = Rest(text, delim, max_elem, s, f)
  BY DEF DefinedFrom
<1> DEFINE g == [s \in Nat |-> IF s = start THEN Rest(text, delim, max_elem, start, f) ELSE f[s]]
<1>2. /\ g[start] = Rest(text, delim, max_elem, start, f)
      /\ \A s \in Nat : s > start => g[s] = f[s]
  OBVIOUS
<1> HIDE DEF g
<1>3. ASSUME NEW s \in Nat, s >= start
      PROVE  Rest(text, delim, max_elem, s, f) = Rest(text, delim, max_elem, s, g)
  <2>1. \A r \in Nat : r > s => f[r] = g[r]
    BY <1>2, <1>3
  <2> QED
    BY <2>1, RestLocal
<1>4. ASSUME NEW s \in Nat, s >= start
      PROVE  g[s] = Rest(text, delim, max_elem, s, g)
  <2>1. CASE s = start
    BY <1>2, <1>3, <2>1
  <2>2. CASE s > start
    BY <1>1, <1>2, <1>3, <2>2
  <2> QED
    BY <1>4, <2>1, <2>2
<1> QED
  BY <1>4 DEF DefinedFrom

\* The loop of str_split ends on every text, for each limit.
THEOREM RestsDefined ==
  ASSUME NEW text, Len(text) \in Nat, NEW delim, NEW max_elem, NEW start \in Nat
  PROVE  Rests(text, delim, max_elem)[start]
           = Rest(text, delim, max_elem, start, Rests(text, delim, max_elem))
<1> DEFINE n == Len(text) + 1
           Undefined == {m \in Nat : m <= n /\ ~ DefinedFrom(text, delim, max_elem, n - m)}
<1>1. DefinedFrom(text, delim, max_elem, n)
  <2> DEFINE f == [s \in Nat |-> Rest(text, delim, max_elem, s, <<>>)]
  <2>1. ASSUME NEW s \in Nat, s >= n, NEW g
        PROVE  Rest(text, delim, max_elem, s, <<>>) = Rest(text, delim, max_elem, s, g)
    <3>1. Cuts(text, delim, s) = {}
      BY <2>1 DEF Cuts
    <3> QED
      BY <3>1 DEF Rest
  <2>2. \A s \in Nat : f[s] = Rest(text, delim, max_elem, s, <<>>)
    OBVIOUS
  <2> HIDE DEF f
  <2>3. \A s \in Nat : s >= n => f[s] = Rest(text, delim, max_elem, s, f)
    BY <2>1, <2>2
  <2> QED
    BY <2>3 DEF DefinedFrom
<1>2. Undefined = {}
  <2>1. SUFFICES ASSUME Undefined # {} PROVE FALSE
    OBVIOUS
  <2>2. PICK m \in Undefined : \A k \in Undefined : m <= k
    BY <2>1, LeastExists
  <2>3. m \in Nat /\ m <= n /\ ~ DefinedFrom(text, delim, max_elem, n - m)
    OBVIOUS
  <2>4. m # 0
    BY <1>1, <2>3
  <2>5. m - 1 \notin Undefined
    BY <2>2, <2>3
  <2>6. DefinedFrom(text, delim, max_elem, n - (m - 1))
    BY <2>3, <2>4, <2>5
  <2>7. n - m \in Nat /\ n - (m - 1) = (n - m) + 1
    BY <2>3, <2>4
  <2>8. DefinedFrom(text, delim, max_elem, n - m)
    BY <2>6, <2>7, DefinedBefore
  <2> QED
    BY <2>3, <2>8
<1>3. DefinedFrom(text, delim, max_elem, 0)
  <2>1. n \in Nat /\ n - n = 0
    OBVIOUS
  <2>2. n \notin Undefined
    BY <1>2
  <2> QED
    BY <2>1, <2>2
<1>4. PICK f : \A s \in Nat : f[s] = Rest(text, delim, max_elem, s, f)
  BY <1>3 DEF DefinedFrom
<1> DEFINE g == [s \in Nat |-> f[s]]
<1>5. g = [s \in Nat |-> Rest(text, delim, max_elem, s, g)]
  <2>1. ASSUME NEW s \in Nat
        PROVE  f[s] = Rest(text, delim, max_elem, s, g)
    <3>1. \A r \in Nat : f[r] = g[r]
      OBVIOUS
    <3> HIDE DEF g
    <3>2. Rest(text, delim, max_elem, s, f) = Rest(text, delim, max_elem, s, g)
      BY <3>1, RestLocal
    <3> QED
      BY <1>4, <3>2
  <2> QED
    BY <2>1
<1> HIDE DEF g
<1>6. Rests(text, delim, max_elem)
        = [s \in Nat |-> Rest(text, delim, max_elem, s, Rests(text, delim, max_elem))]
  BY <1>5 DEF Rests
<1> QED
  BY <1>6

LEMMA Joined ==
  ASSUME NEW a, NEW b
  PROVE  <<a>> \o <<b>> = <<a, b>>
<1> DEFINE T == {a, b}
<1>1. /\ <<a>> \in Seq(T) /\ Len(<<a>>) = 1 /\ <<a>>[1] = a
      /\ <<b>> \in Seq(T) /\ Len(<<b>>) = 1 /\ <<b>>[1] = b
  OBVIOUS
<1>2. <<a, b>> \in Seq(T) /\ Len(<<a, b>>) = 2 /\ <<a, b>>[1] = a /\ <<a, b>>[2] = b
  OBVIOUS
<1> HIDE DEF T
<1>3. /\ <<a>> \o <<b>> \in Seq(T) /\ Len(<<a>> \o <<b>>) = 1 + 1
      /\ \A i \in 1 .. 1 + 1 : (<<a>> \o <<b>>)[i] = IF i <= 1 THEN <<a>>[i] ELSE <<b>>[i - 1]
  BY <1>1, ConcatProperties
<1>4. \A i \in 1 .. 2 : (<<a>> \o <<b>>)[i] = <<a, b>>[i]
  <2>1. (<<a>> \o <<b>>)[1] = a /\ (<<a>> \o <<b>>)[2] = b
    BY <1>1, <1>3
  <2>2. \A i \in 1 .. 2 : i = 1 \/ i = 2
    OBVIOUS
  <2> QED
    BY <1>2, <2>1, <2>2, Zenon
<1> DEFINE joined == <<a>> \o <<b>>
           pair == <<a, b>>
<1>5. /\ joined \in Seq(T) /\ pair \in Seq(T) /\ Len(joined) = 2 /\ Len(pair) = 2
      /\ \A i \in 1 .. 2 : joined[i] = pair[i]
  BY <1>2, <1>3, <1>4
<1> HIDE DEF joined, pair
<1>6. joined = pair
  BY <1>5, SeqEqual
<1> QED
  BY <1>6 DEF joined, pair

-----------------------------------------------------------------------------
(* A line of the file is cut at its first ':' and nowhere else.            *)

\* The place find returns.
LEMMA FirstColon ==
  ASSUME NEW S, NEW line \in Seq(S), Colons(line) # {}
  PROVE  Min(Colons(line)) \in 1 .. Len(line)
<1>1. Len(line) \in Nat /\ DOMAIN line = 1 .. Len(line)
  BY LenProperties
<1>2. \A n \in Colons(line) : n \in 1 .. Len(line)
  BY <1>1 DEF Colons
<1>3. Colons(line) \in SUBSET Nat
  BY <1>1, <1>2
<1> QED
  BY <1>2, <1>3, MinIsLeast

\* open cuts a line at its first ':' and leaves those behind it in the value.
THEOREM KvpCut ==
  ASSUME NEW S, NEW line \in Seq(S)
  PROVE  /\ Colons(line) = {} => kvp(line) = <<SubSeq(line, 1, Len(line))>>
         /\ Colons(line) # {} =>
              kvp(line) = <<SubSeq(line, 1, Min(Colons(line)) - 1),
                            SubSeq(line, Min(Colons(line)) + 1, Len(line))>>
<1>1. Len(line) \in Nat /\ DOMAIN line = 1 .. Len(line)
  BY LenProperties
<1>2. Cuts(line, ":", 1) = Colons(line)
  BY <1>1 DEF Cuts, Colons
<1>3. More(1, 2) /\ ~ More(2, 2)
  BY DEF More
<1> DEFINE R == Rests(line, ":", 2)
           colon == Min(Colons(line))
<1>4. \A start \in Nat : R[start] = Rest(line, ":", 2, start, R)
  BY <1>1, RestsDefined
<1>5. kvp(line) = R[1][1]
  BY SplitIsRest DEF kvp
<1> HIDE DEF R
<1>6. Colons(line) = {} => R[1][1] = <<SubSeq(line, 1, Len(line))>>
  <2>1. R[1] = Rest(line, ":", 2, 1, R)
    BY <1>4
  <2> QED
    BY <1>2, <2>1 DEF Rest
<1>7. ASSUME Colons(line) # {}
      PROVE  R[1][1] = <<SubSeq(line, 1, colon - 1), SubSeq(line, colon + 1, Len(line))>>
  <2>1. colon + 1 \in Nat
    BY <1>1, <1>7, FirstColon
  <2> HIDE DEF colon
  <2>2. R[1][1] = <<SubSeq(line, 1, colon - 1)>> \o R[colon + 1][1 + 1]
    <3>1. Min(Cuts(line, ":", 1)) = colon
      BY <1>2 DEF colon
    <3>2. R[1] = Rest(line, ":", 2, 1, R)
      BY <1>4
    <3> QED
      BY <1>2, <1>3, <1>7, <3>1, <3>2 DEF Rest
  <2>3. R[colon + 1][2] = <<SubSeq(line, colon + 1, Len(line))>>
    <3>1. R[colon + 1] = Rest(line, ":", 2, colon + 1, R)
      BY <1>4, <2>1
    <3> QED
      BY <1>3, <3>1 DEF Rest
  <2>4. R[1][1] = <<SubSeq(line, 1, colon - 1)>> \o <<SubSeq(line, colon + 1, Len(line))>>
    <3>1. 1 + 1 = 2
      OBVIOUS
    <3> QED
      BY <2>2, <2>3, <3>1, Zenon
  <2> QED
    BY <2>4, Joined
<1> QED
  BY <1>5, <1>6, <1>7

-----------------------------------------------------------------------------
(* A list of sinks is cut at every ','.                                    *)

EndsFrom(text, delim, start) ==
  {start - 1, Len(text) + 1} \cup {i \in start .. Len(text) : text[i] = delim}

IsPiece(text, delim, start, p) ==
  \E a, b \in EndsFrom(text, delim, start) :
    /\ a < b
    /\ \A k \in EndsFrom(text, delim, start) : k <= a \/ b <= k
    /\ p = SubSeq(text, a + 1, b - 1)

\* list holds what is between the commas from start on, and nothing else.
Lists(S, list, text, delim, start) ==
  /\ list \in Seq(Seq(S))
  /\ \A p : (\E i \in 1 .. Len(list) : list[i] = p) <=> IsPiece(text, delim, start, p)

\* Without a comma what is left is the only piece.
LEMMA LastPiece ==
  ASSUME NEW S, NEW text \in Seq(S), NEW delim, NEW start \in 1 .. Len(text) + 1,
         Cuts(text, delim, start) = {}
  PROVE  Lists(S, <<SubSeq(text, start, Len(text))>>, text, delim, start)
<1>1. Len(text) \in Nat
  BY LenProperties
<1>2. EndsFrom(text, delim, start) = {start - 1, Len(text) + 1}
  BY <1>1 DEF EndsFrom, Cuts
<1>3. SubSeq(text, start, Len(text)) \in Seq(S)
  BY <1>1, PartTyped
<1> DEFINE piece == SubSeq(text, start, Len(text))
<1>4. (start - 1) + 1 = start /\ (Len(text) + 1) - 1 = Len(text) /\ start - 1 < Len(text) + 1
  BY <1>1
<1>5. \A p : IsPiece(text, delim, start, p) <=> p = piece
  <2>1. IsPiece(text, delim, start, piece)
    <3>1. \A k \in EndsFrom(text, delim, start) : k <= start - 1 \/ Len(text) + 1 <= k
      BY <1>1, <1>2
    <3> QED
      BY <1>2, <1>4, <3>1, Zenon DEF IsPiece
  <2>2. ASSUME NEW p, IsPiece(text, delim, start, p) PROVE p = piece
    <3>1. PICK a, b \in EndsFrom(text, delim, start) : a < b /\ p = SubSeq(text, a + 1, b - 1)
      BY <2>2 DEF IsPiece
    <3>2. a = start - 1 /\ b = Len(text) + 1
      BY <1>1, <1>2, <3>1
    <3> QED
      BY <1>4, <3>1, <3>2
  <2> QED
    BY <2>1, <2>2
<1> HIDE DEF piece
<1>6. /\ <<piece>> \in Seq(Seq(S))
      /\ \A p : (\E i \in 1 .. Len(<<piece>>) : <<piece>>[i] = p) <=> p = piece
  <2>1. <<piece>> \in Seq(Seq(S)) /\ Len(<<piece>>) = 1 /\ <<piece>>[1] = piece
    BY <1>3 DEF piece
  <2> QED
    BY <2>1
<1> QED
  BY <1>5, <1>6 DEF Lists, piece

\* The piece up to the next comma goes before those behind it.
LEMMA PieceBefore ==
  ASSUME NEW S, NEW text \in Seq(S), NEW delim, NEW start \in 1 .. Len(text) + 1,
         Cuts(text, delim, start) # {}, NEW list,
         Lists(S, list, text, delim, Min(Cuts(text, delim, start)) + 1)
  PROVE  Lists(S, <<SubSeq(text, start, Min(Cuts(text, delim, start)) - 1)>> \o list,
               text, delim, start)
<1> DEFINE cut == Min(Cuts(text, delim, start))
           piece == SubSeq(text, start, cut - 1)
<1>1. Len(text) \in Nat
  BY LenProperties
<1>2. /\ cut \in Nat /\ cut \in start .. Len(text) /\ text[cut] = delim
      /\ \A i \in start .. cut - 1 : text[i] # delim
  BY <1>1, NextCut
<1>3. Lists(S, list, text, delim, cut + 1)
  OBVIOUS
<1> HIDE DEF cut
<1>4. piece \in Seq(S)
  BY <1>1, <1>2, PartTyped
<1>5. /\ \A k : k \in EndsFrom(text, delim, start) <=>
                 k = start - 1 \/ k \in EndsFrom(text, delim, cut + 1)
      /\ cut \in EndsFrom(text, delim, cut + 1)
      /\ \A k \in EndsFrom(text, delim, cut + 1) : k \in Int /\ cut <= k
  BY <1>1, <1>2 DEF EndsFrom
<1>6. start - 1 \in Int /\ (start - 1) + 1 = start /\ start - 1 < cut
  BY <1>1, <1>2
<1> DEFINE old == EndsFrom(text, delim, cut + 1)
<1>7. IsPiece(text, delim, start, piece)
  <2>1. \A k \in EndsFrom(text, delim, start) : k <= start - 1 \/ cut <= k
    BY <1>5, <1>6
  <2>2. start - 1 \in EndsFrom(text, delim, start) /\ cut \in EndsFrom(text, delim, start)
    BY <1>5
  <2> QED
    BY <1>6, <2>1, <2>2, Zenon DEF IsPiece
<1>8. ASSUME NEW p, IsPiece(text, delim, cut + 1, p) PROVE IsPiece(text, delim, start, p)
  <2>1. PICK a, b \in old : /\ a < b /\ (\A k \in old : k <= a \/ b <= k)
                            /\ p = SubSeq(text, a + 1, b - 1)
    BY <1>8 DEF IsPiece
  <2>2. a \in EndsFrom(text, delim, start) /\ b \in EndsFrom(text, delim, start)
    BY <1>5
  <2>3. start - 1 <= a
    BY <1>5, <1>6
  <2>4. \A k \in EndsFrom(text, delim, start) : k <= a \/ b <= k
    BY <1>5, <2>1, <2>3
  <2> QED
    BY <2>1, <2>2, <2>4, Zenon DEF IsPiece
<1>9. ASSUME NEW p, IsPiece(text, delim, start, p)
      PROVE  p = piece \/ IsPiece(text, delim, cut + 1, p)
  <2>1. PICK a, b \in EndsFrom(text, delim, start) :
          /\ a < b /\ (\A k \in EndsFrom(text, delim, start) : k <= a \/ b <= k)
          /\ p = SubSeq(text, a + 1, b - 1)
    BY <1>9 DEF IsPiece
  <2>2. CASE a \in old /\ b \in old
    BY <1>5, <2>1, <2>2, Zenon DEF IsPiece
  <2>3. CASE a \notin old
    <3>1. a = start - 1
      BY <1>5, <2>1, <2>3
    <3>2. b \in old /\ cut <= b
      BY <1>5, <1>6, <2>1, <3>1
    <3>3. cut <= a \/ b <= cut
      <4>1. cut \in EndsFrom(text, delim, start)
        BY <1>5
      <4>2. cut <= a \/ b <= cut
        BY <2>1, <4>1
      <4> QED
        BY <4>2
    <3>4. b = cut
      BY <1>2, <1>5, <1>6, <3>1, <3>2, <3>3
    <3> QED
      BY <1>6, <2>1, <3>1, <3>4
  <2>4. CASE b \notin old
    <3>1. b = start - 1
      BY <1>5, <2>1, <2>4
    <3>2. a = start - 1 \/ (cut <= a /\ a \in Int)
      BY <1>5, <2>1
    <3> QED
      BY <1>2, <1>6, <2>1, <3>1, <3>2
  <2> QED
    BY <2>2, <2>3, <2>4
<1> HIDE DEF piece, old
<1>10. list \in Seq(Seq(S)) /\ Len(list) \in Nat
  BY <1>3, LenProperties DEF Lists
<1>11. /\ <<piece>> \o list \in Seq(Seq(S)) /\ Len(<<piece>> \o list) = Len(list) + 1
       /\ (<<piece>> \o list)[1] = piece
       /\ \A i \in 1 .. Len(list) : (<<piece>> \o list)[i + 1] = list[i]
  BY <1>4, <1>10
<1>12. ASSUME NEW p
       PROVE  (\E i \in 1 .. Len(<<piece>> \o list) : (<<piece>> \o list)[i] = p)
                <=> p = piece \/ \E i \in 1 .. Len(list) : list[i] = p
  <2>1. ASSUME NEW i \in 1 .. Len(<<piece>> \o list), (<<piece>> \o list)[i] = p
        PROVE  p = piece \/ \E k \in 1 .. Len(list) : list[k] = p
    <3>1. CASE i = 1
      BY <1>11, <2>1, <3>1
    <3>2. CASE i # 1
      <4>1. i - 1 \in 1 .. Len(list) /\ (i - 1) + 1 = i
        BY <1>10, <1>11, <3>2
      <4>2. list[i - 1] = p
        BY <1>11, <2>1, <4>1
      <4> QED
        BY <4>1, <4>2
    <3> QED
      BY <3>1, <3>2
  <2>2. ASSUME p = piece PROVE \E i \in 1 .. Len(<<piece>> \o list) : (<<piece>> \o list)[i] = p
    <3>1. 1 \in 1 .. Len(<<piece>> \o list)
      BY <1>10, <1>11
    <3> QED
      BY <1>11, <2>2, <3>1
  <2>3. ASSUME NEW k \in 1 .. Len(list), list[k] = p
        PROVE  \E i \in 1 .. Len(<<piece>> \o list) : (<<piece>> \o list)[i] = p
    <3>1. k + 1 \in 1 .. Len(<<piece>> \o list)
      BY <1>10, <1>11
    <3> QED
      BY <1>11, <2>3, <3>1
  <2> QED
    BY <2>1, <2>2, <2>3
<1>13. \A p : IsPiece(text, delim, start, p) <=> p = piece \/ IsPiece(text, delim, cut + 1, p)
  BY <1>7, <1>8, <1>9
<1>14. \A p : (\E i \in 1 .. Len(list) : list[i] = p) <=> IsPiece(text, delim, cut + 1, p)
  BY <1>3 DEF Lists
<1>15. Lists(S, <<piece>> \o list, text, delim, start)
  BY <1>11, <1>12, <1>13, <1>14, Zenon DEF Lists
<1> QED
  BY <1>15 DEF piece, cut

\* By induction on what is left: str_split lists what is between the delimiters of
\* a text, all of it and nothing else.
THEOREM SplitLists ==
  ASSUME NEW S, NEW text \in Seq(S), NEW delim
  PROVE  Lists(S, str_split(text, delim, -1), text, delim, 1)
<1> DEFINE R == Rests(text, delim, -1)
           n == Len(text) + 1
           Done(start) == \A tokens \in Nat : Lists(S, R[start][tokens], text, delim, start)
           Wrong == {m \in Nat : m <= n - 1 /\ ~ Done(n - m)}
<1>1. Len(text) \in Nat /\ n \in Nat /\ n >= 1
  BY LenProperties
<1>R. \A start \in Nat : R[start] = Rest(text, delim, -1, start, R)
  BY <1>1, RestsDefined
<1>L. str_split(text, delim, -1) = R[1][1]
  BY SplitIsRest
<1> HIDE DEF R
<1>2. ASSUME NEW start \in 1 .. n, Cuts(text, delim, start) = {} PROVE Done(start)
  <2>1. \A tokens \in Nat : R[start][tokens] = <<SubSeq(text, start, Len(text))>>
    <3>1. R[start] = Rest(text, delim, -1, start, R)
      BY <1>R
    <3> QED
      BY <1>2, <3>1 DEF Rest
  <2>2. Lists(S, <<SubSeq(text, start, Len(text))>>, text, delim, start)
    BY <1>2, LastPiece
  <2> QED
    BY <2>1, <2>2
<1>3. ASSUME NEW start \in 1 .. n, Cuts(text, delim, start) # {},
             Done(Min(Cuts(text, delim, start)) + 1)
      PROVE  Done(start)
  <2> DEFINE cut == Min(Cuts(text, delim, start))
  <2>1. ASSUME NEW tokens \in Nat PROVE Lists(S, R[start][tokens], text, delim, start)
    <3>1. R[start][tokens] = <<SubSeq(text, start, cut - 1)>> \o R[cut + 1][tokens + 1]
      <4>1. More(tokens, -1) /\ start \in Nat
        BY <1>1 DEF More
      <4> HIDE DEF cut
      <4>2. Min(Cuts(text, delim, start)) = cut
        BY DEF cut
      <4>3. R[start] = Rest(text, delim, -1, start, R)
        BY <1>R
      <4> QED
        BY <1>3, <4>1, <4>2, <4>3 DEF Rest
    <3>2. tokens + 1 \in Nat
      OBVIOUS
    <3>3. Lists(S, R[cut + 1][tokens + 1], text, delim, cut + 1)
      BY <1>3, <3>2, Zenon
    <3>4. Lists(S, <<SubSeq(text, start, cut - 1)>> \o R[cut + 1][tokens + 1], text, delim, start)
      BY <1>3, <3>3, PieceBefore
    <3> QED
      BY <3>1, <3>4, Zenon
  <2> QED
    BY <2>1
<1> HIDE DEF Done
<1>4. Wrong = {}
  <2>1. SUFFICES ASSUME Wrong # {} PROVE FALSE
    OBVIOUS
  <2>2. PICK m \in Wrong : \A k \in Wrong : m <= k
    BY <2>1, LeastExists
  <2>3. m \in Nat /\ m <= n - 1 /\ ~ Done(n - m)
    OBVIOUS
  <2>4. n - m \in 1 .. n
    BY <1>1, <2>3
  <2>5. Cuts(text, delim, n - m) # {}
    BY <1>2, <2>3, <2>4
  <2> DEFINE cut == Min(Cuts(text, delim, n - m))
  <2>6. cut \in (n - m) .. Len(text)
    BY <1>1, <2>4, <2>5, NextCut
  <2> HIDE DEF cut
  <2>7. n - (cut + 1) \in Nat /\ n - (cut + 1) < m /\ n - (n - (cut + 1)) = cut + 1
    BY <1>1, <2>3, <2>4, <2>6
  <2>8. n - (cut + 1) \notin Wrong
    BY <1>1, <2>2, <2>3, <2>7
  <2>9. Done(cut + 1)
    BY <1>1, <2>3, <2>7, <2>8
  <2>10. Done(n - m)
    BY <1>3, <2>4, <2>5, <2>9 DEF cut
  <2> QED
    BY <2>3, <2>10
<1>5. Done(1)
  <2>1. n - 1 \in Nat /\ n - (n - 1) = 1 /\ n - 1 \notin Wrong
    BY <1>1, <1>4
  <2> QED
    BY <1>1, <2>1
<1>6. Lists(S, R[1][1], text, delim, 1)
  BY <1>5, Zenon DEF Done
<1> QED
  BY <1>6, <1>L

\* The list of sinks that main makes of a text.
Comma == ","

Listed(text) == str_split(text, Comma, -1)

\* So the words it cuts out, in lower case, are those the list asks for.
LEMMA AskedWords ==
  ASSUME NEW S, NEW text \in Seq(S)
  PROVE  /\ Len(Listed(text)) \in Nat
         /\ \A w : w \in Asked(text) <=>
                     \E i \in 1 .. Len(Listed(text)) : w = str_to_lower(Listed(text)[i])
<1> DEFINE list == Listed(text)
<1>1. Lists(S, list, text, Comma, 1)
  BY SplitLists DEF Listed
<1> HIDE DEF list
<1>2. list \in Seq(Seq(S)) /\ Len(list) \in Nat
  BY <1>1, LenProperties DEF Lists
<1>3. Len(text) \in Nat /\ DOMAIN text = 1 .. Len(text)
  BY LenProperties
<1>4. Ends(text) = EndsFrom(text, Comma, 1)
  <2>1. Ends(text) = {0, Len(text) + 1} \cup {i \in DOMAIN text : text[i] = Comma}
    BY Zenon DEF Ends, Comma
  <2> QED
    BY <1>3, <2>1 DEF EndsFrom
<1>5. ASSUME NEW w
      PROVE  w \in Asked(text) <=> \E p : IsPiece(text, Comma, 1, p) /\ w = str_to_lower(p)
  <2>1. w \in Asked(text) <=>
          \E e \in Pieces(text) : w = str_to_lower(SubSeq(text, e[1] + 1, e[2] - 1))
    BY Zenon DEF Asked
  <2>2. ASSUME NEW e \in Pieces(text)
        PROVE  IsPiece(text, Comma, 1, SubSeq(text, e[1] + 1, e[2] - 1))
    <3>1. /\ e[1] \in Ends(text) /\ e[2] \in Ends(text) /\ e[1] < e[2]
          /\ \A k \in Ends(text) : k <= e[1] \/ e[2] <= k
      BY DEF Pieces
    <3> QED
      BY <1>4, <3>1, Zenon DEF IsPiece
  <2>3. ASSUME NEW p, IsPiece(text, Comma, 1, p)
        PROVE  \E e \in Pieces(text) : p = SubSeq(text, e[1] + 1, e[2] - 1)
    <3>1. PICK a, b \in Ends(text) :
            /\ a < b /\ (\A k \in Ends(text) : k <= a \/ b <= k)
            /\ p = SubSeq(text, a + 1, b - 1)
      BY <1>4, <2>3, Zenon DEF IsPiece
    <3>2. <<a, b>> \in Pieces(text)
      BY <3>1 DEF Pieces
    <3>3. <<a, b>>[1] = a /\ <<a, b>>[2] = b
      OBVIOUS
    <3> QED
      BY <3>1, <3>2, <3>3, Zenon
  <2> QED
    BY <2>1, <2>2, <2>3, Zenon
<1>6. \A p : IsPiece(text, Comma, 1, p) <=> \E i \in 1 .. Len(list) : list[i] = p
  BY <1>1, Zenon DEF Lists
<1>7. \A w : w \in Asked(text) <=> \E i \in 1 .. Len(list) : w = str_to_lower(list[i])
  BY <1>5, <1>6, Zenon
<1> QED
  BY <1>2, <1>7 DEF list

\* parse_log_sink knows all of the words or stops at one; when it knows them
\* all it sets what they name.
LEMMA SinksAsked ==
  ASSUME NEW S, NEW text \in Seq(S)
  PROVE  /\ AllNamed(Listed(text)) <=> Asked(text) \subseteq Sinks
         /\ AllNamed(Listed(text)) =>
              SinksNamed(Listed(text)) =
                {name \in {"none", "stdout", "syslog"} : <<name>> \in Asked(text)}
<1> DEFINE list == Listed(text)
<1>1. Len(list) \in Nat
  BY AskedWords
<1>2. \A w : w \in Asked(text) <=> \E i \in 1 .. Len(list) : w = str_to_lower(list[i])
  BY AskedWords
<1> HIDE DEF list
<1>3. AllNamed(list) <=> \A i \in 1 .. Len(list) : str_to_lower(list[i]) \in Sinks
  <2>1. \A i \in 1 .. Len(list) : i \in 1 .. i /\ \A j \in 1 .. i : j \in 1 .. Len(list)
    BY <1>1
  <2>2. \A i : i \in Named(list) <=>
                 i \in 1 .. Len(list) /\ \A j \in 1 .. i : str_to_lower(list[j]) \in Sinks
    BY Zenon DEF Named
  <2>3. AllNamed(list) <=> \A i : i \in Named(list) <=> i \in 1 .. Len(list)
    BY Zenon DEF AllNamed
  <2> QED
    BY <2>1, <2>2, <2>3, Zenon
<1>4. AllNamed(list) <=> Asked(text) \subseteq Sinks
  <2>1. Asked(text) \subseteq Sinks <=> \A w : w \in Asked(text) => w \in Sinks
    OBVIOUS
  <2> QED
    BY <1>2, <1>3, <2>1, Zenon
<1>5. ASSUME AllNamed(list), NEW name
      PROVE  (\E i \in Named(list) : str_to_lower(list[i]) = <<name>>) <=> <<name>> \in Asked(text)
  <2>1. Named(list) = 1 .. Len(list)
    BY <1>5 DEF AllNamed
  <2> QED
    BY <1>2, <2>1, Zenon
<1>6. AllNamed(list) =>
        SinksNamed(list) = {name \in {"none", "stdout", "syslog"} : <<name>> \in Asked(text)}
  BY <1>5, Zenon DEF SinksNamed
<1> QED
  BY <1>4, <1>6 DEF list

-----------------------------------------------------------------------------
(* Options and their places on the command line.                           *)

Letters == {"f", "l", "L", "c", "p"}

LEMMA OptionText ==
  /\ \A x \in Letters : Option(x) # Empty /\ Head(Option(x)) = "-"
  /\ \A x, y \in Letters : Option(x) = Option(y) => x = y
<1>1. \A x \in Letters : Option(x) # Empty /\ Head(Option(x)) = "-"
  BY DEF Option, Empty
<1>2. ASSUME NEW x \in Letters, NEW y \in Letters, Option(x) = Option(y) PROVE x = y
  <2>1. Option(x)[2] = x /\ Option(y)[2] = y
    BY DEF Option
  <2> QED
    BY <1>2, <2>1
<1> QED
  BY <1>1, <1>2

\* The places of an option among the first words.
Seen(x, n) == {i \in At(Option(x)) : i < n}

ArgvInv == argv \in Seq(Seq(STRING)) /\ argn \in 1 .. Len(argv) + 1

\* The word behind an option that takes one is there, and is no option.
LEMMA NextWord ==
  ASSUME ArgvInv, InArgs, HasArgument
  PROVE  /\ argn < Len(argv) /\ next_opt = argv[argn + 1]
         /\ \A x \in Letters : argv[argn + 1] # Option(x)
<1>1. argn < Len(argv) /\ next_opt = argv[argn + 1]
  BY DEF HasArgument, next_opt
<1>2. argv[argn + 1] # Empty /\ Head(argv[argn + 1]) # "-"
  BY <1>1 DEF HasArgument, str_starts_with
<1> QED
  BY <1>1, <1>2, OptionText

\* Behind the next option the places are those before it, and its own.
LEMMA SeenPast ==
  ASSUME ArgvInv, InArgs, NEW y \in Letters, curr_opt = Option(y), NEW n \in {1, 2},
         n = 2 => HasArgument, NEW x \in Letters
  PROVE  Seen(x, argn + n) = IF x = y THEN Seen(x, argn) \cup {argn} ELSE Seen(x, argn)
<1>1. argn \in Nat /\ argn <= Len(argv) /\ Len(argv) \in Nat /\ argv[argn] = Option(y)
  BY DEF ArgvInv, InArgs, curr_opt
<1>2. argn \in At(Option(x)) <=> x = y
  BY <1>1, OptionText DEF At, ArgvInv
<1>3. n = 2 => argn + 1 \notin At(Option(x))
  BY NextWord DEF At
<1>4. \A i \in At(Option(x)) : i \in Int
  BY <1>1 DEF At
<1>5. ASSUME NEW i \in At(Option(x))
      PROVE  i < argn + n <=> i < argn \/ i = argn \/ (n = 2 /\ i = argn + 1)
  BY <1>1, <1>4
<1> QED
  BY <1>2, <1>3, <1>5 DEF Seen

-----------------------------------------------------------------------------
(* The invariant: what the loop over the options has kept of the words it  *)
(* has passed, and that nothing after the loop takes it back.              *)

\* value is the argument of the last option x among the first words.
Latest(x, n, value) ==
  \E i \in Seen(x, n) : (\A j \in Seen(x, n) : j <= i) /\ value = argv[i + 1]

LastOr(x, value, default) ==
  Latest(x, argn, value) \/ (Seen(x, argn) = {} /\ value = default)

FileInv == LastOr("c", options.config_file, DefaultFile)

PidInv == LastOr("p", options.pid_file, Empty)

ForegroundInv == options.daemonize <=> Seen("f", argn) = {}

LevelInv ==
  /\ options.log_level_set <=> Seen("l", argn) # {}
  /\ Seen("l", argn) # {} =>
       \E text : Latest("l", argn, text) /\ logging_level = Level[str_to_lower(text)]

OptionInv == FileInv /\ PidInv /\ ForegroundInv /\ LevelInv

Options ==
  [config_file : Seq(STRING), pid_file : Seq(STRING), config_set : BOOLEAN,
   log_level_set : BOOLEAN, log_sinks_set : BOOLEAN, daemonize : BOOLEAN]

LoopInv ==
  /\ options \in Options
  /\ pc \notin {"args", "exited"} => argn = Len(argv) + 1
  /\ pc # "exited" => OptionInv

StartInv == TypeOK /\ ArgvInv /\ LoopInv

\* Only the option that was read moves on.
LEMMA LatestPast ==
  ASSUME ArgvInv, InArgs, NEW y \in Letters, curr_opt = Option(y), NEW n \in {1, 2},
         n = 2 => HasArgument, NEW x \in Letters
  PROVE  /\ x # y => /\ Seen(x, argn + n) = Seen(x, argn)
                     /\ \A v : Latest(x, argn + n, v) <=> Latest(x, argn, v)
         /\ Seen(y, argn + n) # {}
         /\ n = 2 => Latest(y, argn + n, next_opt)
<1>1. Seen(x, argn + n) = IF x = y THEN Seen(x, argn) \cup {argn} ELSE Seen(x, argn)
  BY SeenPast
<1>2. Seen(y, argn + n) = Seen(y, argn) \cup {argn}
  BY SeenPast
<1>3. \A j \in Seen(y, argn) : j <= argn
  BY DEF Seen, At, ArgvInv
<1>4. argn <= argn
  BY DEF ArgvInv
<1>5. n = 2 => next_opt = argv[argn + 1]
  BY NextWord
<1> QED
  BY <1>1, <1>2, <1>3, <1>4, <1>5 DEF Latest

\* A level has a number.
LEMMA LevelTyped ==
  ASSUME NEW text \in DOMAIN Level
  PROVE  Level[text] \in LOG_LEVEL_NONE .. LOG_LEVEL_DEBUG
<1>1. PICK name \in DOMAIN LevelNames : text = <<name>>
  BY DEF Level
<1>2. Level[text] = LevelNames[name]
  BY <1>1 DEF Level
<1>3. LevelNames[name] \in {0, 1, 2, 3}
  BY DEF LevelNames, LOG_LEVEL_NONE, LOG_LEVEL_ERROR, LOG_LEVEL_INFO, LOG_LEVEL_DEBUG
<1> QED
  BY <1>2, <1>3 DEF LOG_LEVEL_NONE, LOG_LEVEL_DEBUG

\* The sinks that are added have bits.
LEMMA SinksTyped ==
  ASSUME TypeOK, NEW list, parse_log_sinks(list)
  PROVE  active_log_sinks' \subseteq {"stdout", "syslog"}
BY DEF TypeOK, parse_log_sinks, SinksNamed

LEMMA InitStart == Init => StartInv
<1> SUFFICES ASSUME Init PROVE StartInv
  OBVIOUS
<1>1. ArgvInv
  BY TextAssumption DEF Init, ArgvInv
<1>2. TypeOK
  BY <1>1 DEF Init, TypeOK, ArgvInv, LOG_LEVEL_NONE, LOG_LEVEL_ERROR, LOG_LEVEL_DEBUG
<1>3. \A x : Seen(x, argn) = {}
  BY DEF Init, Seen, At
<1>4. options \in Options /\ options.log_level_set = FALSE /\ options.daemonize = TRUE
  BY TextAssumption DEF Init, Options, Empty
<1>5. options.config_file = DefaultFile /\ options.pid_file = Empty
  BY DEF Init
<1>6. OptionInv
  BY <1>3, <1>4, <1>5 DEF OptionInv, FileInv, PidInv, ForegroundInv, LevelInv, LastOr
<1> QED
  BY <1>1, <1>2, <1>4, <1>6 DEF Init, StartInv, LoopInv

\* Where the loop goes on: the words behind are still words.
LEMMA PastTyped ==
  ASSUME ArgvInv, InArgs, NEW n \in {1, 2}, Past(n), n = 2 => HasArgument, argv' = argv
  PROVE  ArgvInv' /\ argn' = argn + n /\ pc' = "args" /\ UNCHANGED exit_status
<1>1. argn' = argn + n /\ pc' = "args" /\ UNCHANGED exit_status
  BY DEF Past, GoOn
<1>2. n = 2 => argn < Len(argv)
  BY NextWord
<1> QED
  BY <1>1, <1>2 DEF ArgvInv, InArgs

\* Seen and Latest read the command line, which never changes.
LEMMA SameWords ==
  ASSUME argv' = argv, argn' = argn
  PROVE  \A x : /\ Seen(x, argn)' = Seen(x, argn)
                /\ \A v : Latest(x, argn, v)' <=> Latest(x, argn, v)
BY DEF Seen, At, Latest

\* An option that is read, with its argument or without.
Passes(y, n) ==
  /\ InArgs /\ curr_opt = Option(y) /\ (n = 2 => HasArgument) /\ Past(n)
  /\ UNCHANGED <<files, argv, line_nr, config>>

\* What was kept of the other options stays.
SameOption(x) ==
  /\ Seen(x, argn)' = Seen(x, argn)
  /\ \A v : Latest(x, argn, v)' <=> Latest(x, argn, v)

LEMMA PassStep ==
  ASSUME StartInv, NEW y \in Letters, NEW n \in {1, 2}, Passes(y, n)
  PROVE  /\ ArgvInv' /\ pc = "args" /\ pc' = "args" /\ OptionInv
         /\ UNCHANGED <<exit_status, line_nr>>
         /\ \A x \in Letters : x # y => SameOption(x)
         /\ Seen(y, argn)' # {}
         /\ n = 2 => \E word \in Seq(STRING) : word = next_opt /\ Latest(y, argn, word)'
<1>1. ArgvInv /\ InArgs /\ curr_opt = Option(y) /\ (n = 2 => HasArgument)
  BY DEF StartInv, Passes
<1>2. argn' = argn + n /\ pc' = "args" /\ UNCHANGED exit_status /\ argv' = argv /\ ArgvInv'
  BY <1>1, PastTyped DEF Passes
<1>3. \A x : /\ Seen(x, argn)' = Seen(x, argn + n)
             /\ \A v : Latest(x, argn, v)' <=> Latest(x, argn + n, v)
  BY <1>2 DEF Seen, At, Latest
<1>4. ASSUME NEW x \in Letters, x # y PROVE SameOption(x)
  BY <1>1, <1>3, <1>4, LatestPast DEF SameOption
<1>5. Seen(y, argn)' # {}
  BY <1>1, <1>3, LatestPast
<1>6. \A word : n = 2 /\ word = next_opt => Latest(y, argn, word)'
  BY <1>1, <1>3, LatestPast
<1>7. n = 2 => next_opt \in Seq(STRING)
  <2>1. n = 2 => next_opt = argv[argn + 1] /\ argn + 1 \in 1 .. Len(argv)
    BY <1>1, NextWord DEF ArgvInv
  <2> QED
    BY <1>1, <2>1 DEF ArgvInv
<1>8. pc = "args" /\ OptionInv /\ UNCHANGED line_nr
  BY <1>1 DEF Passes, InArgs, StartInv, LoopInv
<1> QED
  BY <1>2, <1>4, <1>5, <1>6, <1>7, <1>8

LEMMA ForegroundStep ==
  ASSUME StartInv, OptionForeground
  PROVE  StartInv'
<1> USE DEF Letters
<1>1. Passes("f", 1) /\ options' = [options EXCEPT !.daemonize = FALSE] /\ UNCHANGED logging
  BY DEF Passes, OptionForeground
<1>2. /\ ArgvInv' /\ pc' = "args" /\ OptionInv /\ Seen("f", argn)' # {}
      /\ SameOption("c") /\ SameOption("p") /\ SameOption("l")
      /\ UNCHANGED <<exit_status, line_nr>>
  BY <1>1, PassStep
<1>3. options \in Options /\ TypeOK
  BY DEF StartInv, LoopInv
<1>4. /\ options' \in Options /\ options'.daemonize = FALSE
      /\ options'.config_file = options.config_file /\ options'.pid_file = options.pid_file
      /\ options'.log_level_set = options.log_level_set
  BY <1>1, <1>3 DEF Options
<1>5. TypeOK'
  BY <1>1, <1>2, <1>3 DEF TypeOK, ArgvInv, logging
<1>6. FileInv' /\ PidInv'
  BY <1>2, <1>4 DEF OptionInv, FileInv, PidInv, LastOr, SameOption
<1>7. ForegroundInv'
  BY <1>2, <1>4 DEF ForegroundInv
<1>8. LevelInv'
  BY <1>1, <1>2, <1>4 DEF OptionInv, LevelInv, SameOption, logging
<1> QED
  BY <1>2, <1>4, <1>5, <1>6, <1>7, <1>8 DEF StartInv, LoopInv, OptionInv

LEMMA LevelStep ==
  ASSUME StartInv, OptionLevel
  PROVE  StartInv'
<1> USE DEF Letters
<1>1. /\ Passes("l", 2) /\ options' = [options EXCEPT !.log_level_set = TRUE]
      /\ UNCHANGED active_log_sinks
      /\ str_to_lower(next_opt) \in DOMAIN Level
      /\ logging_level' = Level[str_to_lower(next_opt)]
  BY DEF Passes, OptionLevel, parse_log_level
<1>2. /\ ArgvInv' /\ pc' = "args" /\ OptionInv /\ Seen("l", argn)' # {}
      /\ SameOption("c") /\ SameOption("p") /\ SameOption("f")
      /\ UNCHANGED <<exit_status, line_nr>>
      /\ \E word \in Seq(STRING) : word = next_opt /\ Latest("l", argn, word)'
  BY <1>1, PassStep
<1>3. options \in Options /\ TypeOK
  BY DEF StartInv, LoopInv
<1>4. /\ options' \in Options /\ options'.log_level_set = TRUE
      /\ options'.config_file = options.config_file /\ options'.pid_file = options.pid_file
      /\ options'.daemonize = options.daemonize
  BY <1>1, <1>3 DEF Options
<1>5. TypeOK'
  <2>1. logging_level' \in LOG_LEVEL_NONE .. LOG_LEVEL_DEBUG
    BY <1>1, LevelTyped
  <2> QED
    BY <1>1, <1>2, <1>3, <2>1 DEF TypeOK, ArgvInv
<1>6. FileInv' /\ PidInv'
  BY <1>2, <1>4 DEF OptionInv, FileInv, PidInv, LastOr, SameOption
<1>7. ForegroundInv'
  BY <1>2, <1>4 DEF OptionInv, ForegroundInv, SameOption
<1>8. LevelInv'
  BY <1>1, <1>2, <1>4 DEF LevelInv
<1> QED
  BY <1>2, <1>4, <1>5, <1>6, <1>7, <1>8 DEF StartInv, LoopInv, OptionInv

LEMMA SinksStep ==
  ASSUME StartInv, OptionSinks
  PROVE  StartInv'
<1> USE DEF Letters
<1>1. /\ Passes("L", 2) /\ options' = [options EXCEPT !.log_sinks_set = TRUE]
      /\ UNCHANGED logging_level
      /\ \E list : parse_log_sinks(list)
  BY Zenon DEF Passes, OptionSinks
<1>2. /\ ArgvInv' /\ pc' = "args" /\ OptionInv
      /\ SameOption("c") /\ SameOption("p") /\ SameOption("f") /\ SameOption("l")
      /\ UNCHANGED <<exit_status, line_nr>>
  BY <1>1, PassStep
<1>3. options \in Options /\ TypeOK
  BY DEF StartInv, LoopInv
<1>4. /\ options' \in Options /\ options'.daemonize = options.daemonize
      /\ options'.config_file = options.config_file /\ options'.pid_file = options.pid_file
      /\ options'.log_level_set = options.log_level_set
  BY <1>1, <1>3 DEF Options
<1>5. TypeOK'
  <2>1. active_log_sinks' \subseteq {"stdout", "syslog"}
    BY <1>1, <1>3, SinksTyped
  <2> QED
    BY <1>1, <1>2, <1>3, <2>1 DEF TypeOK, ArgvInv
<1>6. FileInv' /\ PidInv'
  BY <1>2, <1>4 DEF OptionInv, FileInv, PidInv, LastOr, SameOption
<1>7. ForegroundInv'
  BY <1>2, <1>4 DEF OptionInv, ForegroundInv, SameOption
<1>8. LevelInv'
  BY <1>1, <1>2, <1>4 DEF OptionInv, LevelInv, SameOption
<1> QED
  BY <1>2, <1>4, <1>5, <1>6, <1>7, <1>8 DEF StartInv, LoopInv, OptionInv

LEMMA ConfigStep ==
  ASSUME StartInv, OptionConfig
  PROVE  StartInv'
<1> USE DEF Letters
<1>1. /\ Passes("c", 2) /\ UNCHANGED logging
      /\ options' = [options EXCEPT !.config_file = next_opt, !.config_set = TRUE]
  BY DEF Passes, OptionConfig
<1>2. /\ ArgvInv' /\ pc' = "args" /\ OptionInv
      /\ SameOption("p") /\ SameOption("f") /\ SameOption("l")
      /\ UNCHANGED <<exit_status, line_nr>>
      /\ \E word \in Seq(STRING) : word = next_opt /\ Latest("c", argn, word)'
  BY <1>1, PassStep
<1>3. options \in Options /\ TypeOK
  BY DEF StartInv, LoopInv
<1>4. /\ options' \in Options /\ options'.daemonize = options.daemonize
      /\ options'.config_file = next_opt /\ options'.pid_file = options.pid_file
      /\ options'.log_level_set = options.log_level_set
  BY <1>1, <1>2, <1>3 DEF Options
<1>5. TypeOK'
  BY <1>1, <1>2, <1>3 DEF TypeOK, ArgvInv, logging
<1>6. FileInv' /\ PidInv'
  BY <1>2, <1>4 DEF OptionInv, FileInv, PidInv, LastOr, SameOption
<1>7. ForegroundInv'
  BY <1>2, <1>4 DEF OptionInv, ForegroundInv, SameOption
<1>8. LevelInv'
  BY <1>1, <1>2, <1>4 DEF OptionInv, LevelInv, SameOption, logging
<1> QED
  BY <1>2, <1>4, <1>5, <1>6, <1>7, <1>8 DEF StartInv, LoopInv, OptionInv

LEMMA PidStep ==
  ASSUME StartInv, OptionPidFile
  PROVE  StartInv'
<1> USE DEF Letters
<1>1. /\ Passes("p", 2) /\ UNCHANGED logging
      /\ options' = [options EXCEPT !.pid_file = next_opt]
  BY DEF Passes, OptionPidFile
<1>2. /\ ArgvInv' /\ pc' = "args" /\ OptionInv
      /\ SameOption("c") /\ SameOption("f") /\ SameOption("l")
      /\ UNCHANGED <<exit_status, line_nr>>
      /\ \E word \in Seq(STRING) : word = next_opt /\ Latest("p", argn, word)'
  BY <1>1, PassStep
<1>3. options \in Options /\ TypeOK
  BY DEF StartInv, LoopInv
<1>4. /\ options' \in Options /\ options'.daemonize = options.daemonize
      /\ options'.config_file = options.config_file /\ options'.pid_file = next_opt
      /\ options'.log_level_set = options.log_level_set
  BY <1>1, <1>2, <1>3 DEF Options
<1>5. TypeOK'
  BY <1>1, <1>2, <1>3 DEF TypeOK, ArgvInv, logging
<1>6. FileInv' /\ PidInv'
  BY <1>2, <1>4 DEF OptionInv, FileInv, PidInv, LastOr, SameOption
<1>7. ForegroundInv'
  BY <1>2, <1>4 DEF OptionInv, ForegroundInv, SameOption
<1>8. LevelInv'
  BY <1>1, <1>2, <1>4 DEF OptionInv, LevelInv, SameOption, logging
<1> QED
  BY <1>2, <1>4, <1>5, <1>6, <1>7, <1>8 DEF StartInv, LoopInv, OptionInv

\* Behind the loop only the level may change, and only where no -l was given.
LEMMA BehindStep ==
  ASSUME StartInv, UNCHANGED <<argv, argn, options>>,
         pc # "exited" \/ pc' = "exited",
         pc' \notin {"args", "exited"} => argn = Len(argv) + 1,
         UNCHANGED logging_level \/ ~ options.log_level_set,
         TypeOK'
  PROVE  StartInv'
<1>1. \A x : SameOption(x)
  BY SameWords DEF SameOption
<1>2. ArgvInv' /\ options' \in Options
  BY DEF StartInv, ArgvInv, LoopInv
<1>3. CASE pc' = "exited"
  BY <1>2, <1>3 DEF StartInv, LoopInv
<1>4. CASE pc' # "exited"
  <2>1. OptionInv
    BY <1>4 DEF StartInv, LoopInv
  <2>2. FileInv' /\ PidInv'
    BY <1>1, <2>1 DEF OptionInv, FileInv, PidInv, LastOr, SameOption
  <2>3. ForegroundInv'
    BY <1>1, <2>1 DEF OptionInv, ForegroundInv, SameOption
  <2>4. LevelInv'
    BY <1>1, <2>1 DEF OptionInv, LevelInv, SameOption
  <2> QED
    BY <1>2, <2>2, <2>3, <2>4 DEF StartInv, LoopInv, OptionInv
<1> QED
  BY <1>3, <1>4

LEMMA FailsStep ==
  ASSUME StartInv, OptionFails
  PROVE  StartInv'
<1>1. active_log_sinks' \subseteq {"stdout", "syslog"}
  <2>1. TypeOK
    BY DEF StartInv
  <2>2. UNCHANGED active_log_sinks \/ \E list : parse_log_sinks(list)
    BY Zenon DEF OptionFails
  <2> QED
    BY <2>1, <2>2, SinksTyped DEF TypeOK
<1>2. /\ pc = "args" /\ pc' = "exited" /\ exit_status' = 1
      /\ UNCHANGED <<argv, argn, options, logging_level, line_nr>>
  BY Zenon DEF OptionFails, InArgs, Fail
<1>3. TypeOK'
  BY <1>1, <1>2 DEF StartInv, TypeOK
<1> QED
  BY <1>2, <1>3, BehindStep

LEMMA FileStep ==
  ASSUME StartInv, ArgsEnd \/ ReadLine \/ ReadLineFails \/ FileEnd \/ LogStart
  PROVE  StartInv'
<1>1. /\ UNCHANGED <<argv, argn, options, logging_level, active_log_sinks>>
      /\ line_nr' \in {line_nr, line_nr + 1}
      /\ pc \in {"args", "file", "log_start"}
      /\ pc' \in {"file", "log_start", "level", "running", "exited"}
      /\ exit_status' = IF pc' = "exited" THEN 1 ELSE exit_status
      /\ pc = "args" => argn > Len(argv)
  <2>1. CASE ArgsEnd
    BY <2>1, Zenon DEF ArgsEnd, GoOn, Fail, logging
  <2>2. CASE ReadLine
    BY <2>2, Zenon DEF ReadLine, logging
  <2>3. CASE ReadLineFails \/ FileEnd \/ LogStart
    BY <2>3, Zenon DEF ReadLineFails, FileEnd, LogStart, Fail, GoOn, logging
  <2> QED
    BY <2>1, <2>2, <2>3
<1>2. TypeOK'
  BY <1>1 DEF StartInv, TypeOK
<1>3. argn = Len(argv) + 1
  BY <1>1 DEF StartInv, ArgvInv, LoopInv
<1> QED
  BY <1>1, <1>2, <1>3, BehindStep

LEMMA ApplyStep ==
  ASSUME StartInv, ApplyLevel \/ ApplySinks
  PROVE  StartInv'
<1>1. TypeOK
  BY DEF StartInv
<1>2. CASE ApplyLevel
  <2>1. /\ UNCHANGED <<argv, argn, options, active_log_sinks, line_nr>>
        /\ pc = "level" /\ pc' \in {"sinks", "exited"} /\ exit_status' \in {exit_status, 1}
        /\ \/ UNCHANGED logging_level
           \/ /\ ~ options.log_level_set
              /\ config["log_verbosity"] \in DOMAIN Level
              /\ logging_level' = Level[config["log_verbosity"]]
    BY <1>2, Zenon DEF ApplyLevel, GoOn, Fail, parse_log_level
  <2>2. logging_level' \in LOG_LEVEL_NONE .. LOG_LEVEL_DEBUG
    BY <1>1, <2>1, LevelTyped DEF TypeOK
  <2>3. TypeOK'
    BY <1>1, <2>1, <2>2 DEF TypeOK
  <2>4. argn = Len(argv) + 1
    BY <2>1 DEF StartInv, LoopInv
  <2> QED
    BY <2>1, <2>3, <2>4, BehindStep
<1>3. CASE ApplySinks
  <2>1. /\ UNCHANGED <<argv, argn, options, logging_level, line_nr>>
        /\ pc = "sinks" /\ pc' \in {"log_start", "exited"} /\ exit_status' \in {exit_status, 1}
        /\ UNCHANGED active_log_sinks \/ \E list : parse_log_sinks(list)
    BY <1>3, Zenon DEF ApplySinks, GoOn, Fail
  <2>2. active_log_sinks' \subseteq {"stdout", "syslog"}
    BY <1>1, <2>1, SinksTyped DEF TypeOK
  <2>3. TypeOK'
    BY <1>1, <2>1, <2>2 DEF TypeOK
  <2>4. argn = Len(argv) + 1
    BY <2>1 DEF StartInv, LoopInv
  <2> QED
    BY <2>1, <2>3, <2>4, BehindStep
<1> QED
  BY <1>2, <1>3

LEMMA NextStart == StartInv /\ [Next]_vars => StartInv'
<1> SUFFICES ASSUME StartInv, [Next]_vars PROVE StartInv'
  OBVIOUS
<1>1. CASE UNCHANGED vars
  <2>1. TypeOK'
    BY <1>1 DEF StartInv, vars, logging, TypeOK
  <2> QED
    BY <1>1, <2>1, BehindStep DEF StartInv, LoopInv, vars, logging
<1> QED
  BY <1>1, ForegroundStep, LevelStep, SinksStep, ConfigStep, PidStep, FailsStep, FileStep,
     ApplyStep DEF Next

-----------------------------------------------------------------------------
(* The theorems.                                                           *)

LEMMA StartInvariance == Spec => []StartInv
BY InitStart, NextStart, PTL DEF Spec

\* main keeps its types, for any command line, file and text.
THEOREM StartTyped == Spec => []TypeOK
<1>1. StartInv => TypeOK
  BY DEF StartInv
<1> QED
  BY <1>1, StartInvariance, PTL

\* The last place is the one LastOf chooses.
LEMMA LatestArgument ==
  ASSUME ArgvInv, argn = Len(argv) + 1, NEW x
  PROVE  /\ Seen(x, argn) = At(Option(x))
         /\ \A v, default : Latest(x, argn, v) => v = Argument(Option(x), default)
         /\ \A default : Seen(x, argn) = {} => Argument(Option(x), default) = default
<1>1. Seen(x, argn) = At(Option(x)) /\ (\A i \in At(Option(x)) : i \in Int)
  BY DEF ArgvInv, Seen, At
<1>2. ASSUME NEW v, NEW default, Latest(x, argn, v) PROVE v = Argument(Option(x), default)
  <2>1. PICK i \in At(Option(x)) : (\A j \in At(Option(x)) : j <= i) /\ v = argv[i + 1]
    BY <1>1, <1>2 DEF Latest
  <2>2. /\ LastOf(At(Option(x))) \in At(Option(x))
        /\ \A j \in At(Option(x)) : j <= LastOf(At(Option(x)))
    BY <2>1 DEF LastOf
  <2>3. LastOf(At(Option(x))) = i
    BY <1>1, <2>1, <2>2
  <2> QED
    BY <2>1, <2>3 DEF Argument
<1> QED
  BY <1>1, <1>2 DEF Argument

\* However often and in whatever order the options come, the loop of main ends
\* with the last -c, -p and -l of the command line, and the file changes none.
THEOREM StartOptions == Spec => []OptionsRule
<1>1. StartInv => OptionsRule
  <2> SUFFICES ASSUME StartInv, Running PROVE OptionsRule
    BY DEF OptionsRule
  <2>1. ArgvInv /\ argn = Len(argv) + 1 /\ OptionInv
    BY DEF StartInv, LoopInv, Running
  <2>2. /\ options.config_file = Argument(Option("c"), DefaultFile)
        /\ options.pid_file = Argument(Option("p"), Empty)
    BY <2>1, LatestArgument DEF OptionInv, FileInv, PidInv, LastOr
  <2>3. options.daemonize <=> At(Option("f")) = {}
    BY <2>1, LatestArgument DEF OptionInv, ForegroundInv
  <2>4. At(Option("l")) # {} => logging_level = LevelWanted
    <3> SUFFICES ASSUME At(Option("l")) # {} PROVE logging_level = LevelWanted
      OBVIOUS
    <3>1. PICK text : Latest("l", argn, text) /\ logging_level = Level[str_to_lower(text)]
      BY <2>1, LatestArgument DEF OptionInv, LevelInv
    <3>2. text = Argument(Option("l"), Empty)
      BY <2>1, <3>1, LatestArgument
    <3> QED
      BY <3>1, <3>2 DEF LevelWanted
  <2> QED
    BY <2>2, <2>3, <2>4 DEF OptionsRule, FileWanted
<1> QED
  BY <1>1, StartInvariance, PTL
-----------------------------------------------------------------------------
(* The second invariant: what main has made of the words and the lines it  *)
(* has passed is what the rules say of them, and it has not given up on    *)
(* any that is right.                                                      *)

GoodWord(i) ==
  \/ argv[i] = Option("f")
  \/ /\ argv[i] \in WithArgument /\ i < Len(argv)
     /\ argv[i + 1] # Empty /\ ~ str_starts_with("-", argv[i + 1])
  \/ ~ str_starts_with("-", argv[i]) /\ i > 1 /\ argv[i - 1] \in WithArgument

WordInv ==
  /\ \A i \in 1 .. Len(argv) : i < argn => GoodWord(i)
  /\ argn > 1 => argv[argn - 1] \notin WithArgument
  /\ \A i \in Seen("l", argn) : str_to_lower(argv[i + 1]) \in DOMAIN Level
  /\ \A i \in Seen("L", argn) : Asked(argv[i + 1]) \subseteq Sinks
  /\ options.config_set <=> Seen("c", argn) # {}
  /\ options.log_sinks_set <=> Seen("L", argn) # {}

\* The lines of a key among those that are read.
Passed(key) == {i \in LinesOf(key) : i <= line_nr}

Taken(key, value) == IF key \in {"port", "threads"} THEN atoi(value) ELSE value

KeyInv(key) ==
  \/ Passed(key) = {} /\ config[key] = Defaults[key]
  \/ \E i \in Passed(key) :
       (\A j \in Passed(key) : j <= i) /\ config[key] = Taken(key, ValueAt(i))

SslInv ==
  /\ config["use_ssl"] \in BOOLEAN
  /\ config["use_ssl"] <=> \E i \in Passed("use_ssl") : SaysYes(ValueAt(i))

GoodLine(i) == Skipped(Line(i)) \/ \E key \in Keys : Sets(i, key)

FileFound == CanOpen(FileWanted) \/ (At(Option("c")) = {} /\ ~ file_exists(FileWanted))

ReadInv ==
  /\ line_nr \in 0 .. Len(Given)
  /\ FileFound
  /\ pc = "file" => CanOpen(FileWanted)
  /\ pc # "file" => line_nr = Len(Given)
  /\ \A i \in 1 .. line_nr : GoodLine(i)
  /\ config = [key \in Keys |-> config[key]]
  /\ \A key \in Keys \ {"use_ssl"} : KeyInv(key)
  /\ SslInv

UnreadInv == line_nr = 0 /\ config = Defaults

GoodLevel == At(Option("l")) = {} => FileValue("log_verbosity") \in DOMAIN Level \cup {Empty}

SinksGiven ==
  {s \in {"stdout", "syslog"} : \E i \in Seen("L", argn) : <<s>> \in Asked(argv[i + 1])}

LogInv ==
  /\ pc \in {"args", "file", "level"} =>
       (Seen("l", argn) = {} => logging_level = LOG_LEVEL_ERROR)
  /\ pc \in {"sinks", "log_start", "running"} => logging_level = LevelWanted /\ GoodLevel
  /\ pc \in {"args", "file", "level", "sinks"} => active_log_sinks = {"stdout"} \cup SinksGiven
  /\ pc \in {"log_start", "running"} =>
       /\ active_log_sinks = {"stdout"} \cup {s \in {"stdout", "syslog"} : <<s>> \in SinksWanted}
       /\ SinksWanted \subseteq Sinks

WholeInv ==
  /\ files \in FileSystems
  /\ pc # "exited" => WordInv /\ LogInv /\ exit_status = -1
  /\ pc = "args" => UnreadInv
  /\ pc \notin {"args", "exited"} => ReadInv
  /\ pc = "exited" => ~ (GoodCommand /\ GoodFile)

\* What only the command line and the files decide.
LEMMA InputsKept ==
  ASSUME UNCHANGED <<files, argv>>
  PROVE  /\ FileWanted' = FileWanted /\ Given' = Given /\ FileFound' = FileFound
         /\ (CanOpen(FileWanted))' = CanOpen(FileWanted)
         /\ \A i : GoodWord(i)' = GoodWord(i)
         /\ \A i : Line(i)' = Line(i) /\ GoodLine(i)' = GoodLine(i) /\ ValueAt(i)' = ValueAt(i)
         /\ \A key : LinesOf(key)' = LinesOf(key)
         /\ LevelWanted' = LevelWanted /\ SinksWanted' = SinksWanted /\ GoodLevel' = GoodLevel
         /\ (GoodCommand /\ GoodFile)' = (GoodCommand /\ GoodFile)
<1>1. \A option : At(option)' = At(option)
  BY DEF At
<1>2. \A option, default : Argument(option, default)' = Argument(option, default)
  BY <1>1 DEF Argument
<1>3. FileWanted' = FileWanted
  BY <1>2 DEF FileWanted
<1>4. \A path : CanOpen(path)' = CanOpen(path) /\ file_exists(path)' = file_exists(path)
  BY DEF CanOpen, file_exists
<1>5. Given' = Given
  BY <1>3, <1>4 DEF Given
<1>6. FileFound' = FileFound /\ (CanOpen(FileWanted))' = CanOpen(FileWanted)
  BY <1>1, <1>3, <1>4 DEF FileFound
<1>7. \A i : GoodWord(i)' = GoodWord(i)
  BY DEF GoodWord
<1>8. \A i : Line(i)' = Line(i)
  BY <1>5 DEF Line
<1>9. \A i, key : Sets(i, key)' = Sets(i, key)
  BY <1>8 DEF Sets
<1>10. \A i : ValueAt(i)' = ValueAt(i) /\ GoodLine(i)' = GoodLine(i)
  BY <1>8, <1>9 DEF ValueAt, GoodLine
<1>11. \A key : LinesOf(key)' = LinesOf(key)
  BY <1>5, <1>9 DEF LinesOf
<1>12. \A key : FileValue(key)' = FileValue(key)
  BY <1>10, <1>11 DEF FileValue
<1>13. LevelWanted' = LevelWanted /\ GoodLevel' = GoodLevel
  BY <1>1, <1>2, <1>12 DEF LevelWanted, GoodLevel
<1>14. SinksWanted' = SinksWanted
  BY <1>1, <1>12 DEF SinksWanted
<1>15. GoodCommand' = GoodCommand
  BY <1>1 DEF GoodCommand
<1>16. GoodFile' = GoodFile
  BY <1>1, <1>3, <1>4, <1>5, <1>8, <1>9, <1>12 DEF GoodFile
<1> QED
  BY <1>3, <1>5, <1>6, <1>7, <1>8, <1>10, <1>11, <1>13, <1>14, <1>15, <1>16

\* What the rules call good, in the invariant's words.
LEMMA GoodParts ==
  /\ GoodCommand <=>
       /\ \A i \in 1 .. Len(argv) : GoodWord(i)
       /\ \A i \in At(Option("l")) : str_to_lower(argv[i + 1]) \in DOMAIN Level
       /\ \A i \in At(Option("L")) : Asked(argv[i + 1]) \subseteq Sinks
  /\ GoodFile <=>
       /\ FileFound /\ (\A i \in 1 .. Len(Given) : GoodLine(i)) /\ GoodLevel
       /\ At(Option("L")) = {} /\ FileValue("log_sinks") # Empty
            => Asked(FileValue("log_sinks")) \subseteq Sinks
<1>1. GoodCommand <=>
        /\ \A i \in 1 .. Len(argv) : GoodWord(i)
        /\ \A i \in At(Option("l")) : str_to_lower(argv[i + 1]) \in DOMAIN Level
        /\ \A i \in At(Option("L")) : Asked(argv[i + 1]) \subseteq Sinks
  BY DEF GoodCommand, GoodWord
<1>2. GoodFile <=>
        /\ FileFound /\ (\A i \in 1 .. Len(Given) : GoodLine(i)) /\ GoodLevel
        /\ At(Option("L")) = {} /\ FileValue("log_sinks") # Empty
             => Asked(FileValue("log_sinks")) \subseteq Sinks
  BY Zenon DEF GoodFile, FileFound, GoodLine, GoodLevel
<1> QED
  BY <1>1, <1>2

-----------------------------------------------------------------------------
(* The lines of the file.                                                  *)

\* They are texts.
LEMMA GivenTyped ==
  ASSUME files \in FileSystems
  PROVE  /\ Given \in Seq(Seq(STRING)) /\ Len(Given) \in Nat
         /\ \A i \in 1 .. Len(Given) : Line(i) \in Seq(STRING)
<1>1. Given \in Seq(Seq(STRING))
  <2>1. CASE CanOpen(FileWanted)
    BY <2>1, TextAssumption DEF Given, CanOpen, file_exists
  <2>2. CASE ~ CanOpen(FileWanted)
    BY <2>2, EmptySeq DEF Given
  <2> QED
    BY <2>1, <2>2
<1>2. \A i \in 1 .. Len(Given) : Given[i] \in Seq(STRING)
  BY <1>1, ElementOfSeq
<1> QED
  BY <1>1, <1>2, LenProperties, TrimTyped DEF Line

\* The file reader accepts a line when the rules do, and finds in it the key and
\* the value that they find.
THEOREM LineRead ==
  ASSUME files \in FileSystems, NEW i \in 1 .. Len(Given)
  PROVE  /\ Valid(Line(i)) <=> GoodLine(i)
         /\ ~ Skipped(Line(i)) /\ Valid(Line(i)) =>
              \E name \in Keys :
                /\ KeyOf(Line(i)) = <<name>> /\ ValueOf(Line(i)) = ValueAt(i)
                /\ \A key : Sets(i, key) <=> key = name
         /\ Skipped(Line(i)) => \A key : ~ Sets(i, key)
<1> DEFINE line == Line(i)
<1>1. line \in Seq(STRING)
  BY GivenTyped
<1> DEFINE colon == Min(Colons(line))
           before == SubSeq(line, 1, colon - 1)
           behind == SubSeq(line, colon + 1, Len(line))
<1>2. /\ Colons(line) = {} => kvp(line) = <<SubSeq(line, 1, Len(line))>>
      /\ Colons(line) # {} => kvp(line) = <<before, behind>>
  BY <1>1, KvpCut
<1>3. \A key : Sets(i, key) <=>
        ~ Skipped(line) /\ Colons(line) # {} /\ str_to_lower(before) = <<key>>
  BY DEF Sets
<1>4. ValueAt(i) = str_trim(behind)
  BY DEF ValueAt
<1> HIDE DEF line, colon, before, behind
<1>5. CASE Colons(line) = {}
  <2>1. Len(kvp(line)) # 2
    BY <1>2, <1>5
  <2>2. Valid(line) <=> Skipped(line)
    BY <2>1 DEF Valid
  <2>3. \A key : ~ Sets(i, key)
    BY <1>3, <1>5
  <2> QED
    BY <2>2, <2>3 DEF GoodLine, line
<1>6. CASE Colons(line) # {}
  <2>1. Len(kvp(line)) = 2 /\ kvp(line)[1] = before /\ kvp(line)[2] = behind
    BY <1>2, <1>6
  <2>2. KeyOf(line) = str_to_lower(before) /\ ValueOf(line) = ValueAt(i)
    BY <1>4, <2>1 DEF KeyOf, ValueOf
  <2>3. \A key : Sets(i, key) <=> ~ Skipped(line) /\ KeyOf(line) = <<key>>
    BY <1>3, <1>6, <2>2
  <2>4. Valid(line) <=> Skipped(line) \/ \E name \in Keys : KeyOf(line) = <<name>>
    BY <2>1 DEF Valid
  <2>5. GoodLine(i) <=> Valid(line)
    BY <2>3, <2>4, Zenon DEF GoodLine, line
  <2>6. ASSUME ~ Skipped(line), Valid(line)
        PROVE  \E name \in Keys : /\ KeyOf(line) = <<name>> /\ ValueOf(line) = ValueAt(i)
                                  /\ \A key : Sets(i, key) <=> key = name
    <3>1. PICK name \in Keys : KeyOf(line) = <<name>>
      BY <2>4, <2>6
    <3>2. \A key : <<name>> = <<key>> <=> key = name
      OBVIOUS
    <3>3. \A key : Sets(i, key) <=> key = name
      BY <2>3, <2>6, <3>1, <3>2
    <3> QED
      BY <2>2, <3>1, <3>3
  <2> QED
    BY <2>3, <2>5, <2>6 DEF line
<1> QED
  BY <1>5, <1>6

\* So are their values.
LEMMA ValueTyped ==
  ASSUME files \in FileSystems, NEW key, NEW i \in LinesOf(key)
  PROVE  i \in 1 .. Len(Given) /\ ValueAt(i) \in Seq(STRING)
<1>1. i \in 1 .. Len(Given) /\ Sets(i, key)
  BY DEF LinesOf
<1>2. Line(i) \in Seq(STRING) /\ Colons(Line(i)) # {}
  BY <1>1, GivenTyped DEF Sets
<1> DEFINE line == Line(i)
           colon == Min(Colons(line))
<1>3. colon \in 1 .. Len(line) /\ Len(line) \in Nat
  BY <1>2, FirstColon, LenProperties
<1> HIDE DEF line, colon
<1>4. SubSeq(line, colon + 1, Len(line)) \in Seq(STRING)
  BY <1>2, <1>3, PartTyped DEF line
<1>5. str_trim(SubSeq(line, colon + 1, Len(line))) \in Seq(STRING)
  BY <1>4, TrimTyped
<1> QED
  BY <1>1, <1>5 DEF ValueAt, line, colon

-----------------------------------------------------------------------------
(* The steps over the file.                                                *)

\* The constructor's texts for logging are empty, and use_ssl is off.
LEMMA DefaultTexts ==
  /\ Defaults["log_verbosity"] = Empty /\ Defaults["log_sinks"] = Empty
  /\ Defaults["use_ssl"] = FALSE
  /\ Defaults = [key \in Keys |-> Defaults[key]]
<1>1. Defaults["log_verbosity"] = Empty
  BY DEF Defaults, Keys
<1>2. Defaults["log_sinks"] = Empty
  BY DEF Defaults, Keys
<1>3. Defaults["use_ssl"] = FALSE
  BY DEF Defaults, Keys
<1>4. Defaults = [key \in Keys |-> Defaults[key]]
  BY DEF Defaults
<1> QED
  BY <1>1, <1>2, <1>3, <1>4

\* Of the lines of a key one is the last.
LEMMA LastLine ==
  ASSUME files \in FileSystems, NEW key, LinesOf(key) # {}
  PROVE  LastOf(LinesOf(key)) \in LinesOf(key)
<1> DEFINE n == Len(Given)
           behind == {m \in Nat : \E i \in LinesOf(key) : m = n - i}
<1>1. n \in Nat /\ \A i \in LinesOf(key) : i \in 1 .. n
  BY GivenTyped DEF LinesOf
<1> HIDE DEF n
<1>2. behind \in SUBSET Nat /\ behind # {}
  BY <1>1
<1>3. PICK m \in behind : \A k \in behind : m <= k
  BY <1>2, LeastExists
<1>4. PICK last \in LinesOf(key) : m = n - last
  BY <1>3
<1>5. \A i \in LinesOf(key) : i <= last
  BY <1>1, <1>3, <1>4
<1> QED
  BY <1>5 DEF LastOf

\* When all lines are read a key has its last value or its default.
LEMMA KeyRead ==
  ASSUME files \in FileSystems, line_nr = Len(Given), NEW key, KeyInv(key)
  PROVE  config[key] = IF LinesOf(key) = {} THEN Defaults[key] ELSE Taken(key, FileValue(key))
<1>1. \A i \in LinesOf(key) : i \in 1 .. Len(Given)
  BY DEF LinesOf
<1>2. Passed(key) = LinesOf(key)
  BY <1>1, GivenTyped DEF Passed
<1>3. CASE LinesOf(key) = {}
  BY <1>2, <1>3 DEF KeyInv
<1>4. CASE LinesOf(key) # {}
  <2>1. PICK i \in LinesOf(key) :
          (\A j \in LinesOf(key) : j <= i) /\ config[key] = Taken(key, ValueAt(i))
    BY <1>2, <1>4 DEF KeyInv
  <2>2. /\ LastOf(LinesOf(key)) \in LinesOf(key)
        /\ \A j \in LinesOf(key) : j <= LastOf(LinesOf(key))
    BY <2>1 DEF LastOf
  <2>3. LastOf(LinesOf(key)) = i
    BY <1>1, <2>1, <2>2, GivenTyped
  <2> QED
    BY <1>4, <2>1, <2>3 DEF FileValue
<1> QED
  BY <1>3, <1>4

\* A text of the file as main finds it in the configuration.
LEMMA TextRead ==
  ASSUME files \in FileSystems, ReadInv, pc # "file", NEW key \in {"log_verbosity", "log_sinks"}
  PROVE  config[key] = FileValue(key) /\ FileValue(key) \in Seq(STRING)
<1>1. key \in Keys \ {"use_ssl"} /\ key \notin {"port", "threads"}
  BY DEF Keys
<1>2. KeyInv(key) /\ line_nr = Len(Given)
  BY <1>1 DEF ReadInv
<1>3. CASE LinesOf(key) = {}
  BY <1>2, <1>3, KeyRead, DefaultTexts, EmptySeq DEF FileValue, Empty
<1>4. CASE LinesOf(key) # {}
  <2>1. config[key] = FileValue(key)
    BY <1>1, <1>2, <1>4, KeyRead DEF Taken
  <2>2. PICK i \in LinesOf(key) : FileValue(key) = ValueAt(i)
    <3>1. PICK i \in Passed(key) : \A j \in Passed(key) : j <= i
      <4>1. Passed(key) = LinesOf(key)
        BY <1>2, GivenTyped DEF Passed, LinesOf
      <4> QED
        BY <1>2, <1>4, <4>1 DEF KeyInv
    <3>2. i \in LinesOf(key) /\ \A j \in LinesOf(key) : j <= i
      BY <1>2, <3>1, GivenTyped DEF Passed, LinesOf
    <3>3. LastOf(LinesOf(key)) \in LinesOf(key)
      BY <3>2 DEF LastOf
    <3> QED
      BY <1>4, <3>3 DEF FileValue
  <2> QED
    BY <2>1, <2>2, ValueTyped
<1> QED
  BY <1>3, <1>4

\* The next line is one more line of the key it sets, and of no other.
LEMMA NextPassed ==
  ASSUME files \in FileSystems, UNCHANGED <<files, argv>>,
         line_nr \in Nat, line_nr < Len(Given), line_nr' = line_nr + 1, NEW key
  PROVE  /\ Passed(key)' = IF Sets(line_nr + 1, key) THEN Passed(key) \cup {line_nr + 1}
                           ELSE Passed(key)
         /\ \A i \in Passed(key) : i <= line_nr /\ i \in Nat
<1>1. LinesOf(key)' = LinesOf(key) /\ \A i \in LinesOf(key) : i \in Nat
  BY InputsKept, GivenTyped DEF LinesOf
<1>2. line_nr + 1 \in LinesOf(key) <=> Sets(line_nr + 1, key)
  BY GivenTyped DEF LinesOf
<1>3. Passed(key)' = {i \in LinesOf(key) : i <= line_nr + 1}
  BY <1>1 DEF Passed
<1>4. \A i \in Nat : i <= line_nr + 1 <=> i <= line_nr \/ i = line_nr + 1
  OBVIOUS
<1> QED
  BY <1>1, <1>2, <1>3, <1>4 DEF Passed

\* The settings after the next line.
LEMMA NextSettings ==
  ASSUME files \in FileSystems, UNCHANGED <<files, argv>>,
         line_nr \in Nat, line_nr < Len(Given), line_nr' = line_nr + 1,
         config = [key \in Keys |-> config[key]], SslInv,
         \A key \in Keys \ {"use_ssl"} : KeyInv(key),
         Valid(Line(line_nr + 1)),
         config' = IF Skipped(Line(line_nr + 1)) THEN config
                   ELSE LET key == KeyOf(Line(line_nr + 1))[1]
                        IN  [config EXCEPT ![key] = Setting(@, key, ValueOf(Line(line_nr + 1)))]
  PROVE  /\ (config = [key \in Keys |-> config[key]])' /\ SslInv'
         /\ \A key \in Keys \ {"use_ssl"} : KeyInv(key)'
<1> DEFINE n == line_nr + 1
<1>1. n \in 1 .. Len(Given)
  BY GivenTyped
<1>2. /\ \A key : Passed(key)' = IF Sets(n, key) THEN Passed(key) \cup {n} ELSE Passed(key)
      /\ \A key : \A i \in Passed(key) : i <= n /\ i \in Nat
  BY NextPassed
<1>3. \A i : ValueAt(i)' = ValueAt(i)
  BY InputsKept
<1>4. n \in Nat
  OBVIOUS
<1> HIDE DEF n
<1>5. CASE Skipped(Line(n))
  <2>1. \A key : ~ Sets(n, key)
    BY <1>1, <1>5, LineRead
  <2>2. \A key : Passed(key)' = Passed(key)
    BY <1>2, <2>1
  <2>3. config' = config
    BY <1>5 DEF n
  <2>4. \A key \in Keys \ {"use_ssl"} : KeyInv(key)'
    BY <1>3, <2>2, <2>3 DEF KeyInv
  <2>5. SslInv'
    BY <1>3, <2>2, <2>3 DEF SslInv
  <2> QED
    BY <2>3, <2>4, <2>5
<1>6. CASE ~ Skipped(Line(n))
  <2>1. Valid(Line(n))
    BY DEF n
  <2>2. PICK name \in Keys : /\ KeyOf(Line(n)) = <<name>> /\ ValueOf(Line(n)) = ValueAt(n)
                             /\ \A key : Sets(n, key) <=> key = name
    BY <1>1, <1>6, <2>1, LineRead
  <2>3. config' = [config EXCEPT ![name] = Setting(config[name], name, ValueAt(n))]
    <3>1. KeyOf(Line(n))[1] = name
      BY <2>2
    <3> QED
      BY <1>6, <2>2, <3>1 DEF n
  <2>4. /\ \A key \in Keys :
             config'[key] = IF key = name THEN Setting(config[name], name, ValueAt(n))
                            ELSE config[key]
        /\ config' = [key \in Keys |-> config'[key]]
    BY <2>2, <2>3
  <2>5. ASSUME NEW key \in Keys \ {"use_ssl"} PROVE KeyInv(key)'
    <3>1. CASE key = name
      <4>1. config'[key] = Taken(key, ValueAt(n))
        BY <2>4, <2>5, <3>1 DEF Setting, Taken
      <4>2. n \in Passed(key)' /\ \A j \in Passed(key)' : j <= n
        BY <1>2, <1>4, <2>2, <3>1
      <4> QED
        BY <1>3, <4>1, <4>2 DEF KeyInv
    <3>2. CASE key # name
      <4>1. config'[key] = config[key] /\ Passed(key)' = Passed(key)
        BY <1>2, <2>2, <2>4, <2>5, <3>2
      <4>2. KeyInv(key)
        BY <2>5
      <4> QED
        BY <1>3, <4>1, <4>2 DEF KeyInv
    <3> QED
      BY <3>1, <3>2
  <2>6. SslInv'
    <3>1. "use_ssl" \in Keys
      BY DEF Keys
    <3>2. CASE name = "use_ssl"
      <4>1. config'["use_ssl"] = (config["use_ssl"] \/ SaysYes(ValueAt(n)))
        BY <2>4, <3>1, <3>2 DEF Setting, SaysYes
      <4>2. Passed("use_ssl")' = Passed("use_ssl") \cup {n}
        BY <1>2, <2>2, <3>2
      <4> QED
        BY <1>3, <4>1, <4>2 DEF SslInv
    <3>3. CASE name # "use_ssl"
      <4>1. config'["use_ssl"] = config["use_ssl"] /\ Passed("use_ssl")' = Passed("use_ssl")
        BY <1>2, <2>2, <2>4, <3>1, <3>3
      <4> QED
        BY <1>3, <4>1 DEF SslInv
    <3> QED
      BY <3>2, <3>3
  <2> QED
    BY <2>4, <2>5, <2>6
<1> QED
  BY <1>5, <1>6

-----------------------------------------------------------------------------
(* The steps over the command line.                                        *)

\* What an option that is read adds to what was seen.
LEMMA SeenNext ==
  ASSUME StartInv, NEW y \in Letters, NEW n \in {1, 2}, Passes(y, n)
  PROVE  /\ argn' = argn + n /\ argv' = argv /\ pc = "args" /\ pc' = "args"
         /\ argn \in Nat \ {0} /\ argn <= Len(argv) /\ Len(argv) \in Nat /\ argv[argn] = Option(y)
         /\ \A x \in Letters : Seen(x, argn)' = IF x = y THEN Seen(x, argn) \cup {argn}
                                                ELSE Seen(x, argn)
         /\ n = 2 => /\ argn < Len(argv) /\ next_opt = argv[argn + 1]
                     /\ next_opt # Empty /\ ~ str_starts_with("-", next_opt)
                     /\ \A x \in Letters : next_opt # Option(x)
<1>1. ArgvInv /\ InArgs /\ curr_opt = Option(y) /\ (n = 2 => HasArgument)
  BY DEF StartInv, Passes
<1>2. argn' = argn + n /\ pc' = "args" /\ argv' = argv
  BY <1>1, PastTyped DEF Passes
<1>3. \A x : Seen(x, argn)' = Seen(x, argn + n)
  BY <1>2 DEF Seen, At
<1>4. \A x \in Letters : Seen(x, argn)' = IF x = y THEN Seen(x, argn) \cup {argn} ELSE Seen(x, argn)
  BY <1>1, <1>3, SeenPast
<1>5. n = 2 => /\ argn < Len(argv) /\ next_opt = argv[argn + 1]
               /\ \A x \in Letters : next_opt # Option(x)
  BY <1>1, NextWord
<1>6. n = 2 => next_opt # Empty /\ ~ str_starts_with("-", next_opt)
  BY <1>1 DEF HasArgument
<1>7. /\ argn \in Nat \ {0} /\ argn <= Len(argv) /\ Len(argv) \in Nat /\ argv[argn] = Option(y)
      /\ pc = "args"
  BY <1>1 DEF ArgvInv, InArgs, curr_opt
<1> QED
  BY <1>2, <1>4, <1>5, <1>6, <1>7

\* An option that is read with a good argument leaves good words behind.
LEMMA PassWords ==
  ASSUME StartInv, WordInv, NEW y \in Letters, NEW n \in {1, 2}, Passes(y, n), n = 1 <=> y = "f",
         y = "l" => str_to_lower(next_opt) \in DOMAIN Level,
         y = "L" => Asked(next_opt) \subseteq Sinks,
         options'.config_set <=> options.config_set \/ y = "c",
         options'.log_sinks_set <=> options.log_sinks_set \/ y = "L"
  PROVE  WordInv'
<1> USE DEF Letters
<1>1. /\ argn' = argn + n /\ argv' = argv
      /\ argn \in Nat \ {0} /\ argn <= Len(argv) /\ Len(argv) \in Nat /\ argv[argn] = Option(y)
      /\ \A x \in Letters : Seen(x, argn)' = IF x = y THEN Seen(x, argn) \cup {argn}
                                             ELSE Seen(x, argn)
      /\ n = 2 => /\ argn < Len(argv) /\ next_opt = argv[argn + 1]
                  /\ next_opt # Empty /\ ~ str_starts_with("-", next_opt)
                  /\ \A x \in Letters : next_opt # Option(x)
  BY SeenNext
<1>2. y # "f" => Option(y) \in WithArgument
  BY DEF WithArgument
<1>3. \A w \in WithArgument : \E x \in Letters : w = Option(x) /\ x # "f"
  BY DEF WithArgument
<1>4. ASSUME NEW i \in 1 .. Len(argv), i < argn + n
      PROVE  GoodWord(i)'
  <2>1. GoodWord(i)' <=> GoodWord(i)
    BY <1>1 DEF GoodWord
  <2>2. CASE i < argn
    BY <2>1, <2>2 DEF WordInv
  <2>3. CASE i = argn
    <3>1. CASE y = "f"
      BY <1>1, <2>1, <2>3, <3>1 DEF GoodWord
    <3>2. CASE y # "f"
      BY <1>1, <1>2, <2>1, <2>3, <3>2 DEF GoodWord
    <3> QED
      BY <3>1, <3>2
  <2>4. CASE n = 2 /\ i = argn + 1
    <3>1. argv[i - 1] \in WithArgument /\ i > 1
      BY <1>1, <1>2, <2>4
    <3> QED
      BY <1>1, <2>1, <2>4, <3>1 DEF GoodWord
  <2> QED
    BY <1>1, <1>4, <2>2, <2>3, <2>4
<1>5. argv[argn + n - 1] \notin WithArgument
  <2>1. CASE n = 1
    <3>1. argv[argn + n - 1] = Option("f")
      BY <1>1, <2>1
    <3> QED
      BY <1>3, <3>1, OptionText
  <2>2. CASE n = 2
    <3>1. argv[argn + n - 1] = next_opt
      BY <1>1, <2>2
    <3> QED
      BY <1>1, <1>3, <2>2, <3>1
  <2> QED
    BY <2>1, <2>2
<1>6. \A i \in Seen("l", argn)' : str_to_lower(argv[i + 1]) \in DOMAIN Level
  <2>1. CASE y = "l"
    BY <1>1, <2>1 DEF WordInv
  <2>2. CASE y # "l"
    BY <1>1, <2>2 DEF WordInv
  <2> QED
    BY <2>1, <2>2
<1>7. \A i \in Seen("L", argn)' : Asked(argv[i + 1]) \subseteq Sinks
  <2>1. CASE y = "L"
    BY <1>1, <2>1 DEF WordInv
  <2>2. CASE y # "L"
    BY <1>1, <2>2 DEF WordInv
  <2> QED
    BY <2>1, <2>2
<1>8. options'.config_set <=> Seen("c", argn)' # {}
  BY <1>1 DEF WordInv
<1>9. options'.log_sinks_set <=> Seen("L", argn)' # {}
  BY <1>1 DEF WordInv
<1> QED
  BY <1>1, <1>4, <1>5, <1>6, <1>7, <1>8, <1>9 DEF WordInv

\* The sinks that a list adds.
SinksAdded(y) ==
  IF y = "L" THEN {s \in {"stdout", "syslog"} : <<s>> \in Asked(next_opt)} ELSE {}

\* It adds its sinks, if it is -L, and leaves the file alone.
LEMMA PassWhole ==
  ASSUME StartInv, WholeInv, NEW y \in Letters, NEW n \in {1, 2}, Passes(y, n),
         n = 1 <=> y = "f",
         y = "l" => str_to_lower(next_opt) \in DOMAIN Level,
         y = "L" => Asked(next_opt) \subseteq Sinks,
         options'.config_set <=> options.config_set \/ y = "c",
         options'.log_sinks_set <=> options.log_sinks_set \/ y = "L",
         y # "l" => UNCHANGED logging_level,
         active_log_sinks' = active_log_sinks \cup SinksAdded(y)
  PROVE  WholeInv'
<1> USE DEF Letters
<1>1. /\ argn' = argn + n /\ argv' = argv /\ pc = "args" /\ pc' = "args"
      /\ argv[argn] = Option(y)
      /\ \A x \in Letters : Seen(x, argn)' = IF x = y THEN Seen(x, argn) \cup {argn}
                                             ELSE Seen(x, argn)
      /\ n = 2 => next_opt = argv[argn + 1]
  BY SeenNext
<1>2. WordInv /\ LogInv /\ UnreadInv /\ exit_status = -1 /\ files \in FileSystems
  BY <1>1 DEF WholeInv
<1>3. WordInv'
  BY <1>2, PassWords
<1>4. UNCHANGED <<files, config, line_nr, exit_status>>
  BY PassStep DEF Passes
<1>5. UnreadInv'
  BY <1>2, <1>4 DEF UnreadInv, Defaults
<1>6. Seen("l", argn)' = {} => logging_level' = LOG_LEVEL_ERROR
  <2>1. CASE y = "l"
    BY <1>1, <2>1
  <2>2. CASE y # "l"
    BY <1>1, <1>2, <2>2 DEF LogInv
  <2> QED
    BY <2>1, <2>2
<1>7. active_log_sinks' = {"stdout"} \cup SinksGiven'
  <2>1. active_log_sinks = {"stdout"} \cup SinksGiven
    BY <1>1, <1>2 DEF LogInv
  <2>2. SinksGiven' = {s \in {"stdout", "syslog"} :
                         \E i \in Seen("L", argn)' : <<s>> \in Asked(argv[i + 1])}
    BY <1>1 DEF SinksGiven
  <2>3. SinksGiven' = SinksGiven \cup SinksAdded(y)
    <3>1. CASE y = "L"
      BY <1>1, <2>2, <3>1 DEF SinksGiven, SinksAdded
    <3>2. CASE y # "L"
      BY <1>1, <2>2, <3>2 DEF SinksGiven, SinksAdded
    <3> QED
      BY <3>1, <3>2
  <2> QED
    BY <2>1, <2>3
<1>8. LogInv'
  BY <1>1, <1>6, <1>7 DEF LogInv
<1> QED
  BY <1>1, <1>2, <1>3, <1>4, <1>5, <1>8 DEF WholeInv

\* A word of the command line that is an argument is a text.
LEMMA ArgumentTyped ==
  ASSUME StartInv, NEW i \in 1 .. Len(argv)
  PROVE  argv[i] \in Seq(STRING)
BY DEF StartInv, ArgvInv

LEMMA OptionWhole ==
  ASSUME StartInv, WholeInv,
         OptionForeground \/ OptionLevel \/ OptionSinks \/ OptionConfig \/ OptionPidFile
  PROVE  WholeInv'
<1> USE DEF Letters
<1>1. options \in Options
  BY DEF StartInv, LoopInv
<1>2. CASE OptionForeground
  <2>1. Passes("f", 1) /\ options' = [options EXCEPT !.daemonize = FALSE] /\ UNCHANGED logging
    BY <1>2 DEF Passes, OptionForeground
  <2>2. options'.config_set = options.config_set /\ options'.log_sinks_set = options.log_sinks_set
    BY <1>1, <2>1 DEF Options
  <2> QED
    BY <2>1, <2>2, PassWhole DEF SinksAdded, logging
<1>3. CASE OptionLevel
  <2>1. /\ Passes("l", 2) /\ options' = [options EXCEPT !.log_level_set = TRUE]
        /\ UNCHANGED active_log_sinks /\ str_to_lower(next_opt) \in DOMAIN Level
    BY <1>3 DEF Passes, OptionLevel, parse_log_level
  <2>2. options'.config_set = options.config_set /\ options'.log_sinks_set = options.log_sinks_set
    BY <1>1, <2>1 DEF Options
  <2> QED
    BY <2>1, <2>2, PassWhole DEF SinksAdded
<1>4. CASE OptionSinks
  <2>1. /\ Passes("L", 2) /\ options' = [options EXCEPT !.log_sinks_set = TRUE]
        /\ UNCHANGED logging_level
        /\ AllNamed(Listed(next_opt)) /\ parse_log_sinks(Listed(next_opt))
    BY <1>4, Zenon DEF Passes, OptionSinks, Listed, Comma
  <2>2. options'.config_set = options.config_set /\ options'.log_sinks_set = TRUE
    BY <1>1, <2>1 DEF Options
  <2>3. next_opt \in Seq(STRING)
    BY <2>1, SeenNext, ArgumentTyped
  <2>4. /\ Asked(next_opt) \subseteq Sinks
        /\ SinksNamed(Listed(next_opt))
             = {name \in {"none", "stdout", "syslog"} : <<name>> \in Asked(next_opt)}
    BY <2>1, <2>3, SinksAsked
  <2>5. active_log_sinks' = active_log_sinks \cup SinksAdded("L")
    BY <2>1, <2>4 DEF parse_log_sinks, SinksAdded
  <2> QED
    BY <2>1, <2>2, <2>4, <2>5, PassWhole
<1>5. CASE OptionConfig
  <2>1. /\ Passes("c", 2) /\ UNCHANGED logging
        /\ options' = [options EXCEPT !.config_file = next_opt, !.config_set = TRUE]
    BY <1>5 DEF Passes, OptionConfig
  <2>2. options'.config_set = TRUE /\ options'.log_sinks_set = options.log_sinks_set
    BY <1>1, <2>1 DEF Options
  <2> QED
    BY <2>1, <2>2, PassWhole DEF SinksAdded, logging
<1>6. CASE OptionPidFile
  <2>1. /\ Passes("p", 2) /\ UNCHANGED logging
        /\ options' = [options EXCEPT !.pid_file = next_opt]
    BY <1>6 DEF Passes, OptionPidFile
  <2>2. options'.config_set = options.config_set /\ options'.log_sinks_set = options.log_sinks_set
    BY <1>1, <2>1 DEF Options
  <2> QED
    BY <2>1, <2>2, PassWhole DEF SinksAdded, logging
<1> QED
  BY <1>2, <1>3, <1>4, <1>5, <1>6

\* main only gives up on an option when the command line is wrong.
LEMMA FailsWhole ==
  ASSUME StartInv, WholeInv, OptionFails
  PROVE  WholeInv'
<1>1. /\ InArgs /\ pc = "args" /\ pc' = "exited" /\ UNCHANGED <<files, argv>>
      /\ \/ curr_opt \notin {Option("f")} \cup WithArgument
         \/ curr_opt \in WithArgument /\ ~ HasArgument
         \/ curr_opt = Option("l") /\ HasArgument /\ str_to_lower(next_opt) \notin DOMAIN Level
         \/ curr_opt = Option("L") /\ HasArgument /\ ~ AllNamed(Listed(next_opt))
  BY Zenon DEF OptionFails, InArgs, Fail, Listed, Comma
<1>2. WordInv /\ files \in FileSystems
  BY <1>1 DEF WholeInv
<1>3. argn \in 1 .. Len(argv) /\ argn \in Nat /\ Len(argv) \in Nat /\ curr_opt = argv[argn]
  BY <1>1 DEF StartInv, ArgvInv, InArgs, curr_opt
<1>4. HasArgument => argn + 1 \in 1 .. Len(argv) /\ next_opt = argv[argn + 1]
  BY <1>3 DEF HasArgument, next_opt
<1>5. /\ Option("f") \notin WithArgument
      /\ \A w \in WithArgument : w # Empty /\ str_starts_with("-", w)
  BY OptionText DEF WithArgument, Letters, str_starts_with
<1>6. ~ GoodCommand
  <2>1. CASE curr_opt \notin {Option("f")} \cup WithArgument
    <3>1. ~ GoodWord(argn)
      BY <1>2, <1>3, <2>1 DEF GoodWord, WordInv
    <3> QED
      BY <1>3, <3>1, GoodParts
  <2>2. CASE curr_opt \in WithArgument /\ ~ HasArgument
    <3>1. argn < Len(argv) => argv[argn + 1] = Empty \/ str_starts_with("-", argv[argn + 1])
      BY <1>3, <2>2 DEF HasArgument, next_opt
    <3>2. ~ GoodWord(argn)
      BY <1>3, <1>5, <2>2, <3>1 DEF GoodWord
    <3> QED
      BY <1>3, <3>2, GoodParts
  <2>3. CASE curr_opt = Option("l") /\ HasArgument /\ str_to_lower(next_opt) \notin DOMAIN Level
    <3>1. argn \in At(Option("l"))
      BY <1>3, <2>3 DEF At
    <3> QED
      BY <1>4, <2>3, <3>1, GoodParts
  <2>4. CASE curr_opt = Option("L") /\ HasArgument /\ ~ AllNamed(Listed(next_opt))
    <3>1. argn \in At(Option("L"))
      BY <1>3, <2>4 DEF At
    <3>2. next_opt \in Seq(STRING)
      BY <1>4, <2>4, ArgumentTyped
    <3>3. ~ (Asked(next_opt) \subseteq Sinks)
      BY <2>4, <3>2, SinksAsked
    <3> QED
      BY <1>4, <2>4, <3>1, <3>3, GoodParts
  <2> QED
    BY <1>1, <2>1, <2>2, <2>3, <2>4
<1>7. (~ (GoodCommand /\ GoodFile))'
  BY <1>1, <1>6, InputsKept
<1> QED
  BY <1>1, <1>2, <1>7 DEF WholeInv

-----------------------------------------------------------------------------
(* The steps behind the command line.                                      *)

LEMMA WordsKept ==
  ASSUME WordInv, UNCHANGED <<files, argv, argn, options>>
  PROVE  WordInv'
<1>1. \A i : GoodWord(i)' = GoodWord(i)
  BY InputsKept
<1>2. \A x : Seen(x, argn)' = Seen(x, argn)
  BY SameWords
<1> QED
  BY <1>1, <1>2 DEF WordInv

\* Behind the loop the words are all seen.
LEMMA AllSeen ==
  ASSUME StartInv, WordInv, pc # "exited", argn = Len(argv) + 1
  PROVE  /\ GoodCommand /\ options.config_file = FileWanted
         /\ \A x : Seen(x, argn) = At(Option(x))
         /\ options.config_set <=> At(Option("c")) # {}
         /\ options.log_level_set <=> At(Option("l")) # {}
         /\ options.log_sinks_set <=> At(Option("L")) # {}
         /\ At(Option("l")) # {} => logging_level = LevelWanted
         /\ \A i \in At(Option("L")) : Asked(argv[i + 1]) \subseteq Sinks
<1>1. ArgvInv /\ OptionInv
  BY DEF StartInv, LoopInv
<1>2. \A x : Seen(x, argn) = At(Option(x))
  BY <1>1, LatestArgument
<1>3. /\ options.config_set <=> At(Option("c")) # {}
      /\ options.log_level_set <=> At(Option("l")) # {}
      /\ options.log_sinks_set <=> At(Option("L")) # {}
      /\ \A i \in At(Option("L")) : Asked(argv[i + 1]) \subseteq Sinks
      /\ \A i \in At(Option("l")) : str_to_lower(argv[i + 1]) \in DOMAIN Level
  BY <1>1, <1>2 DEF WordInv, OptionInv, LevelInv
<1>4. options.config_file = FileWanted
  BY <1>1, LatestArgument DEF OptionInv, FileInv, LastOr, FileWanted
<1>5. ASSUME At(Option("l")) # {} PROVE logging_level = LevelWanted
  <2>1. PICK text : Latest("l", argn, text) /\ logging_level = Level[str_to_lower(text)]
    BY <1>1, <1>2, <1>5 DEF OptionInv, LevelInv
  <2>2. text = Argument(Option("l"), Empty)
    BY <1>1, <2>1, LatestArgument
  <2> QED
    BY <1>5, <2>1, <2>2 DEF LevelWanted
<1>6. \A i \in 1 .. Len(argv) : GoodWord(i)
  BY <1>1 DEF WordInv, ArgvInv
<1>7. GoodCommand
  BY <1>3, <1>6, GoodParts
<1> QED
  BY <1>2, <1>3, <1>4, <1>5, <1>7

\* Nor are lines or settings taken back.
LEMMA SettingsKept ==
  ASSUME UNCHANGED <<files, argv, line_nr, config>>
  PROVE  /\ \A key : KeyInv(key) => KeyInv(key)'
         /\ SslInv => SslInv'
<1>1. /\ \A i : ValueAt(i)' = ValueAt(i)
      /\ \A key : LinesOf(key)' = LinesOf(key)
  BY InputsKept
<1>2. \A key : Passed(key)' = Passed(key)
  BY <1>1 DEF Passed
<1>3. ASSUME NEW key, KeyInv(key) PROVE KeyInv(key)'
  <2>1. Defaults' = Defaults /\ config' = config
    BY DEF Defaults
  <2>2. CASE Passed(key) = {} /\ config[key] = Defaults[key]
    BY <1>2, <2>1, <2>2 DEF KeyInv
  <2>3. CASE \E i \in Passed(key) :
               (\A j \in Passed(key) : j <= i) /\ config[key] = Taken(key, ValueAt(i))
    <3>1. PICK i \in Passed(key) :
            (\A j \in Passed(key) : j <= i) /\ config[key] = Taken(key, ValueAt(i))
      BY <2>3
    <3>2. i \in Passed(key)' /\ \A j \in Passed(key)' : j <= i
      BY <1>2, <3>1
    <3>3. config'[key] = Taken(key, ValueAt(i)')
      BY <1>1, <2>1, <3>1
    <3> QED
      BY <3>2, <3>3 DEF KeyInv
  <2> QED
    BY <1>3, <2>2, <2>3 DEF KeyInv
<1>4. SslInv' = SslInv
  BY <1>1, <1>2 DEF SslInv
<1> QED
  BY <1>3, <1>4

LEMMA ReadKept ==
  ASSUME ReadInv, UNCHANGED <<files, argv, line_nr, config>>,
         pc' # "file", line_nr = Len(Given)
  PROVE  ReadInv'
<1>1. /\ Given' = Given /\ FileFound' = FileFound
      /\ \A i : GoodLine(i)' = GoodLine(i)
  BY InputsKept
<1> QED
  BY <1>1, SettingsKept DEF ReadInv

\* Before the file is read no line is passed.
LEMMA Unread ==
  ASSUME files \in FileSystems, UnreadInv, UNCHANGED <<files, argv, line_nr, config>>,
         FileFound, pc' = "file" => CanOpen(FileWanted), pc' # "file" => Given = <<>>
  PROVE  ReadInv'
<1>1. /\ Given' = Given /\ FileFound' = FileFound /\ (CanOpen(FileWanted))' = CanOpen(FileWanted)
      /\ \A key : LinesOf(key)' = LinesOf(key)
  BY InputsKept
<1>2. line_nr' = 0 /\ config' = Defaults
  BY DEF UnreadInv, Defaults
<1>3. \A key : Passed(key)' = {}
  BY <1>1, <1>2, GivenTyped DEF Passed, LinesOf
<1>4. \A key : KeyInv(key)'
  <2>1. config' = Defaults'
    BY <1>2 DEF Defaults
  <2> QED
    BY <1>3, <2>1 DEF KeyInv
<1>5. SslInv'
  BY <1>2, <1>3, DefaultTexts DEF SslInv
<1>6. (config = [key \in Keys |-> config[key]])'
  BY <1>2, DefaultTexts
<1>7. Len(Given) \in Nat /\ (pc' # "file" => Len(Given) = 0)
  BY GivenTyped, EmptySeq
<1>8. (line_nr \in 0 .. Len(Given))' /\ (pc' # "file" => line_nr' = Len(Given)')
  BY <1>1, <1>2, <1>7
<1>9. (\A i \in 1 .. line_nr : GoodLine(i))'
  BY <1>2
<1> QED
  BY <1>1, <1>4, <1>5, <1>6, <1>8, <1>9 DEF ReadInv

\* Nothing is asked of a file that is not there.
LEMMA NothingGiven ==
  ASSUME Given = <<>>
  PROVE  \A key : FileValue(key) = Empty
<1>1. Len(Given) = 0
  BY EmptySeq
<1> QED
  BY <1>1 DEF FileValue, LinesOf

\* The words of the -L options as bits.
LEMMA SinksOfWords ==
  ASSUME \A x : Seen(x, argn) = At(Option(x)), At(Option("L")) # {},
         \A i \in At(Option("L")) : Asked(argv[i + 1]) \subseteq Sinks
  PROVE  /\ SinksGiven = {s \in {"stdout", "syslog"} : <<s>> \in SinksWanted}
         /\ SinksWanted \subseteq Sinks
<1>1. SinksWanted = UNION {Asked(argv[i + 1]) : i \in At(Option("L"))}
  BY DEF SinksWanted
<1>2. \A name : name \in SinksWanted <=> \E i \in At(Option("L")) : name \in Asked(argv[i + 1])
  BY <1>1
<1> QED
  BY <1>2 DEF SinksGiven

\* The end of the options: the file is there, is needed but cannot be opened, or
\* is not needed.
LEMMA ArgsEndWhole ==
  ASSUME StartInv, WholeInv, ArgsEnd
  PROVE  WholeInv'
<1>1. /\ pc = "args" /\ argn > Len(argv)
      /\ UNCHANGED <<files, argv, argn, logging_level, active_log_sinks, options, line_nr, config>>
  BY DEF ArgsEnd, logging
<1>2. WordInv /\ LogInv /\ UnreadInv /\ exit_status = -1 /\ files \in FileSystems
  BY <1>1 DEF WholeInv
<1>3. argn = Len(argv) + 1
  BY <1>1 DEF StartInv, ArgvInv
<1>4. /\ options.config_file = FileWanted
      /\ \A x : Seen(x, argn) = At(Option(x))
      /\ options.config_set <=> At(Option("c")) # {}
      /\ At(Option("l")) # {} => logging_level = LevelWanted
      /\ \A i \in At(Option("L")) : Asked(argv[i + 1]) \subseteq Sinks
  BY <1>1, <1>2, <1>3, AllSeen
<1>5. WordInv'
  BY <1>1, <1>2, WordsKept
<1>6. \A x : Seen(x, argn)' = Seen(x, argn)
  BY <1>1, SameWords
<1>7. SinksGiven' = SinksGiven
  BY <1>1, <1>6 DEF SinksGiven
<1>8. CASE CanOpen(options.config_file) /\ GoOn("file")
  <2>1. pc' = "file" /\ exit_status' = -1
    BY <1>2, <1>8 DEF GoOn
  <2>2. FileFound
    BY <1>4, <1>8 DEF FileFound
  <2>3. ReadInv'
    BY <1>1, <1>2, <1>4, <1>8, <2>1, <2>2, Unread
  <2>4. LogInv'
    BY <1>1, <1>2, <1>6, <1>7, <2>1 DEF LogInv
  <2> QED
    BY <1>1, <1>2, <1>5, <2>1, <2>3, <2>4 DEF WholeInv
<1>9. CASE /\ options.config_set \/ file_exists(options.config_file)
           /\ ~ CanOpen(options.config_file)
           /\ Fail
  <2>1. ~ FileFound
    BY <1>4, <1>9 DEF FileFound
  <2>2. ~ GoodFile
    BY <2>1, GoodParts
  <2>3. (~ (GoodCommand /\ GoodFile))'
    BY <1>1, <2>2, InputsKept
  <2>4. pc' = "exited"
    BY <1>9 DEF Fail
  <2> QED
    BY <1>1, <1>2, <2>3, <2>4 DEF WholeInv
<1>10. CASE ~ options.config_set /\ ~ file_exists(options.config_file) /\ GoOn("log_start")
  <2>1. pc' = "log_start" /\ exit_status' = -1
    BY <1>2, <1>10 DEF GoOn
  <2>2. FileFound /\ Given = <<>>
    BY <1>4, <1>10 DEF FileFound, Given, CanOpen
  <2>3. ReadInv'
    BY <1>1, <1>2, <2>1, <2>2, Unread
  <2>4. \A key : FileValue(key) = Empty
    BY <2>2, NothingGiven
  <2>5. logging_level = LevelWanted /\ GoodLevel
    <3>1. At(Option("l")) = {} => logging_level = LOG_LEVEL_ERROR
      BY <1>1, <1>2, <1>4 DEF LogInv
    <3> QED
      BY <1>4, <2>4, <3>1 DEF LevelWanted, GoodLevel
  <2>6. /\ active_log_sinks = {"stdout"} \cup {s \in {"stdout", "syslog"} : <<s>> \in SinksWanted}
        /\ SinksWanted \subseteq Sinks
    <3>1. active_log_sinks = {"stdout"} \cup SinksGiven
      BY <1>1, <1>2 DEF LogInv
    <3>2. CASE At(Option("L")) # {}
      BY <1>4, <3>1, <3>2, SinksOfWords
    <3>3. CASE At(Option("L")) = {}
      <4>1. SinksWanted = {}
        BY <2>4, <3>3 DEF SinksWanted
      <4>2. SinksGiven = {}
        BY <1>4, <3>3 DEF SinksGiven
      <4> QED
        BY <3>1, <4>1, <4>2
    <3> QED
      BY <3>2, <3>3
  <2>7. LevelWanted' = LevelWanted /\ GoodLevel' = GoodLevel /\ SinksWanted' = SinksWanted
    BY <1>1, InputsKept
  <2>8. LogInv'
    BY <1>1, <2>1, <2>5, <2>6, <2>7 DEF LogInv
  <2> QED
    BY <1>1, <1>2, <1>5, <2>1, <2>3, <2>8 DEF WholeInv
<1> QED
  BY <1>8, <1>9, <1>10 DEF ArgsEnd

\* A line, and the end of the file.
LEMMA ReadLineWhole ==
  ASSUME StartInv, WholeInv, ReadLine \/ ReadLineFails \/ FileEnd
  PROVE  WholeInv'
<1>1. pc = "file" /\ UNCHANGED <<files, argv, argn, logging_level, active_log_sinks, options>>
  BY DEF ReadLine, ReadLineFails, FileEnd, logging
<1>2. WordInv /\ LogInv /\ ReadInv /\ exit_status = -1 /\ files \in FileSystems
  BY <1>1 DEF WholeInv
<1>3. argn = Len(argv) + 1
  BY <1>1 DEF StartInv, LoopInv
<1>4. options.config_file = FileWanted
  BY <1>1, <1>2, <1>3, AllSeen
<1>5. Lines = Given /\ FileFound /\ line_nr \in 0 .. Len(Given) /\ Len(Given) \in Nat
  BY <1>1, <1>2, <1>4, GivenTyped DEF Lines, Given, ReadInv
<1>6. line_nr < Len(Lines) => CurrentLine = Line(line_nr + 1) /\ line_nr + 1 \in 1 .. Len(Given)
  BY <1>5 DEF CurrentLine, Line
<1>7. WordInv'
  BY <1>1, <1>2, WordsKept
<1>8. pc' \in {"file", "level"} => LogInv'
  <2>1. \A x : Seen(x, argn)' = Seen(x, argn)
    BY <1>1, SameWords
  <2>2. SinksGiven' = SinksGiven
    BY <1>1, <2>1 DEF SinksGiven
  <2> QED
    BY <1>1, <1>2, <2>1, <2>2 DEF LogInv
<1>9. CASE ReadLine
  <2>1. /\ line_nr < Len(Given) /\ line_nr' = line_nr + 1 /\ UNCHANGED <<pc, exit_status>>
        /\ Valid(Line(line_nr + 1))
        /\ config' = IF Skipped(Line(line_nr + 1)) THEN config
                     ELSE LET key == KeyOf(Line(line_nr + 1))[1]
                          IN  [config EXCEPT ![key] =
                                 Setting(@, key, ValueOf(Line(line_nr + 1)))]
    BY <1>5, <1>6, <1>9 DEF ReadLine
  <2>2. /\ config = [key \in Keys |-> config[key]] /\ SslInv /\ line_nr \in Nat
        /\ \A key \in Keys \ {"use_ssl"} : KeyInv(key)
    BY <1>2, <1>5 DEF ReadInv
  <2>3. /\ (config = [key \in Keys |-> config[key]])' /\ SslInv'
        /\ \A key \in Keys \ {"use_ssl"} : KeyInv(key)'
    BY <1>1, <1>2, <2>1, <2>2, NextSettings
  <2>4. GoodLine(line_nr + 1)
    BY <1>2, <1>5, <1>6, <2>1, LineRead
  <2>5. /\ Given' = Given /\ FileFound' = FileFound
        /\ (CanOpen(FileWanted))' = CanOpen(FileWanted)
        /\ \A i : GoodLine(i)' = GoodLine(i)
    BY <1>1, InputsKept
  <2>6. (\A i \in 1 .. line_nr : GoodLine(i))'
    <3>1. \A i \in 1 .. line_nr + 1 : i \in 1 .. line_nr \/ i = line_nr + 1
      BY <2>2
    <3>2. \A i \in 1 .. line_nr + 1 : GoodLine(i)
      BY <1>2, <2>4, <3>1 DEF ReadInv
    <3> QED
      BY <2>1, <2>5, <3>2
  <2>7. (line_nr \in 0 .. Len(Given))'
    BY <1>5, <2>1, <2>5
  <2>8. ReadInv'
    BY <1>1, <1>2, <2>1, <2>3, <2>5, <2>6, <2>7 DEF ReadInv
  <2> QED
    BY <1>1, <1>2, <1>7, <1>8, <2>1, <2>8 DEF WholeInv
<1>10. CASE ReadLineFails
  <2>1. line_nr < Len(Given) /\ pc' = "exited" /\ ~ Valid(Line(line_nr + 1))
    BY <1>5, <1>6, <1>10 DEF ReadLineFails, Fail
  <2>2. ~ GoodLine(line_nr + 1)
    BY <1>2, <1>5, <1>6, <2>1, LineRead
  <2>3. ~ GoodFile
    BY <1>5, <1>6, <2>1, <2>2, GoodParts
  <2>4. (~ (GoodCommand /\ GoodFile))'
    BY <1>1, <2>3, InputsKept
  <2> QED
    BY <1>1, <1>2, <2>1, <2>4 DEF WholeInv
<1>11. CASE FileEnd
  <2>1. /\ line_nr = Len(Given) /\ pc' = "level" /\ UNCHANGED <<exit_status, line_nr, config>>
    BY <1>5, <1>11 DEF FileEnd, GoOn
  <2>2. ReadInv'
    BY <1>1, <1>2, <2>1, ReadKept
  <2> QED
    BY <1>1, <1>2, <1>7, <1>8, <2>1, <2>2 DEF WholeInv
<1> QED
  BY <1>9, <1>10, <1>11

\* What the file says of the level counts when no -l was given.
LEMMA ApplyLevelWhole ==
  ASSUME StartInv, WholeInv, ApplyLevel
  PROVE  WholeInv'
<1>1. /\ pc = "level"
      /\ UNCHANGED <<files, argv, argn, active_log_sinks, options, line_nr, config>>
  BY DEF ApplyLevel
<1>2. WordInv /\ LogInv /\ ReadInv /\ exit_status = -1 /\ files \in FileSystems
  BY <1>1 DEF WholeInv
<1>3. argn = Len(argv) + 1
  BY <1>1 DEF StartInv, LoopInv
<1>4. /\ options.log_level_set <=> At(Option("l")) # {}
      /\ At(Option("l")) # {} => logging_level = LevelWanted
      /\ \A x : Seen(x, argn) = At(Option(x))
  BY <1>1, <1>2, <1>3, AllSeen
<1>5. config["log_verbosity"] = FileValue("log_verbosity")
  BY <1>1, <1>2, TextRead
<1>6. At(Option("l")) = {} => logging_level = LOG_LEVEL_ERROR
  BY <1>1, <1>2, <1>4 DEF LogInv
<1>7. \/ /\ pc' = "sinks" /\ exit_status' = -1 /\ logging_level' = LevelWanted /\ GoodLevel
      \/ pc' = "exited" /\ ~ GoodLevel
  <2>1. CASE options.log_level_set
    BY <1>2, <1>4, <2>1, Zenon DEF ApplyLevel, GoOn, GoodLevel
  <2>2. CASE ~ options.log_level_set /\ FileValue("log_verbosity") = Empty
    <3>1. UNCHANGED logging_level /\ GoOn("sinks")
      BY <1>5, <2>2, Zenon DEF ApplyLevel
    <3>2. logging_level = LevelWanted /\ GoodLevel
      BY <1>4, <1>6, <2>2 DEF LevelWanted, GoodLevel
    <3> QED
      BY <1>2, <3>1, <3>2 DEF GoOn
  <2>3. CASE ~ options.log_level_set /\ FileValue("log_verbosity") # Empty
    <3>1. \/ parse_log_level(FileValue("log_verbosity")) /\ GoOn("sinks")
          \/ FileValue("log_verbosity") \notin DOMAIN Level /\ Fail
      BY <1>5, <2>3, Zenon DEF ApplyLevel
    <3>2. CASE parse_log_level(FileValue("log_verbosity")) /\ GoOn("sinks")
      BY <1>2, <1>4, <2>3, <3>2 DEF parse_log_level, GoOn, LevelWanted, GoodLevel
    <3>3. CASE FileValue("log_verbosity") \notin DOMAIN Level /\ Fail
      BY <1>4, <2>3, <3>3 DEF Fail, GoodLevel
    <3> QED
      BY <3>1, <3>2, <3>3
  <2> QED
    BY <2>1, <2>2, <2>3
<1>8. LevelWanted' = LevelWanted /\ GoodLevel' = GoodLevel
  BY <1>1, InputsKept
<1>9. CASE pc' = "sinks" /\ exit_status' = -1 /\ logging_level' = LevelWanted /\ GoodLevel
  <2>1. WordInv'
    BY <1>1, <1>2, WordsKept
  <2>2. SinksGiven' = SinksGiven
    <3>1. \A x : Seen(x, argn)' = Seen(x, argn)
      BY <1>1, SameWords
    <3> QED
      BY <1>1, <3>1 DEF SinksGiven
  <2>3. LogInv'
    BY <1>1, <1>2, <1>8, <1>9, <2>2 DEF LogInv
  <2>4. ReadInv'
    <3>1. line_nr = Len(Given)
      BY <1>1, <1>2 DEF ReadInv
    <3> QED
      BY <1>1, <1>2, <1>9, <3>1, ReadKept
  <2> QED
    BY <1>1, <1>2, <1>9, <2>1, <2>3, <2>4 DEF WholeInv
<1>10. CASE pc' = "exited" /\ ~ GoodLevel
  <2>1. ~ GoodFile
    BY <1>10, GoodParts
  <2>2. (~ (GoodCommand /\ GoodFile))'
    BY <1>1, <2>1, InputsKept
  <2> QED
    BY <1>1, <1>2, <1>10, <2>2 DEF WholeInv
<1> QED
  BY <1>7, <1>9, <1>10

\* And what it says of the sinks when no -L was given.
LEMMA ApplySinksWhole ==
  ASSUME StartInv, WholeInv, ApplySinks
  PROVE  WholeInv'
<1>1. /\ pc = "sinks"
      /\ UNCHANGED <<files, argv, argn, logging_level, options, line_nr, config>>
  BY DEF ApplySinks
<1>2. WordInv /\ LogInv /\ ReadInv /\ exit_status = -1 /\ files \in FileSystems
  BY <1>1 DEF WholeInv
<1>3. argn = Len(argv) + 1
  BY <1>1 DEF StartInv, LoopInv
<1>4. /\ options.log_sinks_set <=> At(Option("L")) # {}
      /\ \A x : Seen(x, argn) = At(Option(x))
      /\ \A i \in At(Option("L")) : Asked(argv[i + 1]) \subseteq Sinks
  BY <1>1, <1>2, <1>3, AllSeen
<1> DEFINE text == FileValue("log_sinks")
           Bits == {s \in {"stdout", "syslog"} : <<s>> \in SinksWanted}
<1>5. config["log_sinks"] = text /\ text \in Seq(STRING)
  BY <1>1, <1>2, TextRead
<1>6. active_log_sinks = {"stdout"} \cup SinksGiven
  BY <1>1, <1>2 DEF LogInv
<1>7. At(Option("L")) = {} => SinksGiven = {}
  BY <1>4 DEF SinksGiven
<1>8. \/ /\ pc' = "log_start" /\ exit_status' = -1
         /\ active_log_sinks' = {"stdout"} \cup Bits /\ SinksWanted \subseteq Sinks
      \/ pc' = "exited" /\ ~ GoodFile
  <2>1. CASE At(Option("L")) # {}
    <3>1. UNCHANGED active_log_sinks /\ GoOn("log_start")
      BY <1>4, <2>1, Zenon DEF ApplySinks
    <3>2. SinksGiven = Bits /\ SinksWanted \subseteq Sinks
      BY <1>4, <2>1, SinksOfWords
    <3> QED
      BY <1>2, <1>6, <3>1, <3>2 DEF GoOn
  <2>2. CASE At(Option("L")) = {} /\ text = Empty
    <3>1. UNCHANGED active_log_sinks /\ GoOn("log_start")
      BY <1>4, <1>5, <2>2, Zenon DEF ApplySinks
    <3>2. SinksWanted = {}
      BY <2>2 DEF SinksWanted
    <3> QED
      BY <1>2, <1>6, <1>7, <2>2, <3>1, <3>2 DEF GoOn
  <2>3. CASE At(Option("L")) = {} /\ text # Empty
    <3>1. /\ parse_log_sinks(Listed(text))
          /\ IF AllNamed(Listed(text)) THEN GoOn("log_start") ELSE Fail
      BY <1>4, <1>5, <2>3, Zenon DEF ApplySinks, Listed, Comma
    <3>2. SinksWanted = Asked(text)
      BY <2>3 DEF SinksWanted
    <3> HIDE DEF text
    <3>3. /\ AllNamed(Listed(text)) <=> Asked(text) \subseteq Sinks
          /\ AllNamed(Listed(text)) =>
               SinksNamed(Listed(text)) =
                 {name \in {"none", "stdout", "syslog"} : <<name>> \in Asked(text)}
      BY <1>5, SinksAsked
    <3>4. CASE AllNamed(Listed(text))
      <4>1. active_log_sinks' = {"stdout"} \cup (SinksNamed(Listed(text)) \ {"none"})
        BY <1>6, <1>7, <2>3, <3>1 DEF parse_log_sinks
      <4>2. SinksNamed(Listed(text)) \ {"none"} = Bits
        BY <3>2, <3>3, <3>4
      <4> QED
        BY <1>2, <3>1, <3>2, <3>3, <3>4, <4>1, <4>2 DEF GoOn
    <3>5. CASE ~ AllNamed(Listed(text))
      <4>1. ~ GoodFile
        BY <2>3, <3>3, <3>5, GoodParts DEF text
      <4> QED
        BY <3>1, <3>5, <4>1 DEF Fail
    <3> QED
      BY <3>4, <3>5
  <2> QED
    BY <2>1, <2>2, <2>3
<1>9. LevelWanted' = LevelWanted /\ GoodLevel' = GoodLevel /\ SinksWanted' = SinksWanted
  BY <1>1, InputsKept
<1>10. CASE /\ pc' = "log_start" /\ exit_status' = -1
            /\ active_log_sinks' = {"stdout"} \cup Bits /\ SinksWanted \subseteq Sinks
  <2>1. WordInv'
    BY <1>1, <1>2, WordsKept
  <2>2. LogInv'
    BY <1>1, <1>2, <1>9, <1>10 DEF LogInv
  <2>3. ReadInv'
    <3>1. line_nr = Len(Given)
      BY <1>1, <1>2 DEF ReadInv
    <3> QED
      BY <1>1, <1>2, <1>10, <3>1, ReadKept
  <2> QED
    BY <1>1, <1>2, <1>10, <2>1, <2>2, <2>3 DEF WholeInv
<1>11. CASE pc' = "exited" /\ ~ GoodFile
  <2>1. (~ (GoodCommand /\ GoodFile))'
    BY <1>1, <1>11, InputsKept
  <2> QED
    BY <1>1, <1>2, <1>11, <2>1 DEF WholeInv
<1> QED
  BY <1>8, <1>10, <1>11

LEMMA LogStartWhole ==
  ASSUME StartInv, WholeInv, LogStart \/ UNCHANGED vars
  PROVE  WholeInv'
<1>1. /\ UNCHANGED <<files, argv, argn, logging_level, active_log_sinks, options, line_nr,
                     config, exit_status>>
      /\ pc' = pc \/ (pc = "log_start" /\ pc' = "running")
  BY DEF LogStart, GoOn, logging, vars
<1>2. files \in FileSystems
  BY DEF WholeInv
<1>3. CASE pc = "exited"
  BY <1>1, <1>3, InputsKept DEF WholeInv
<1>4. CASE pc # "exited"
  <2>1. WordInv' /\ exit_status' = -1
    BY <1>1, <1>4, WordsKept DEF WholeInv
  <2>2. LogInv'
    <3>1. /\ LevelWanted' = LevelWanted /\ GoodLevel' = GoodLevel /\ SinksWanted' = SinksWanted
          /\ \A x : Seen(x, argn)' = Seen(x, argn)
      BY <1>1, InputsKept, SameWords
    <3>2. SinksGiven' = SinksGiven
      BY <1>1, <3>1 DEF SinksGiven
    <3> QED
      BY <1>1, <1>4, <3>1, <3>2 DEF LogInv, WholeInv
  <2>3. pc = "args" => UnreadInv'
    <3>1. Defaults' = Defaults
      BY DEF Defaults
    <3> QED
      BY <1>1, <3>1 DEF WholeInv, UnreadInv
  <2>4. pc # "args" => ReadInv'
    <3> SUFFICES ASSUME pc # "args" PROVE ReadInv'
      OBVIOUS
    <3>1. ReadInv
      BY <1>4 DEF WholeInv
    <3>2. CASE pc = "file"
      <4>1. /\ Given' = Given /\ FileFound' = FileFound
            /\ (CanOpen(FileWanted))' = CanOpen(FileWanted)
            /\ \A i : GoodLine(i)' = GoodLine(i) /\ ValueAt(i)' = ValueAt(i)
            /\ \A key : LinesOf(key)' = LinesOf(key)
        BY <1>1, InputsKept
      <4>2. pc' = "file"
        BY <1>1, <3>2
      <4> QED
        BY <1>1, <3>1, <3>2, <4>1, <4>2, SettingsKept DEF ReadInv
    <3>3. CASE pc # "file"
      <4>1. line_nr = Len(Given)
        BY <3>1, <3>3 DEF ReadInv
      <4> QED
        BY <1>1, <3>1, <3>3, <4>1, ReadKept
    <3> QED
      BY <3>2, <3>3
  <2> QED
    BY <1>1, <1>2, <1>4, <2>1, <2>2, <2>3, <2>4 DEF WholeInv
<1> QED
  BY <1>3, <1>4

LEMMA InitWhole == Init => WholeInv
<1> SUFFICES ASSUME Init PROVE WholeInv
  OBVIOUS
<1>1. /\ files \in FileSystems /\ pc = "args" /\ argn = 1 /\ exit_status = -1
      /\ logging_level = LOG_LEVEL_ERROR /\ active_log_sinks = {"stdout"}
      /\ options.config_set = FALSE /\ options.log_sinks_set = FALSE
  BY DEF Init
<1>2. UnreadInv
  BY DEF Init, UnreadInv
<1>3. \A x : Seen(x, argn) = {}
  BY DEF Init, Seen, At
<1>4. WordInv
  BY <1>1, <1>3 DEF WordInv
<1>5. LogInv
  BY <1>1, <1>3 DEF LogInv, SinksGiven
<1> QED
  BY <1>1, <1>2, <1>4, <1>5 DEF WholeInv

-----------------------------------------------------------------------------
(* The theorems about command line and file as a whole.                    *)

LEMMA WholeInvariance == Spec => [](StartInv /\ WholeInv)
<1>1. StartInv /\ WholeInv /\ [Next]_vars => WholeInv'
  BY OptionWhole, FailsWhole, ArgsEndWhole, ReadLineWhole, ApplyLevelWhole, ApplySinksWhole,
     LogStartWhole DEF Next
<1> QED
  BY <1>1, InitStart, InitWhole, NextStart, PTL DEF Spec

\* For the level an option beats the file and the file beats the default; of
\* the sinks the option names, or the file when there is no option, every one is
\* on, and syslog only when it is among them: what the two parsers and the loop
\* over the options make of any command line and file.
THEOREM StartPrecedence == Spec => []Precedence
<1>1. StartInv /\ WholeInv => Precedence
  <2> SUFFICES ASSUME StartInv, WholeInv, Running PROVE Precedence
    BY DEF Precedence
  <2>1. /\ logging_level = LevelWanted
        /\ active_log_sinks = {"stdout"} \cup {s \in {"stdout", "syslog"} : <<s>> \in SinksWanted}
    BY DEF WholeInv, LogInv, Running
  <2>2. "syslog" \in active_log_sinks => <<"syslog">> \in SinksWanted
    BY <2>1
  <2>3. \A sink \in {"stdout", "syslog"} : <<sink>> \in SinksWanted => sink \in active_log_sinks
    BY <2>1
  <2> QED
    BY <2>1, <2>2, <2>3 DEF Precedence
<1> QED
  BY <1>1, WholeInvariance, PTL

\* Whatever lines the file has, in whatever order, the server starts with the
\* last value of each key and the defaults of the others; with SSL when the last
\* line about it says yes, and without when none does.
THEOREM StartWholeFile == Spec => []WholeFile
<1>1. StartInv /\ WholeInv => WholeFile
  <2> SUFFICES ASSUME StartInv, WholeInv, Running PROVE WholeFile
    BY DEF WholeFile
  <2>1. files \in FileSystems /\ ReadInv /\ line_nr = Len(Given)
    BY DEF WholeInv, ReadInv, Running
  <2>2. ASSUME NEW k \in Keys \ {"use_ssl"}
        PROVE  config[k] = IF LinesOf(k) = {} THEN Defaults[k]
                           ELSE IF k \in {"port", "threads"} THEN atoi(FileValue(k))
                           ELSE FileValue(k)
    <3>1. KeyInv(k)
      BY <2>1 DEF ReadInv
    <3>2. config[k] = IF LinesOf(k) = {} THEN Defaults[k] ELSE Taken(k, FileValue(k))
      BY <2>1, <3>1, KeyRead
    <3> QED
      BY <3>2 DEF Taken
  <2>3. config["use_ssl"] <=> \E i \in LinesOf("use_ssl") : SaysYes(ValueAt(i))
    <3>1. Passed("use_ssl") = LinesOf("use_ssl")
      BY <2>1, GivenTyped DEF Passed, LinesOf
    <3> QED
      BY <2>1, <3>1 DEF ReadInv, SslInv
  <2>4. ASSUME SaysYes(FileValue("use_ssl"))
        PROVE  \E i \in LinesOf("use_ssl") : SaysYes(ValueAt(i))
    <3>1. LinesOf("use_ssl") # {}
      <4>1. ~ SaysYes(Empty)
        <5>1. DOMAIN str_to_lower(Empty) = {} /\ DOMAIN <<"yes">> = {1} /\ DOMAIN <<"true">> = {1}
          BY DEF str_to_lower, Empty
        <5> QED
          BY <5>1 DEF SaysYes
      <4> QED
        BY <2>4, <4>1 DEF FileValue
    <3>2. LastOf(LinesOf("use_ssl")) \in LinesOf("use_ssl")
      BY <2>1, <3>1, LastLine
    <3> QED
      BY <2>4, <3>1, <3>2 DEF FileValue
  <2> QED
    BY <2>2, <2>3, <2>4 DEF WholeFile
<1> QED
  BY <1>1, WholeInvariance, PTL

\* main starts the server on any command line and file that are right as a
\* whole, as far as it gets, and gives up on no others.
THEOREM StartJudged == Spec => []Judged
<1>1. StartInv /\ WholeInv => Judged
  <2> SUFFICES ASSUME StartInv, WholeInv PROVE Judged
    OBVIOUS
  <2>1. ASSUME Running PROVE GoodCommand /\ GoodFile
    <3>1. WordInv /\ ReadInv /\ LogInv
      BY <2>1 DEF WholeInv, Running
    <3>2. argn = Len(argv) + 1
      BY <2>1 DEF StartInv, LoopInv, Running
    <3>3. GoodCommand
      BY <2>1, <3>1, <3>2, AllSeen DEF Running
    <3>4. FileFound /\ (\A i \in 1 .. Len(Given) : GoodLine(i)) /\ GoodLevel
      BY <2>1, <3>1 DEF ReadInv, LogInv, Running
    <3>5. At(Option("L")) = {} /\ FileValue("log_sinks") # Empty
            => Asked(FileValue("log_sinks")) \subseteq Sinks
      BY <2>1, <3>1 DEF LogInv, Running, SinksWanted
    <3> QED
      BY <3>3, <3>4, <3>5, GoodParts
  <2>2. ASSUME exit_status = 1 PROVE ~ (GoodCommand /\ GoodFile)
    <3>1. pc = "exited"
      BY <2>2 DEF WholeInv
    <3> QED
      BY <3>1 DEF WholeInv
  <2> QED
    BY <2>1, <2>2 DEF Judged
<1> QED
  BY <1>1, WholeInvariance, PTL
=============================================================================
