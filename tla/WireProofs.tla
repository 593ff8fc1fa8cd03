----------------------------- MODULE WireProofs -----------------------------
(***************************************************************************)
(* A request is executed as it was sent and answered with what the server  *)
(* answered, or a recv came short: for every set of messages, every width  *)
(* of a byte and every moment at which an end may leave.                   *)
(*                                                                         *)
(* The argument.  What is on its way to an end, with what its peer has     *)
(* still to write, is exactly what the end has still to read; a reset cuts *)
(* bytes off the end of it and never from the middle.                      *)
(***************************************************************************)
EXTENDS Wire, SequenceTheorems, WellFoundedInduction, TLAPS

(* Texts *)

\* What is left of a text when its first n bytes are gone.
Dropped(s, n) == SubSeq(s, n + 1, Len(s))

\* What is cut off the end can be put back.
LEMMA CutLast ==
  ASSUME NEW S, NEW s \in Seq(S), NEW k \in 0 .. Len(s)
  PROVE  /\ SubSeq(s, 1, k) \in Seq(S) /\ Dropped(s, k) \in Seq(S)
         /\ SubSeq(s, 1, k) \o Dropped(s, k) = s
  <1>1. SubSeq(s, 1, k) \o SubSeq(s, k + 1, Len(s)) = SubSeq(s, 1, Len(s))
    BY 1 \in 1 .. Len(s) + 1, k \in (1 - 1) .. Len(s), Len(s) \in k .. Len(s),
       ConcatAdjacentSubSeq
  <1>2. SubSeq(s, 1, Len(s)) = s
    BY SubSeqFull
  <1>3. SubSeq(s, 1, k) \in Seq(S) /\ SubSeq(s, k + 1, Len(s)) \in Seq(S)
    OBVIOUS
  <1> QED
    BY <1>1, <1>2, <1>3 DEF Dropped

\* Concatenation without brackets.
LEMMA Chain ==
  ASSUME NEW S, NEW s \in Seq(S), NEW t \in Seq(S), NEW u \in Seq(S)
  PROVE  (s \o t) \o u = s \o (t \o u) /\ s \o t \in Seq(S)
  OBVIOUS

\* Two texts made of the same bytes agree on every part of them.
LEMMA CutFirst ==
  ASSUME NEW S, NEW s \in Seq(S), NEW t \in Seq(S), NEW p \in Seq(S), NEW q \in Seq(S),
         s \o t = p \o q, Len(p) \in 0 .. Len(s)
  PROVE  /\ SubSeq(s, 1, Len(p)) = p
         /\ Dropped(s, Len(p)) \in Seq(S) /\ Dropped(s, Len(p)) \o t = q
  <1> DEFINE u == SubSeq(s, 1, Len(p))
             v == Dropped(s, Len(p))
  <1>1. /\ u \in Seq(S) /\ Len(u) = Len(p) /\ \A i \in 1 .. Len(p) : u[i] = s[i]
        /\ v \in Seq(S)
    BY DEF Dropped
  <1>2. u = p
    <2>1. \A i \in 1 .. Len(p) : s[i] = p[i]
      <3> SUFFICES ASSUME NEW i \in 1 .. Len(p) PROVE s[i] = p[i]
        OBVIOUS
      <3>1. (s \o t)[i] = s[i] /\ (p \o q)[i] = p[i]
        OBVIOUS
      <3> QED
        BY <3>1
    <2> QED
      BY <1>1, <2>1
  <1>3. u \o v = s
    BY Len(p) \in 0 .. Len(s), CutLast
  <1>4. u \in Seq(S) /\ v \in Seq(S)
    BY <1>1
  <1> HIDE DEF u, v
  <1>5. (u \o v) \o t = u \o (v \o t) /\ v \o t \in Seq(S)
    <2>1. v \o t \in Seq(S)
      BY <1>4
    <2>2. (u \o v) \o t = u \o (v \o t)
      BY <1>4, Chain, SMTT(40)
    <2> QED
      BY <2>1, <2>2
  <1>6. p \o (v \o t) = p \o q
    BY <1>2, <1>3, <1>5
  <1>7. v \o t = q
    BY <1>5, <1>6, ConcatSimplifications
  <1> QED
    BY <1>1, <1>2, <1>7 DEF u, v

\* Two and three ints with a text behind them.
LEMMA FivePieces ==
  ASSUME NEW T, NEW x \in T, NEW y \in T, NEW z \in T, NEW v \in T, NEW w \in T
  PROVE  /\ <<x, y, z>> \o <<v, w>> \in Seq(T) /\ Len(<<x, y, z>> \o <<v, w>>) = 5
         /\ \A i \in 1 .. 5 : (<<x, y, z>> \o <<v, w>>)[i] = <<x, y, z, v, w>>[i]
  <1> DEFINE s == <<x, y, z>>
             t == <<v, w>>
             q == s \o t
             p == <<x, y, z, v, w>>
  <1>1. s \in Seq(T) /\ Len(s) = 3 /\ s[1] = x /\ s[2] = y /\ s[3] = z
    OBVIOUS
  <1>2. t \in Seq(T) /\ Len(t) = 2 /\ t[1] = v /\ t[2] = w
    OBVIOUS
  <1>3. p[1] = x /\ p[2] = y /\ p[3] = z /\ p[4] = v /\ p[5] = w
    OBVIOUS
  <1> HIDE DEF s, t, p
  <1>4. q \in Seq(T) /\ Len(q) = Len(s) + Len(t)
    BY <1>1, <1>2, ConcatProperties
  <1>5. \A i \in 1 .. Len(s) + Len(t) : q[i] = IF i <= Len(s) THEN s[i] ELSE t[i - Len(s)]
    BY <1>1, <1>2, ConcatProperties
  <1> HIDE DEF q
  <1>6. \A i \in 1 .. 5 : q[i] = p[i]
    <2> SUFFICES ASSUME NEW i \in 1 .. 5 PROVE q[i] = p[i]
      OBVIOUS
    <2>1. CASE i <= 3
      BY <1>1, <1>2, <1>3, <1>5, <2>1
    <2>2. CASE i = 4
      BY <1>1, <1>2, <1>3, <1>5, <2>2
    <2>3. CASE i = 5
      BY <1>1, <1>2, <1>3, <1>5, <2>3
    <2> QED
      BY <2>1, <2>2, <2>3
  <1> QED
    BY <1>1, <1>2, <1>4, <1>6 DEF s, t, q, p

LEMMA FourPieces ==
  ASSUME NEW T, NEW x \in T, NEW y \in T, NEW v \in T, NEW w \in T
  PROVE  /\ <<x, y>> \o <<v, w>> \in Seq(T) /\ Len(<<x, y>> \o <<v, w>>) = 4
         /\ \A i \in 1 .. 4 : (<<x, y>> \o <<v, w>>)[i] = <<x, y, v, w>>[i]
  <1> DEFINE s == <<x, y>>
             t == <<v, w>>
             q == s \o t
             p == <<x, y, v, w>>
  <1>1. s \in Seq(T) /\ Len(s) = 2 /\ s[1] = x /\ s[2] = y
    OBVIOUS
  <1>2. t \in Seq(T) /\ Len(t) = 2 /\ t[1] = v /\ t[2] = w
    OBVIOUS
  <1>3. p[1] = x /\ p[2] = y /\ p[3] = v /\ p[4] = w
    OBVIOUS
  <1> HIDE DEF s, t, p
  <1>4. q \in Seq(T) /\ Len(q) = Len(s) + Len(t)
    BY <1>1, <1>2, ConcatProperties
  <1>5. \A i \in 1 .. Len(s) + Len(t) : q[i] = IF i <= Len(s) THEN s[i] ELSE t[i - Len(s)]
    BY <1>1, <1>2, ConcatProperties
  <1> HIDE DEF q
  <1>6. \A i \in 1 .. 4 : q[i] = p[i]
    <2> SUFFICES ASSUME NEW i \in 1 .. 4 PROVE q[i] = p[i]
      OBVIOUS
    <2>1. CASE i <= 2
      BY <1>1, <1>2, <1>3, <1>5, <2>1
    <2>2. CASE i = 3
      BY <1>1, <1>2, <1>3, <1>5, <2>2
    <2>3. CASE i = 4
      BY <1>1, <1>2, <1>3, <1>5, <2>3
    <2> QED
      BY <2>1, <2>2, <2>3
  <1> QED
    BY <1>1, <1>2, <1>4, <1>6 DEF s, t, q, p

\* The k-th piece, and nothing after the last one.
Nth(pieces, k) == IF k <= Len(pieces) THEN pieces[k] ELSE <<>>

\* The bytes of at most five pieces.
Flat(pieces) ==
  Nth(pieces, 1) \o (Nth(pieces, 2) \o (Nth(pieces, 3) \o (Nth(pieces, 4) \o Nth(pieces, 5))))

LEMMA FlatText ==
  ASSUME NEW S, NEW pieces \in Seq(Seq(S))
  PROVE  Flat(pieces) \in Seq(S)
  <1>1. \A k \in 1 .. 5 : Nth(pieces, k) \in Seq(S)
    BY DEF Nth
  <1>2. /\ Nth(pieces, 1) \in Seq(S) /\ Nth(pieces, 2) \in Seq(S) /\ Nth(pieces, 3) \in Seq(S)
        /\ Nth(pieces, 4) \in Seq(S) /\ Nth(pieces, 5) \in Seq(S)
    BY <1>1
  <1> HIDE DEF Nth
  <1> QED
    BY <1>2, Chain DEF Flat

\* The first piece comes first.
LEMMA FlatFirst ==
  ASSUME NEW S, NEW pieces \in Seq(Seq(S)), pieces # <<>>, Len(pieces) \in 0 .. 5
  PROVE  /\ Head(pieces) \in Seq(S) /\ Tail(pieces) \in Seq(Seq(S))
         /\ Flat(pieces) = Head(pieces) \o Flat(Tail(pieces))
  <1>1. Len(pieces) \in 1 .. 5 /\ Head(pieces) = pieces[1] /\ Tail(pieces) \in Seq(Seq(S))
        /\ Len(Tail(pieces)) = Len(pieces) - 1
        /\ \A k \in 1 .. Len(pieces) - 1 : Tail(pieces)[k] = pieces[k + 1]
    <2>1. Len(pieces) # 0
      BY EmptySeq
    <2>2. Len(pieces) \in Nat
      OBVIOUS
    <2>3. Len(pieces) \in 1 .. 5
      BY <2>1, <2>2
    <2>4. Head(pieces) = pieces[1]
      BY <2>3
    <2>5. Tail(pieces) \in Seq(Seq(S)) /\ Len(Tail(pieces)) = Len(pieces) - 1
      BY HeadTailProperties
    <2>6. \A k \in 1 .. Len(Tail(pieces)) : Tail(pieces)[k] = pieces[k + 1]
      BY HeadTailProperties
    <2> QED
      BY <2>3, <2>4, <2>5, <2>6
  <1>2. /\ Nth(pieces, 1) = Head(pieces)
        /\ Nth(Tail(pieces), 1) = Nth(pieces, 2) /\ Nth(Tail(pieces), 2) = Nth(pieces, 3)
        /\ Nth(Tail(pieces), 3) = Nth(pieces, 4) /\ Nth(Tail(pieces), 4) = Nth(pieces, 5)
        /\ Nth(Tail(pieces), 5) = <<>>
    <2>1. \A k \in 1 .. 4 : Nth(Tail(pieces), k) = Nth(pieces, k + 1)
      BY <1>1 DEF Nth
    <2>2. Nth(pieces, 1) = Head(pieces)
      BY <1>1 DEF Nth
    <2>4. Nth(Tail(pieces), 5) = <<>>
      <3>1. \A n, m : n \in 1 .. 5 /\ m = n - 1 => ~(5 <= m)
        OBVIOUS
      <3>2. ~(5 <= Len(Tail(pieces)))
        BY <1>1, <3>1, Zenon
      <3> QED
        BY <3>2, Zenon DEF Nth
    <2> HIDE DEF Nth
    <2>3. 1 \in 1 .. 4 /\ 2 \in 1 .. 4 /\ 3 \in 1 .. 4 /\ 4 \in 1 .. 4
      OBVIOUS
    <2> QED
      BY <2>1, <2>2, <2>3, <2>4
  <1>3. Nth(pieces, 5) \in Seq(S) /\ Head(pieces) \in Seq(S)
    BY <1>1 DEF Nth
  <1>4. Nth(pieces, 5) \o <<>> = Nth(pieces, 5)
    BY <1>3
  <1> QED
    BY <1>1, <1>2, <1>3, <1>4 DEF Flat

-----------------------------------------------------------------------------
(* Numbers *)

\* The bytes of an int spell it.
LEMMA Spelled ==
  ASSUME NEW n \in Number
  PROVE  /\ IntBytes(n) \in Seq(Byte) /\ Len(IntBytes(n)) = Width
         /\ Values(IntBytes(n)) = {n}
  <1> DEFINE a == n % ByteMod
             b == n \div ByteMod
  <1>1. ByteMod \in Nat /\ ByteMod > 0 /\ n \in Nat /\ n < ByteMod * ByteMod
    BY WireAssumption DEF Number
  <1>2. a \in Int /\ a >= 0 /\ a < ByteMod /\ b \in Int /\ b >= 0
    BY <1>1
  <1>3. n = a + ByteMod * b
    BY <1>1
  <1>4. b < ByteMod
    BY <1>1, <1>2, <1>3
  <1> QED
    BY <1>1, <1>2, <1>3, <1>4 DEF IntBytes, Values, Byte, Junk, Width

-----------------------------------------------------------------------------
(* A message and the fields of it that are still to come *)

Names == {"type", "user_id", "target", "success", "len", "text"}
Word == {w \in Seq(Byte \cup {Junk}) : Len(w) = Width}

\* The bytes of each field of a message.
RequestBytes(r) ==
  [f \in Names |-> CASE f = "type" -> IntBytes(r.type)
                     [] f = "user_id" -> IntBytes(r.user_id)
                     [] f = "target" -> IntBytes(r.target)
                     [] f = "len" -> IntBytes(Len(Join(r.vec)))
                     [] f = "text" -> Join(r.vec)
                     [] OTHER -> <<>>]
ResponseBytes(r) ==
  [f \in Names |-> CASE f = "success" -> IntBytes(r.success)
                     [] f = "user_id" -> IntBytes(r.user_id)
                     [] f = "len" -> IntBytes(Len(r.text))
                     [] f = "text" -> r.text
                     [] OTHER -> <<>>]

\* A message m is sent in this order: each field once, ints of one width, then
\* the length and the bytes of the text.
Format(order, m) ==
  /\ order \in Seq(Names) /\ Len(order) \in 2 .. 5
  /\ m \in [Names -> Seq(Byte)]
  /\ \A i, j \in 1 .. Len(order) : order[i] = order[j] => i = j
  /\ \A i \in 1 .. Len(order) : order[i] = "text" <=> i = Len(order)
  /\ \A i \in 1 .. Len(order) : order[i] = "len" <=> i = Len(order) - 1
  /\ \A i \in 1 .. Len(order) : order[i] # "text" => Len(m[order[i]]) = Width
  /\ Values(m["len"]) = {Len(m["text"])}

\* The pieces from the k-th on.
Pieces(order, m, k) == [i \in 1 .. Len(order) - k + 1 |-> m[order[k + i - 1]]]

\* What was read of a field is that field.
Holds(e, m, f) ==
  CASE f = "text" -> e.text = m["text"]
    [] f = "len" -> Len(e.text) = Len(m["text"])
    [] OTHER -> e.got[f] = m[f]

\* The fields before the k-th were read, and the bytes at hand are the rest of
\* the message, up to what was lost or has still to be written.
Arrives(order, m, e, k, bytes, rest) ==
  /\ e.fields = SubSeq(order, k, Len(order))
  /\ \A i \in 1 .. k - 1 : Holds(e, m, order[i])
  /\ bytes \o rest = Flat(Pieces(order, m, k))

LEMMA PiecesType ==
  ASSUME NEW order, NEW m, Format(order, m), NEW k \in 1 .. Len(order) + 1,
         NEW n, n = Len(order) - k + 1
  PROVE  /\ n \in Nat /\ Pieces(order, m, k) \in Seq(Seq(Byte)) /\ Len(Pieces(order, m, k)) = n
         /\ \A i \in 1 .. n : Pieces(order, m, k)[i] = m[order[k + i - 1]]
  <1>1. n \in Nat
    BY DEF Format
  <1>2. \A i \in 1 .. n : m[order[k + i - 1]] \in Seq(Byte)
    BY DEF Format
  <1> QED
    BY <1>1, <1>2 DEF Pieces

\* The first of the pieces from the k-th on, and those after it.
LEMMA PiecesFirst ==
  ASSUME NEW order, NEW m, Format(order, m), NEW k \in 1 .. Len(order)
  PROVE  /\ Pieces(order, m, k) # <<>>
         /\ Head(Pieces(order, m, k)) = m[order[k]]
         /\ Tail(Pieces(order, m, k)) = Pieces(order, m, k + 1)
  <1> DEFINE j == k + 1
             n == Len(order) - j + 1
             l == Len(order) - k + 1
             p == Pieces(order, m, k)
             q == Pieces(order, m, j)
  <1>1. Len(order) \in Nat
    BY DEF Format
  <1>2. /\ n \in Nat /\ k \in 1 .. Len(order) + 1 /\ j \in 1 .. Len(order) + 1
        /\ l = n + 1 /\ l = Len(order) - k + 1 /\ n = Len(order) - j + 1
        /\ \A i \in Int : j + i - 1 = k + (i + 1) - 1
    BY <1>1
  <1> HIDE DEF j, n, l
  <1>3. p \in Seq(Seq(Byte)) /\ Len(p) = l /\ \A i \in 1 .. l : p[i] = m[order[k + i - 1]]
    <2>1. p \in Seq(Seq(Byte)) /\ Len(p) = l
      BY <1>2, PiecesType, ZenonT(60)
    <2>2. \A i \in 1 .. l : p[i] = m[order[k + i - 1]]
      BY <1>2 DEF Pieces
    <2> QED
      BY <2>1, <2>2
  <1>4. q \in Seq(Seq(Byte)) /\ Len(q) = n /\ \A i \in 1 .. n : q[i] = m[order[j + i - 1]]
    <2>1. q \in Seq(Seq(Byte)) /\ Len(q) = n
      BY <1>2, PiecesType, ZenonT(60)
    <2>2. \A i \in 1 .. n : q[i] = m[order[j + i - 1]]
      BY <1>2 DEF Pieces
    <2> QED
      BY <2>1, <2>2
  <1> HIDE DEF p, q
  <1>5. p # <<>>
    BY <1>2, <1>3
  <1>6. Head(p) = m[order[k]]
    <2>1. Head(p) = p[1]
      BY <1>3, <1>5
    <2>2. 1 \in 1 .. l /\ k + 1 - 1 = k
      BY <1>2
    <2> QED
      BY <1>3, <2>1, <2>2
  <1>7. Tail(p) \in Seq(Seq(Byte)) /\ Len(Tail(p)) = n
        /\ \A i \in 1 .. Len(Tail(p)) : Tail(p)[i] = p[i + 1]
    BY <1>2, <1>3, <1>5, HeadTailProperties
  <1>8. \A i \in 1 .. n : Tail(p)[i] = q[i]
    <2> SUFFICES ASSUME NEW i \in 1 .. n PROVE Tail(p)[i] = q[i]
      OBVIOUS
    <2>1. i + 1 \in 1 .. l /\ i \in Int
      BY <1>2
    <2>2. p[i + 1] = m[order[k + (i + 1) - 1]] /\ q[i] = m[order[j + i - 1]]
      BY <1>3, <1>4, <2>1
    <2> QED
      BY <1>2, <1>7, <2>1, <2>2
  <1>9. Tail(p) = q
    BY <1>2, <1>4, <1>7, <1>8, SeqEqual
  <1> QED
    BY <1>5, <1>6, <1>9 DEF p, q, j

\* As many bytes as a field has are that field, and the others are the rest.
LEMMA NextPiece ==
  ASSUME NEW order, NEW m, Format(order, m), NEW k \in 1 .. Len(order),
         NEW bytes \in Seq(Byte), NEW rest \in Seq(Byte),
         bytes \o rest = Flat(Pieces(order, m, k)),
         Len(m[order[k]]) \in 0 .. Len(bytes)
  PROVE  /\ SubSeq(bytes, 1, Len(m[order[k]])) = m[order[k]]
         /\ Dropped(bytes, Len(m[order[k]])) \o rest = Flat(Pieces(order, m, k + 1))
  <1> DEFINE p == Pieces(order, m, k)
             q == Flat(Pieces(order, m, k + 1))
             first == m[order[k]]
  <1>0. Len(order) \in 2 .. 5
    BY DEF Format
  <1>1. k \in 1 .. Len(order) + 1 /\ Len(order) - k + 1 \in 0 .. 5
    <2>1. \A n : n \in 2 .. 5 => \A i \in 1 .. n : i \in 1 .. n + 1 /\ n - i + 1 \in 0 .. 5
      OBVIOUS
    <2> QED
      BY <1>0, <2>1, Zenon
  <1>2. p \in Seq(Seq(Byte)) /\ Len(p) \in 0 .. 5
    <2> DEFINE n == Len(order) - k + 1
    <2>1. n \in 0 .. 5 /\ n = Len(order) - k + 1
      BY <1>1
    <2> HIDE DEF n
    <2>2. p \in Seq(Seq(Byte)) /\ Len(p) = n
      BY <1>1, <2>1, PiecesType
    <2> QED
      BY <2>1, <2>2
  <1>3. p # <<>> /\ Head(p) = first /\ Tail(p) = Pieces(order, m, k + 1)
    BY PiecesFirst
  <1>4. first \in Seq(Byte) /\ Tail(p) \in Seq(Seq(Byte)) /\ Flat(p) = first \o q
    BY <1>2, <1>3, FlatFirst
  <1>5. q \in Seq(Byte)
    BY <1>3, <1>4, FlatText
  <1> HIDE DEF p, q, first
  <1>6. bytes \o rest = first \o q /\ first \in Seq(Byte) /\ q \in Seq(Byte)
        /\ Len(first) \in 0 .. Len(bytes)
    BY <1>4, <1>5 DEF p, first
  <1>7. SubSeq(bytes, 1, Len(first)) = first
    BY <1>6, CutFirst
  <1>8. Dropped(bytes, Len(first)) \o rest = q
    BY <1>6, CutFirst, ZenonT(60)
  <1> QED
    BY <1>7, <1>8 DEF q, first

\* The next field to read is the k-th.
LEMMA ThisField ==
  ASSUME NEW order, NEW m, Format(order, m), NEW k \in 1 .. Len(order) + 1,
         NEW fields, fields = SubSeq(order, k, Len(order))
  PROVE  /\ fields = <<>> <=> k = Len(order) + 1
         /\ fields # <<>> => /\ k \in 1 .. Len(order) /\ Head(fields) = order[k]
                             /\ Tail(fields) = SubSeq(order, k + 1, Len(order))
  <1>1. order \in Seq(Names) /\ Len(order) \in Nat
    BY DEF Format
  <1>2. CASE k = Len(order) + 1
    <2>1. Len(order) < k
      BY <1>1, <1>2
    <2>2. fields = <<>>
      BY <1>1, <2>1, SubSeqEmpty
    <2> QED
      BY <1>2, <2>2
  <1>3. CASE k # Len(order) + 1
    <2>1. k \in 1 .. Len(order) /\ Len(order) \in k .. Len(order)
      BY <1>1, <1>3
    <2>2. Head(fields) = order[k] /\ Tail(fields) = SubSeq(order, k + 1, Len(order))
      BY <1>1, <2>1, HeadTailOfSubSeq
    <2>3. fields # <<>>
      <3>1. \A i \in k .. Len(order) : order[i] \in Names
        BY <1>1, <2>1
      <3>2. Len(fields) = Len(order) - k + 1
        BY <1>1, <2>1, <3>1, SubSeqProperties
      <3>3. Len(fields) # 0
        BY <1>1, <2>1, <3>2
      <3> QED
        BY <3>3, EmptySeq
    <2> QED
      BY <1>3, <2>1, <2>2, <2>3
  <1> QED
    BY <1>2, <1>3

\* Which field the k-th is, and what it is as long as.
LEMMA FieldKind ==
  ASSUME NEW order, NEW m, Format(order, m), NEW k \in 1 .. Len(order)
  PROVE  /\ order[k] \in Names /\ m[order[k]] \in Seq(Byte)
         /\ order[k] # "text" => Len(m[order[k]]) = Width
         /\ \A i \in 1 .. k - 1 : /\ i \in 1 .. Len(order) /\ order[i] \in Names
                                  /\ order[i] # order[k] /\ order[i] # "text"
         /\ order[k] = "text" => k - 1 \in 1 .. k - 1 /\ order[k - 1] = "len"
         /\ order[k] # "text" /\ order[k] # "len" => \A i \in 1 .. k - 1 : order[i] # "len"
  <1>1. Len(order) \in 2 .. 5
    BY DEF Format
  <1>2. \A i \in 1 .. k - 1 : i \in 1 .. Len(order) /\ i # k /\ i # Len(order)
    BY <1>1
  <1>3. order[k] \in Names /\ m[order[k]] \in Seq(Byte)
        /\ (order[k] # "text" => Len(m[order[k]]) = Width)
    BY DEF Format
  <1>4. \A i \in 1 .. k - 1 : /\ i \in 1 .. Len(order) /\ order[i] \in Names
                              /\ order[i] # order[k] /\ order[i] # "text"
    BY <1>2 DEF Format
  <1>5. order[k] = "text" => k - 1 \in 1 .. k - 1 /\ order[k - 1] = "len"
    <2> DEFINE j == k - 1
    <2>1. \A i \in 1 .. Len(order) : order[i] = "text" => i = Len(order)
      BY DEF Format
    <2>2. \A i \in 1 .. Len(order) : i = Len(order) - 1 => order[i] = "len"
      BY DEF Format
    <2>3. order[k] = "text" => j \in 1 .. j /\ j \in 1 .. Len(order) /\ j = Len(order) - 1
      BY <1>1, <2>1
    <2> HIDE DEF j
    <2>4. order[k] = "text" => j \in 1 .. j /\ order[j] = "len"
      BY <2>2, <2>3
    <2> QED
      BY <2>4 DEF j
  <1>6. order[k] # "text" /\ order[k] # "len" => \A i \in 1 .. k - 1 : order[i] # "len"
    <2>1. \A i \in 1 .. Len(order) : order[i] = "text" <=> i = Len(order)
      BY DEF Format
    <2>2. \A i \in 1 .. Len(order) : order[i] = "len" <=> i = Len(order) - 1
      BY DEF Format
    <2> QED
      BY <1>1, <2>1, <2>2
  <1> QED
    BY <1>3, <1>4, <1>5, <1>6

\* One field is read whole: the rest of the message is still to come.
LEMMA ReadsOn ==
  ASSUME NEW order, NEW m, Format(order, m), NEW k \in 1 .. Len(order) + 1,
         NEW e, NEW bytes \in Seq(Byte), NEW rest \in Seq(Byte),
         Arrives(order, m, e, k, bytes, rest), e.fields # <<>>,
         Len(m[order[k]]) \in 0 .. Len(bytes),
         NEW d, d.fields = Tail(e.fields), Holds(d, m, order[k]),
         \A i \in 1 .. k - 1 : Holds(e, m, order[i]) => Holds(d, m, order[i])
  PROVE  k + 1 \in 1 .. Len(order) + 1
         /\ Arrives(order, m, d, k + 1, Dropped(bytes, Len(m[order[k]])), rest)
  <1>1. e.fields = SubSeq(order, k, Len(order))
        /\ (\A i \in 1 .. k - 1 : Holds(e, m, order[i]))
        /\ bytes \o rest = Flat(Pieces(order, m, k))
    BY DEF Arrives
  <1>2. k \in 1 .. Len(order) /\ d.fields = SubSeq(order, k + 1, Len(order))
    BY <1>1, ThisField
  <1>3. Dropped(bytes, Len(m[order[k]])) \o rest = Flat(Pieces(order, m, k + 1))
    BY <1>1, <1>2, NextPiece
  <1>4. Len(order) \in Nat
    BY DEF Format
  <1>5. k + 1 \in 1 .. Len(order) + 1 /\ \A i \in 1 .. (k + 1) - 1 : i \in 1 .. k - 1 \/ i = k
    BY <1>2, <1>4
  <1>6. \A i \in 1 .. (k + 1) - 1 : Holds(d, m, order[i])
    BY <1>1, <1>5
  <1> QED
    BY <1>2, <1>3, <1>5, <1>6 DEF Arrives

-----------------------------------------------------------------------------
(* Fields: what Join and Split do, by induction over the fields and the bytes *)

\* Induction as a statement about a set, which the provers can use.
LEMMA Induction ==
  ASSUME NEW T, 0 \in T, \A n \in Nat : n \in T => n + 1 \in T
  PROVE  Nat \subseteq T
  <1> SUFFICES ASSUME Nat \ T # {} PROVE FALSE
    OBVIOUS
  <1>1. PICK m \in Nat \ T : \A y \in Nat \ T : ~ <<y, m>> \in OpToRel(<, Nat)
    BY NatLessThanWellFounded, WFMin
  <1>2. \A y \in Nat \ T : ~(y < m)
    BY <1>1 DEF OpToRel
  <1>3. m # 0 /\ m - 1 \in Nat /\ m - 1 < m
    OBVIOUS
  <1>4. m - 1 \in T /\ (m - 1) + 1 = m
    BY <1>2, <1>3
  <1> QED
    BY <1>3, <1>4

\* The recursive functions of Split and Join exist.
Splits(text, N, f) ==
  f = [n \in 0 .. N |-> IF n = 0 THEN << <<>> >> ELSE Cut(f[n - 1], text[n])]
Joins(vec, N, f) ==
  f = [k \in 0 .. N |-> IF k = 0 THEN <<>> ELSE Glue(f[k - 1], k, vec[k])]

LEMMA SplitIs ==
  ASSUME NEW text \in Seq(Int)
  PROVE  \E f : Splits(text, Len(text), f) /\ Split(text) = f[Len(text)]
  <1> DEFINE T == {N \in Nat : \E f : Splits(text, N, f)}
  <1>1. 0 \in T
    <2>1. Splits(text, 0, [n \in 0 .. 0 |-> << <<>> >>])
      BY DEF Splits
    <2> QED
      BY <2>1
  <1>2. ASSUME NEW N \in Nat, N \in T PROVE N + 1 \in T
    <2>1. PICK f : Splits(text, N, f)
      BY <1>2
    <2> DEFINE g == [n \in 0 .. N + 1 |-> IF n = N + 1 THEN Cut(f[N], text[n]) ELSE f[n]]
    <2>2. Splits(text, N + 1, g)
      BY <2>1 DEF Splits
    <2> HIDE DEF g
    <2> QED
      BY <2>2
  <1>3. Len(text) \in T
    <2> HIDE DEF T
    <2>1. Nat \subseteq T
      BY <1>1, <1>2, Induction
    <2> QED
      BY <2>1
  <1> DEFINE f == CHOOSE f : Splits(text, Len(text), f)
  <1>4. Splits(text, Len(text), f)
    BY <1>3
  <1>5. Split(text) = f[Len(text)]
    BY DEF Split, Splits
  <1> HIDE DEF f
  <1> QED
    BY <1>4, <1>5

LEMMA JoinIs ==
  ASSUME NEW vec \in Seq(Seq(Int))
  PROVE  \E f : Joins(vec, Len(vec), f) /\ Join(vec) = f[Len(vec)]
  <1> DEFINE T == {N \in Nat : \E f : Joins(vec, N, f)}
  <1>1. 0 \in T
    <2>1. Joins(vec, 0, [n \in 0 .. 0 |-> <<>>])
      BY DEF Joins
    <2> QED
      BY <2>1
  <1>2. ASSUME NEW N \in Nat, N \in T PROVE N + 1 \in T
    <2>1. PICK f : Joins(vec, N, f)
      BY <1>2
    <2> DEFINE g == [k \in 0 .. N + 1 |-> IF k = N + 1 THEN Glue(f[N], k, vec[k]) ELSE f[k]]
    <2>2. Joins(vec, N + 1, g)
      BY <2>1 DEF Joins
    <2> HIDE DEF g
    <2> QED
      BY <2>2
  <1>3. Len(vec) \in T
    <2> HIDE DEF T
    <2>1. Nat \subseteq T
      BY <1>1, <1>2, Induction
    <2> QED
      BY <2>1
  <1> DEFINE f == CHOOSE f : Joins(vec, Len(vec), f)
  <1>4. Joins(vec, Len(vec), f)
    BY <1>3
  <1>5. Join(vec) = f[Len(vec)]
    BY DEF Join, Joins
  <1> HIDE DEF f
  <1> QED
    BY <1>4, <1>5

\* What is joined is a text.
LEMMA JoinSeq ==
  ASSUME NEW S, S \subseteq Int, Delimiter \in S, NEW vec \in Seq(Seq(S))
  PROVE  Join(vec) \in Seq(S)
  <1>1. vec \in Seq(Seq(Int))
    <2>1. Seq(S) \subseteq Seq(Int)
      BY SeqMonotonic
    <2> QED
      BY <2>1, SeqMonotonic
  <1>2. PICK f : Joins(vec, Len(vec), f) /\ Join(vec) = f[Len(vec)]
    BY <1>1, JoinIs
  <1> DEFINE T == {n \in Nat : n <= Len(vec) => f[n] \in Seq(S)}
  <1>3. 0 \in T
    <2>1. f[0] = <<>>
      BY <1>2 DEF Joins
    <2> QED
      BY <2>1, EmptySeq
  <1>4. ASSUME NEW n \in Nat, n \in T PROVE n + 1 \in T
    <2> SUFFICES ASSUME n + 1 <= Len(vec) PROVE f[n + 1] \in Seq(S)
      OBVIOUS
    <2>1. f[n] \in Seq(S) /\ vec[n + 1] \in Seq(S)
      BY <1>4
    <2>2. n + 1 \in 0 .. Len(vec) /\ n + 1 # 0 /\ (n + 1) - 1 = n
      OBVIOUS
    <2>3. f[n + 1] = Glue(f[n], n + 1, vec[n + 1])
      BY <1>2, <2>2 DEF Joins
    <2> DEFINE text == f[n]  field == vec[n + 1]
    <2> HIDE DEF text, field
    <2>4. text \in Seq(S) /\ field \in Seq(S) /\ Append(text, Delimiter) \in Seq(S)
      BY <2>1, AppendProperties DEF text, field
    <2>5. text \o field \in Seq(S) /\ Append(text, Delimiter) \o field \in Seq(S)
      BY <2>4, ConcatProperties
    <2> QED
      BY <2>3, <2>5 DEF Glue, text, field
  <1>5. Len(vec) \in T
    <2> HIDE DEF T
    <2>1. Nat \subseteq T
      BY <1>3, <1>4, Induction
    <2> QED
      BY <2>1
  <1> QED
    BY <1>2, <1>5

LEMMA SplitEmpty == Split(<<>>) = << <<>> >>
  <1>1. <<>> \in Seq(Int) /\ Len(<<>>) = 0
    OBVIOUS
  <1>2. PICK f : Splits(<<>>, 0, f) /\ Split(<<>>) = f[0]
    BY <1>1, SplitIs
  <1> QED
    BY <1>2 DEF Splits

\* Split takes a text byte by byte.
LEMMA SplitAppend ==
  ASSUME NEW text \in Seq(Int), NEW byte \in Int
  PROVE  Split(Append(text, byte)) = Cut(Split(text), byte)
  <1> DEFINE longer == Append(text, byte)
  <1>1. longer \in Seq(Int) /\ Len(longer) = Len(text) + 1 /\ longer[Len(text) + 1] = byte
        /\ \A n \in 1 .. Len(text) : longer[n] = text[n]
    OBVIOUS
  <1>2. PICK f : Splits(text, Len(text), f) /\ Split(text) = f[Len(text)]
    BY SplitIs
  <1>3. PICK g : Splits(longer, Len(text) + 1, g) /\ Split(longer) = g[Len(text) + 1]
    BY <1>1, SplitIs
  <1> HIDE DEF longer
  <1> DEFINE T == {n \in Nat : n <= Len(text) => g[n] = f[n]}
  <1>4. 0 \in T
    BY <1>2, <1>3 DEF Splits
  <1>5. ASSUME NEW n \in Nat, n \in T PROVE n + 1 \in T
    <2>1. CASE n + 1 <= Len(text)
      <3>1. n + 1 \in 0 .. Len(text) /\ n + 1 \in 0 .. Len(text) + 1
            /\ n + 1 # 0 /\ (n + 1) - 1 = n
        BY <2>1
      <3>2. f[n + 1] = Cut(f[n], text[n + 1])
        BY <1>2, <3>1 DEF Splits
      <3>3. g[n + 1] = Cut(g[n], longer[n + 1])
        BY <1>3, <3>1 DEF Splits
      <3> QED
        BY <1>1, <1>5, <2>1, <3>2, <3>3
    <2> QED
      BY <2>1
  <1>6. Len(text) \in T
    <2> HIDE DEF T
    <2>1. Nat \subseteq T
      BY <1>4, <1>5, Induction
    <2> QED
      BY <2>1
  <1>7. g[Len(text) + 1] = Cut(g[Len(text)], byte)
    BY <1>1, <1>3 DEF Splits
  <1> QED
    BY <1>2, <1>3, <1>6, <1>7 DEF longer

LEMMA ConcatAppend ==
  ASSUME NEW s \in Seq(Int), NEW t \in Seq(Int), NEW e \in Int
  PROVE  s \o Append(t, e) = Append(s \o t, e)
  <1>1. <<e>> \in Seq(Int) /\ s \o t \in Seq(Int)
    OBVIOUS
  <1>2. s \o (t \o <<e>>) = (s \o t) \o <<e>>
    BY <1>1, ConcatAssociative
  <1> QED
    BY <1>1, <1>2, AppendIsConcat

LEMMA CutAtEnd ==
  ASSUME NEW front \in Seq(Seq(Int)), NEW last \in Seq(Int), NEW byte \in Int,
         byte # Delimiter
  PROVE  Cut(Append(front, last), byte) = Append(front, Append(last, byte))
  <1> DEFINE fields == Append(front, last)  longer == Append(last, byte)
  <1>1. fields \in Seq(Seq(Int)) /\ Len(fields) = Len(front) + 1 /\ fields[Len(fields)] = last
    BY AppendProperties
  <1>2. longer \in Seq(Int)
    OBVIOUS
  <1>3. Cut(fields, byte) = [fields EXCEPT ![Len(fields)] = longer]
    BY <1>1 DEF Cut
  <1> DEFINE cut == [fields EXCEPT ![Len(fields)] = longer]
  <1> HIDE DEF fields, longer
  <1>4. /\ cut \in Seq(Seq(Int)) /\ Len(cut) = Len(fields)
        /\ \A j \in 1 .. Len(fields) : cut[j] = IF j = Len(fields) THEN longer ELSE fields[j]
    <2>1. Len(fields) \in 1 .. Len(fields)
      BY <1>1
    <2> QED
      BY <1>1, <1>2, <2>1, ExceptSeq
  <1>5. /\ Append(front, longer) \in Seq(Seq(Int)) /\ Len(Append(front, longer)) = Len(fields)
        /\ \A j \in 1 .. Len(front) : Append(front, longer)[j] = front[j] /\ fields[j] = front[j]
        /\ Append(front, longer)[Len(fields)] = longer
    BY <1>1, <1>2, AppendProperties DEF fields
  <1> HIDE DEF cut
  <1>6. \A j \in 1 .. Len(cut) : cut[j] = Append(front, longer)[j]
    BY <1>1, <1>4, <1>5
  <1>7. cut = Append(front, longer)
    BY <1>4, <1>5, <1>6, SeqEqual
  <1> QED
    BY <1>3, <1>7 DEF cut, fields, longer

\* A word without the delimiter goes to the end of the last field.
LEMMA SplitWord ==
  ASSUME NEW text \in Seq(Int), NEW word \in Seq(Int),
         \A i \in DOMAIN word : word[i] # Delimiter,
         NEW front \in Seq(Seq(Int)), NEW last \in Seq(Int),
         Split(text) = Append(front, last)
  PROVE  Split(text \o word) = Append(front, last \o word)
  <1> DEFINE Part(n) == SubSeq(word, 1, n)
             T == {n \in Nat : n <= Len(word) =>
                     Split(text \o Part(n)) = Append(front, last \o Part(n))}
  <1>1. Part(0) = <<>> /\ Part(Len(word)) = word
    OBVIOUS
  <1>2. text \o <<>> = text /\ last \o <<>> = last
    OBVIOUS
  <1>3. 0 \in T
    BY <1>1, <1>2
  <1>4. ASSUME NEW n \in Nat, n \in T PROVE n + 1 \in T
    <2> SUFFICES ASSUME n + 1 <= Len(word)
                 PROVE  Split(text \o Part(n + 1)) = Append(front, last \o Part(n + 1))
      OBVIOUS
    <2>3. Split(text \o Part(n)) = Append(front, last \o Part(n))
      BY <1>4
    <2> HIDE DEF T
    <2>1. n + 1 \in DOMAIN word /\ word[n + 1] \in Int
      OBVIOUS
    <2>0. word[n + 1] # Delimiter
      BY <2>1
    <2>2. Part(n) \in Seq(Int) /\ Part(n + 1) = Append(Part(n), word[n + 1])
      OBVIOUS
    <2> HIDE DEF Part
    <2> DEFINE done == last \o Part(n)
    <2>4. /\ text \o Part(n) \in Seq(Int) /\ done \in Seq(Int)
          /\ text \o Part(n + 1) = Append(text \o Part(n), word[n + 1])
          /\ last \o Part(n + 1) = Append(done, word[n + 1])
      <3> DEFINE part == Part(n)  byte == word[n + 1]
      <3>1. part \in Seq(Int) /\ byte \in Int
        BY <2>1, <2>2
      <3> HIDE DEF part, byte
      <3>2. text \o part \in Seq(Int) /\ last \o part \in Seq(Int)
        BY <3>1
      <3>3. text \o Append(part, byte) = Append(text \o part, byte)
        BY <3>1, ConcatAppend
      <3>4. last \o Append(part, byte) = Append(last \o part, byte)
        BY <3>1, ConcatAppend
      <3> QED
        BY <2>2, <3>2, <3>3, <3>4 DEF part, byte
    <2>5. Split(text \o Part(n + 1)) = Cut(Append(front, done), word[n + 1])
      BY <2>1, <2>3, <2>4, SplitAppend
    <2> HIDE DEF done
    <2>6. Cut(Append(front, done), word[n + 1]) = Append(front, Append(done, word[n + 1]))
      BY <2>0, <2>1, <2>4, CutAtEnd
    <2> QED
      BY <2>4, <2>5, <2>6
  <1>5. Len(word) \in T
    <2> HIDE DEF T
    <2>1. Nat \subseteq T
      BY <1>3, <1>4, Induction
    <2> QED
      BY <2>1
  <1> HIDE DEF Part
  <1> QED
    BY <1>1, <1>5

\* Split undoes Join, for any number of fields of any length without the delimiter.
LEMMA SplitJoin ==
  ASSUME Delimiter \in Int, NEW vec \in Seq(Seq(Int)),
         \A k \in DOMAIN vec : \A i \in DOMAIN vec[k] : vec[k][i] # Delimiter
  PROVE  Split(Join(vec)) = IF vec = <<>> THEN << <<>> >> ELSE vec
  <1>1. PICK f : Joins(vec, Len(vec), f) /\ Join(vec) = f[Len(vec)]
    BY JoinIs
  <1>2. CASE vec = <<>>
    BY <1>1, <1>2, SplitEmpty DEF Joins
  <1>3. CASE vec # <<>>
    <2> DEFINE T == {n \in Nat : n + 1 <= Len(vec) =>
                       f[n + 1] \in Seq(Int) /\ Split(f[n + 1]) = SubSeq(vec, 1, n + 1)}
    <2>1. 0 \in T
      <3>1. vec[1] \in Seq(Int) /\ \A i \in DOMAIN vec[1] : vec[1][i] # Delimiter
        BY <1>3
      <3>2. f[1] = <<>> \o vec[1]
        <4>1. Len(vec) \in Nat \ {0}
          BY <1>3, EmptySeq
        <4>2. f[0] = <<>> /\ f[1] = Glue(f[0], 1, vec[1])
          BY <1>1, <4>1 DEF Joins
        <4> QED
          BY <4>2 DEF Glue
      <3>3. <<>> \in Seq(Seq(Int)) /\ <<>> \in Seq(Int) /\ << <<>> >> = Append(<<>>, <<>>)
        OBVIOUS
      <3>4. Split(<<>> \o vec[1]) = Append(<<>>, <<>> \o vec[1])
        <4>1. Split(<<>>) = Append(<<>>, <<>>)
          BY <3>3, SplitEmpty
        <4> QED
          BY <3>1, <3>3, <4>1, SplitWord
      <3>5. <<>> \o vec[1] = vec[1]
        BY <3>1, ConcatEmptySeq
      <3>6. SubSeq(vec, 1, 1) = <<vec[1]>>
        <4>1. Len(vec) \in Nat \ {0}
          BY <1>3, EmptySeq
        <4>2. SubSeq(vec, 1, 1) = SubSeq(vec, 1, 1 - 1) \o <<vec[1]>>
          BY <4>1, SubSeqRecursiveSecond
        <4>3. SubSeq(vec, 1, 1 - 1) = <<>> /\ <<vec[1]>> \in Seq(Seq(Int))
          BY <3>1, SubSeqEmpty
        <4> QED
          BY <4>2, <4>3, ConcatEmptySeq
      <3> QED
        BY <3>1, <3>2, <3>4, <3>5, <3>6
    <2>2. ASSUME NEW n \in Nat, n \in T PROVE n + 1 \in T
      <3> SUFFICES ASSUME n + 2 <= Len(vec)
                   PROVE  f[n + 2] \in Seq(Int) /\ Split(f[n + 2]) = SubSeq(vec, 1, n + 2)
        OBVIOUS
      <3> DEFINE text == f[n + 1]  front == SubSeq(vec, 1, n + 1)  word == vec[n + 2]
      <3>1. text \in Seq(Int) /\ Split(text) = front
        BY <2>2
      <3>2. f[n + 2] = Append(text, Delimiter) \o word
        <4>1. n + 2 \in 0 .. Len(vec) /\ n + 2 # 0 /\ n + 2 # 1 /\ (n + 2) - 1 = n + 1
          OBVIOUS
        <4>2. f[n + 2] = Glue(f[n + 1], n + 2, vec[n + 2])
          BY <1>1, <4>1 DEF Joins
        <4> QED
          BY <4>1, <4>2 DEF Glue
      <3>3. /\ front \in Seq(Seq(Int)) /\ word \in Seq(Int)
            /\ \A i \in DOMAIN word : word[i] # Delimiter
            /\ SubSeq(vec, 1, n + 2) = Append(front, word)
        OBVIOUS
      <3> HIDE DEF text, front, word
      <3>4. Split(Append(text, Delimiter)) = Append(front, <<>>)
        BY <3>1, SplitAppend DEF Cut
      <3>5. Append(text, Delimiter) \in Seq(Int) /\ <<>> \in Seq(Int)
        BY <3>1
      <3>6. Split(Append(text, Delimiter) \o word) = Append(front, <<>> \o word)
        BY <3>3, <3>4, <3>5, SplitWord
      <3>7. <<>> \o word = word /\ Append(text, Delimiter) \o word \in Seq(Int)
        BY <3>3, <3>5
      <3> QED
        BY <3>2, <3>3, <3>6, <3>7
    <2>3. Len(vec) - 1 \in T
      <3> HIDE DEF T
      <3>1. Nat \subseteq T
        BY <2>1, <2>2, Induction
      <3> QED
        BY <1>3, <3>1
    <2>4. SubSeq(vec, 1, Len(vec)) = vec /\ (Len(vec) - 1) + 1 = Len(vec)
      OBVIOUS
    <2> QED
      BY <1>1, <1>3, <2>3, <2>4
  <1> QED
    BY <1>2, <1>3

-----------------------------------------------------------------------------
(* The two messages *)

LEMMA RequestFormat ==
  ASSUME NEW r \in Requests
  PROVE  /\ Format(RequestFields, RequestBytes(r))
         /\ RequestPieces(r) = Pieces(RequestFields, RequestBytes(r), 1)
         /\ RequestPieces(r) \in Seq(Seq(Byte)) /\ Len(RequestPieces(r)) = 5
  <1> DEFINE m == RequestBytes(r)
             o == RequestFields
  <1>0. r.vec \in Seq(Seq(Byte)) /\ Byte \subseteq Int
    BY MessagesAssumption DEF Byte
  <1>1. r.type \in Number /\ r.user_id \in Number /\ r.target \in Number
        /\ Join(r.vec) \in Seq(Byte) /\ Len(Join(r.vec)) \in Number
    BY <1>0, JoinSeq, MessagesAssumption, WireAssumption
  <1>2. /\ m["type"] = IntBytes(r.type) /\ m["user_id"] = IntBytes(r.user_id)
        /\ m["target"] = IntBytes(r.target) /\ m["len"] = IntBytes(Len(Join(r.vec)))
        /\ m["text"] = Join(r.vec) /\ m["success"] = <<>>
    BY DEF RequestBytes, Names
  <1>3. m \in [Names -> Seq(Byte)]
    <2>1. m = [f \in Names |-> m[f]]
      BY DEF RequestBytes
    <2> HIDE DEF m
    <2>2. /\ m["type"] \in Seq(Byte) /\ m["user_id"] \in Seq(Byte) /\ m["target"] \in Seq(Byte)
          /\ m["len"] \in Seq(Byte) /\ m["text"] \in Seq(Byte) /\ m["success"] \in Seq(Byte)
      BY <1>1, <1>2, Spelled
    <2>3. \A f \in Names : m[f] \in Seq(Byte)
      BY <2>2 DEF Names
    <2> QED
      BY <2>1, <2>3
  <1>4. /\ o \in Seq(Names) /\ Len(o) = 5
        /\ o[1] = "type" /\ o[2] = "user_id" /\ o[3] = "target" /\ o[4] = "len" /\ o[5] = "text"
    BY DEF RequestFields, Names
  <1>5. \A i \in 1 .. 5 : i = 1 \/ i = 2 \/ i = 3 \/ i = 4 \/ i = 5
    OBVIOUS
  <1> HIDE DEF m, o
  <1>6. \A i \in 1 .. Len(o) : o[i] # "text" => Len(m[o[i]]) = Width
    BY <1>1, <1>2, <1>4, <1>5, Spelled
  <1>7. Values(m["len"]) = {Len(m["text"])}
    BY <1>1, <1>2, Spelled
  <1>8. Format(o, m)
    BY <1>3, <1>4, <1>5, <1>6, <1>7 DEF Format
  <1> DEFINE p == Pieces(o, m, 1)
             q == <<m["type"], m["user_id"], m["target"]>> \o <<m["len"], m["text"]>>
             all == <<m["type"], m["user_id"], m["target"], m["len"], m["text"]>>
  <1>9. RequestPieces(r) = q
    BY <1>2 DEF RequestPieces, Text
  <1>10. p \in Seq(Seq(Byte)) /\ Len(p) = 5
    BY <1>4, <1>8, PiecesType
  <1>11. \A i \in 1 .. 5 : p[i] = m[o[i]]
    BY <1>4 DEF Pieces
  <1>12. \A i \in 1 .. 5 : all[i] = m[o[i]]
    BY <1>4, <1>5
  <1>13. /\ m["type"] \in Seq(Byte) /\ m["user_id"] \in Seq(Byte) /\ m["target"] \in Seq(Byte)
         /\ m["len"] \in Seq(Byte) /\ m["text"] \in Seq(Byte)
    BY <1>3 DEF Names
  <1>14. q \in Seq(Seq(Byte)) /\ Len(q) = 5 /\ \A i \in 1 .. 5 : q[i] = all[i]
    BY <1>13, FivePieces
  <1> HIDE DEF p, q, all
  <1>15. q = p
    <2>1. \A i \in 1 .. Len(q) : q[i] = p[i]
      BY <1>11, <1>12, <1>14
    <2> QED
      BY <1>10, <1>14, <2>1, SeqEqual
  <1> QED
    BY <1>8, <1>9, <1>10, <1>15 DEF m, o, p

LEMMA ResponseFormat ==
  ASSUME NEW r \in Responses
  PROVE  /\ Format(ResponseFields, ResponseBytes(r))
         /\ ResponsePieces(r) = Pieces(ResponseFields, ResponseBytes(r), 1)
         /\ ResponsePieces(r) \in Seq(Seq(Byte)) /\ Len(ResponsePieces(r)) = 4
  <1> DEFINE m == ResponseBytes(r)
             o == ResponseFields
  <1>1. r.success \in Number /\ r.user_id \in Number
        /\ r.text \in Seq(Byte) /\ Len(r.text) \in Number
    BY MessagesAssumption
  <1>2. /\ m["success"] = IntBytes(r.success) /\ m["user_id"] = IntBytes(r.user_id)
        /\ m["len"] = IntBytes(Len(r.text)) /\ m["text"] = r.text
        /\ m["type"] = <<>> /\ m["target"] = <<>>
    BY DEF ResponseBytes, Names
  <1>3. m \in [Names -> Seq(Byte)]
    <2>1. m = [f \in Names |-> m[f]]
      BY DEF ResponseBytes
    <2> HIDE DEF m
    <2>2. /\ m["type"] \in Seq(Byte) /\ m["user_id"] \in Seq(Byte) /\ m["target"] \in Seq(Byte)
          /\ m["len"] \in Seq(Byte) /\ m["text"] \in Seq(Byte) /\ m["success"] \in Seq(Byte)
      BY <1>1, <1>2, Spelled
    <2>3. \A f \in Names : m[f] \in Seq(Byte)
      BY <2>2 DEF Names
    <2> QED
      BY <2>1, <2>3
  <1>4. /\ o \in Seq(Names) /\ Len(o) = 4
        /\ o[1] = "success" /\ o[2] = "user_id" /\ o[3] = "len" /\ o[4] = "text"
    BY DEF ResponseFields, Names
  <1>5. \A i \in 1 .. 4 : i = 1 \/ i = 2 \/ i = 3 \/ i = 4
    OBVIOUS
  <1> HIDE DEF m, o
  <1>6. \A i \in 1 .. Len(o) : o[i] # "text" => Len(m[o[i]]) = Width
    BY <1>1, <1>2, <1>4, <1>5, Spelled
  <1>7. Values(m["len"]) = {Len(m["text"])}
    BY <1>1, <1>2, Spelled
  <1>8. Format(o, m)
    BY <1>3, <1>4, <1>5, <1>6, <1>7 DEF Format
  <1> DEFINE p == Pieces(o, m, 1)
             q == <<m["success"], m["user_id"]>> \o <<m["len"], m["text"]>>
             all == <<m["success"], m["user_id"], m["len"], m["text"]>>
  <1>9. ResponsePieces(r) = q
    BY <1>2 DEF ResponsePieces, Text
  <1>10. p \in Seq(Seq(Byte)) /\ Len(p) = 4
    BY <1>4, <1>8, PiecesType
  <1>11. \A i \in 1 .. 4 : p[i] = m[o[i]]
    BY <1>4 DEF Pieces
  <1>12. \A i \in 1 .. 4 : all[i] = m[o[i]]
    BY <1>4, <1>5
  <1>13. /\ m["success"] \in Seq(Byte) /\ m["user_id"] \in Seq(Byte)
         /\ m["len"] \in Seq(Byte) /\ m["text"] \in Seq(Byte)
    BY <1>3 DEF Names
  <1>14. q \in Seq(Seq(Byte)) /\ Len(q) = 4 /\ \A i \in 1 .. 4 : q[i] = all[i]
    BY <1>13, FourPieces
  <1> HIDE DEF p, q, all
  <1>15. q = p
    <2>1. \A i \in 1 .. Len(q) : q[i] = p[i]
      BY <1>11, <1>12, <1>14
    <2> QED
      BY <1>10, <1>14, <2>1, SeqEqual
  <1> QED
    BY <1>8, <1>9, <1>10, <1>15 DEF m, o, p

-----------------------------------------------------------------------------
(* The inductive invariant *)

AnEnd ==
  [pc : {"idle", "left", "listen", "down", "write", "read"},
   out : Seq(Seq(Byte)), fields : Seq(Names),
   got : [Names \ {"text"} -> Word], text : Seq(Byte)]

Typed ==
  /\ end \in [Sides -> AnEnd]
  /\ \A x \in Sides : Len(end[x].out) \in 0 .. 5 /\ Len(end[x].text) < HugeLen
  /\ end["client"].pc \in {"idle", "write", "read", "left"}
  /\ end["server"].pc \in {"listen", "read", "write", "down"}
  /\ inq \in [Sides -> Seq(Byte)]
  /\ gone \in [Sides -> {"no", "fin", "rst"}]
  /\ rst \in [Sides -> {"no", "coming", "here", "noted"}]
  /\ short \subseteq Sides

Serving == At("server", "read") \/ At("server", "write")
Feeding == At("client", "write") \/ At("client", "read")

\* What one end does and what became of the connection: an end that reads or
\* writes has not left, only an end that left is reset by, only a writer has
\* something to write, and a request that is read was not answered yet.
Linked ==
  /\ \A x \in Sides : rst[x] # "no" => gone[Other(x)] # "no"
  /\ Serving => gone["server"] = "no" /\ sent \in Requests
  /\ Feeding => gone["client"] = "no" /\ sent \in Requests
  /\ \A x \in Sides : end[x].out # <<>> => At(x, "write")
  /\ At("server", "read") => executed = None /\ answered = None
  /\ At("server", "write") => answered \in Responses
  /\ answered = None \/ answered \in Responses

Order(x) == IF x = "server" THEN RequestFields ELSE ResponseFields
Message(x) == IF x = "server" THEN RequestBytes(sent) ELSE ResponseBytes(answered)

\* What x has still to read is on its way, or its peer will write it, unless
\* the peer has left.
Delivered(x) ==
  \E k \in 1 .. Len(Order(x)) + 1 : \E rest \in Seq(Byte) :
    /\ Arrives(Order(x), Message(x), end[x], k, inq[x], rest)
    /\ gone[Other(x)] = "no" => rest = Flat(end[Other(x)].out)

Unanswered ==
  end["client"].fields = ResponseFields /\ inq["client"] = <<>> /\ end["server"].out = <<>>

ServerHears == At("server", "read") /\ "server" \notin short => Delivered("server")
ClientHears ==
  Feeding /\ "client" \notin short =>
    IF answered = None THEN Unanswered ELSE Delivered("client")

\* The answer that feed returned, or made up because nobody listened.
Answered ==
  At("client", "idle") /\ sent # None /\ "client" \notin short =>
    LET resp == end["client"]
    IN \/ /\ answered # None
          /\ resp.got["success"] = IntBytes(answered.success)
          /\ resp.got["user_id"] = IntBytes(answered.user_id)
          /\ resp.text = answered.text
       \/ executed = None /\ resp.got["success"] = IntBytes(0) /\ ~Serving

Inv == Typed /\ Linked /\ ServerHears /\ ClientHears /\ ExecutedAsSent /\ Answered

-----------------------------------------------------------------------------
(* Ends *)

LEMMA Peers ==
  ASSUME NEW x \in Sides
  PROVE  /\ Other(x) \in Sides /\ Other(x) # x /\ Other(Other(x)) = x
         /\ \A y \in Sides : y = x \/ y = Other(x)
         /\ x = "server" <=> Other(x) = "client"
         /\ x = "client" <=> Other(x) = "server"
  BY DEF Sides, Other

LEMMA UntouchedWord == Untouched \in Word
  BY DEF Untouched, Word, Width

LEMMA EndIs ==
  ASSUME NEW pc \in {"idle", "left", "listen", "down", "write", "read"}
  PROVE  /\ End(pc) \in AnEnd /\ End(pc).pc = pc /\ End(pc).out = <<>>
         /\ End(pc).fields = <<>> /\ End(pc).text = <<>>
         /\ End(pc).got = [f \in Names \ {"text"} |-> Untouched]
  <1>1. Names \ {"text"} = {"type", "user_id", "target", "success", "len"}
    BY DEF Names
  <1> QED
    BY <1>1, UntouchedWord DEF End, AnEnd

\* One end changes, the other does not.
LEMMA BecomesIs ==
  ASSUME end \in [Sides -> AnEnd], NEW x \in Sides, NEW e \in AnEnd, Becomes(x, e)
  PROVE  end' \in [Sides -> AnEnd] /\ end'[x] = e /\ end'[Other(x)] = end[Other(x)]
  BY Peers DEF Becomes

LEMMA EndFields ==
  ASSUME NEW e \in AnEnd
  PROVE  /\ e.pc \in {"idle", "left", "listen", "down", "write", "read"}
         /\ e.out \in Seq(Seq(Byte)) /\ e.fields \in Seq(Names)
         /\ e.got \in [Names \ {"text"} -> Word] /\ e.text \in Seq(Byte)
  BY DEF AnEnd

LEMMA OutIs ==
  ASSUME NEW e \in AnEnd, NEW t \in Seq(Seq(Byte)), NEW d, d = [e EXCEPT !.out = t]
  PROVE  d \in AnEnd
  BY DEF AnEnd

\* A piece was written.
LEMMA WroteIs ==
  ASSUME NEW e \in AnEnd, e.out # <<>>, NEW d, d = [e EXCEPT !.out = Tail(@)]
  PROVE  /\ d \in AnEnd /\ d.pc = e.pc /\ d.out = Tail(e.out) /\ d.fields = e.fields
         /\ d.got = e.got /\ d.text = e.text
         /\ Len(e.out) \in 0 .. 5 => Len(d.out) \in 0 .. 5
  <1>1. e.out \in Seq(Seq(Byte))
    BY EndFields
  <1>2. Tail(e.out) \in Seq(Seq(Byte)) /\ Len(Tail(e.out)) = Len(e.out) - 1
    BY <1>1, HeadTailProperties
  <1>3. Len(e.out) \in Nat /\ Len(e.out) # 0
    BY <1>1, EmptySeq
  <1>4. Len(e.out) \in 0 .. 5 => Len(Tail(e.out)) \in 0 .. 5
    BY <1>2, <1>3
  <1>5. d \in AnEnd
    <2> DEFINE t == Tail(e.out)
    <2>1. d = [e EXCEPT !.out = t] /\ t \in Seq(Seq(Byte))
      BY <1>2
    <2> HIDE DEF t
    <2> QED
      BY <2>1, OutIs
  <1>6. d.pc = e.pc /\ d.out = Tail(e.out) /\ d.fields = e.fields /\ d.got = e.got /\ d.text = e.text
    BY DEF AnEnd
  <1> QED
    BY <1>4, <1>5, <1>6

\* An end waits, or leaves.
LEMMA PcIs ==
  ASSUME NEW e \in AnEnd, NEW pc \in {"idle", "left", "listen", "down", "write", "read"},
         NEW d, d = [e EXCEPT !.pc = pc]
  PROVE  /\ d \in AnEnd /\ d.pc = pc /\ d.out = e.out /\ d.fields = e.fields
         /\ d.got = e.got /\ d.text = e.text
  BY DEF AnEnd

-----------------------------------------------------------------------------
(* What the operations of a socket do *)

\* The bytes that a recv returns are the first of those that wait.
LEMMA ReceivedIs ==
  ASSUME NEW x, inq[x] \in Seq(Byte), NEW n \in Nat, NEW bytes \in Received(x, n)
  PROVE  /\ bytes \in Seq(Byte) /\ Len(bytes) \in 0 .. n /\ Len(bytes) \in 0 .. Len(inq[x])
         /\ bytes = SubSeq(inq[x], 1, Len(bytes))
  <1> DEFINE q == inq[x]
  <1>1. q \in Seq(Byte) /\ Len(q) \in Nat
    BY LenProperties
  <1>2. \/ bytes = <<>>
        \/ q # <<>> /\ n # 0 /\ \E k \in 1 .. Min({n, Len(q)}) : bytes = SubSeq(q, 1, k)
    BY DEF Received
  <1> HIDE DEF q
  <1>3. CASE bytes = <<>>
    <2>1. bytes \in Seq(Byte) /\ Len(bytes) = 0
      BY <1>3
    <2>2. SubSeq(q, 1, 0) = <<>>
      BY SubSeqEmpty
    <2> QED
      BY <1>1, <1>3, <2>1, <2>2 DEF q
  <1>4. CASE q # <<>> /\ n # 0 /\ \E k \in 1 .. Min({n, Len(q)}) : bytes = SubSeq(q, 1, k)
    <2>1. PICK k \in 1 .. Min({n, Len(q)}) : bytes = SubSeq(q, 1, k)
      BY <1>4
    <2>2. Min({n, Len(q)}) \in Nat /\ Min({n, Len(q)}) <= n /\ Min({n, Len(q)}) <= Len(q)
      <3>1. \E a \in {n, Len(q)} : \A b \in {n, Len(q)} : a <= b
        BY <1>1
      <3> QED
        BY <1>1, <3>1 DEF Min
    <2>3. k \in 0 .. Len(q) /\ k \in 0 .. n
      BY <1>1, <2>1, <2>2
    <2>4. bytes \in Seq(Byte)
      BY <1>1, <2>1, <2>3, CutLast
    <2>5. Len(bytes) = k
      BY <1>1, <2>1, <2>3
    <2> QED
      BY <2>1, <2>3, <2>4, <2>5 DEF q
  <1> QED
    BY <1>2, <1>3, <1>4

\* A buffer keeps its size, and is what was received if that was enough.
LEMMA FilledIs ==
  ASSUME NEW S, NEW buffer \in Seq(S), NEW bytes \in Seq(S), NEW n \in Nat,
         Len(buffer) = n, Len(bytes) \in 0 .. n
  PROVE  /\ Filled(buffer, bytes) \in Seq(S) /\ Len(Filled(buffer, bytes)) = n
         /\ Len(bytes) = n => Filled(buffer, bytes) = bytes
  <1> DEFINE more == SubSeq(buffer, Len(bytes) + 1, Len(buffer))
  <1>1. more \in Seq(S) /\ Len(more) = n - Len(bytes)
    OBVIOUS
  <1>2. Len(bytes) = n => more = <<>>
    BY SubSeqEmpty
  <1> HIDE DEF more
  <1>3. bytes \o more \in Seq(S) /\ Len(bytes \o more) = Len(bytes) + Len(more)
    BY <1>1, ConcatProperties
  <1>4. Len(bytes) = n => bytes \o more = bytes
    BY <1>2, ConcatEmptySeq
  <1>5. Len(bytes) + Len(more) = n
    BY <1>1
  <1> QED
    BY <1>3, <1>4, <1>5 DEF Filled, more

\* After a recv of n bytes.
LEMMA TakesIs ==
  ASSUME inq \in [Sides -> Seq(Byte)], rst \in [Sides -> {"no", "coming", "here", "noted"}],
         short \subseteq Sides,
         NEW x \in Sides, NEW n \in Nat, NEW bytes \in Received(x, n), Takes(x, bytes, n)
  PROVE  /\ inq' \in [Sides -> Seq(Byte)] /\ inq'[x] = Dropped(inq[x], Len(bytes))
         /\ inq'[Other(x)] = inq[Other(x)]
         /\ rst' \in [Sides -> {"no", "coming", "here", "noted"}]
         /\ \A y \in Sides : rst'[y] # "no" => rst[y] # "no"
         /\ short' \subseteq Sides /\ short \subseteq short'
         /\ Other(x) \in short' => Other(x) \in short
         /\ x \notin short' => x \notin short /\ Len(bytes) = n
         /\ gone' = gone /\ sent' = sent /\ executed' = executed /\ answered' = answered
  <1>1. inq[x] \in Seq(Byte) /\ Len(bytes) \in 0 .. n /\ Len(bytes) \in 0 .. Len(inq[x])
    BY ReceivedIs
  <1>2. Dropped(inq[x], Len(bytes)) \in Seq(Byte)
    BY <1>1, CutLast
  <1>3. inq' = [inq EXCEPT ![x] = Dropped(inq[x], Len(bytes))]
    BY DEF Takes, Dropped
  <1>4. inq' \in [Sides -> Seq(Byte)] /\ inq'[x] = Dropped(inq[x], Len(bytes))
        /\ inq'[Other(x)] = inq[Other(x)]
    BY <1>2, <1>3, Peers
  <1>5. rst' \in [Sides -> {"no", "coming", "here", "noted"}]
        /\ \A y \in Sides : rst'[y] # "no" => rst[y] # "no"
    BY DEF Takes
  <1>6. ~(Len(bytes) < n) => Len(bytes) = n
    BY <1>1
  <1>7. /\ short' \subseteq Sides /\ short \subseteq short'
        /\ Other(x) \in short' => Other(x) \in short
        /\ x \notin short' => x \notin short /\ Len(bytes) = n
    BY <1>6, Peers DEF Takes
  <1> QED
    BY <1>4, <1>5, <1>7 DEF Takes

\* After an end left: nobody reads there, and its peer may be reset.
LEMMA LeavesIs ==
  ASSUME inq \in [Sides -> Seq(Byte)], gone \in [Sides -> {"no", "fin", "rst"}],
         rst \in [Sides -> {"no", "coming", "here", "noted"}],
         NEW x \in Sides, NEW unread, LeavesUnread(x, unread)
  PROVE  /\ inq' \in [Sides -> Seq(Byte)] /\ inq'[Other(x)] = inq[Other(x)]
         /\ gone' \in [Sides -> {"no", "fin", "rst"}]
         /\ gone'[x] # "no" /\ gone'[Other(x)] = gone[Other(x)]
         /\ rst' \in [Sides -> {"no", "coming", "here", "noted"}]
         /\ rst'[x] = rst[x]
  <1>1. inq' = [inq EXCEPT ![x] = <<>>]
    BY DEF LeavesUnread
  <1>2. inq' \in [Sides -> Seq(Byte)] /\ inq'[Other(x)] = inq[Other(x)]
    BY <1>1, Peers
  <1>3. /\ gone' \in [Sides -> {"no", "fin", "rst"}]
        /\ gone'[x] # "no" /\ gone'[Other(x)] = gone[Other(x)]
    BY Peers DEF LeavesUnread
  <1>4. rst' \in [Sides -> {"no", "coming", "here", "noted"}] /\ rst'[x] = rst[x]
    BY Peers DEF LeavesUnread
  <1> QED
    BY <1>2, <1>3, <1>4

\* After a send: the bytes are on their way, or the peer has left.
LEMMA SendsIs ==
  ASSUME inq \in [Sides -> Seq(Byte)], rst \in [Sides -> {"no", "coming", "here", "noted"}],
         \A y \in Sides : rst[y] # "no" => gone[Other(y)] # "no",
         NEW x \in Sides, NEW bytes \in Seq(Byte), Sends(x, bytes)
  PROVE  /\ inq' \in [Sides -> Seq(Byte)] /\ inq'[x] = inq[x]
         /\ gone[Other(x)] = "no" => inq'[Other(x)] = inq[Other(x)] \o bytes
         /\ gone' = gone
         /\ rst' \in [Sides -> {"no", "coming", "here", "noted"}]
         /\ \A y \in Sides : rst'[y] # "no" => gone[Other(y)] # "no"
  <1>1. CASE /\ rst[x] \in {"no", "coming"} /\ gone[Other(x)] = "no"
             /\ inq' = [inq EXCEPT ![Other(x)] = @ \o bytes]
             /\ UNCHANGED <<gone, rst>>
    <2>1. inq[Other(x)] \o bytes \in Seq(Byte)
      BY Peers, ConcatProperties
    <2> QED
      BY <1>1, <2>1, Peers
  <1>2. CASE /\ rst[x] \in {"no", "coming"} /\ gone[Other(x)] # "no"
             /\ rst' = [rst EXCEPT ![x] = "coming"]
             /\ UNCHANGED <<gone, inq>>
    BY <1>2
  <1>3. CASE /\ rst[x] = "here"
             /\ rst' = [rst EXCEPT ![x] = "noted"]
             /\ UNCHANGED <<gone, inq>>
    BY <1>3
  <1> QED
    BY <1>1, <1>2, <1>3 DEF Sends

-----------------------------------------------------------------------------
(* Types *)

\* The four kinds of changes to an end that reads or writes.
LEMMA WriteDoes ==
  ASSUME Typed, NEW x \in Sides, Write(x)
  PROVE  /\ At(x, "write") /\ end[x].out \in Seq(Seq(Byte)) /\ end[x].out # <<>>
         /\ end' \in [Sides -> AnEnd] /\ end'[Other(x)] = end[Other(x)]
         /\ end'[x].pc = end[x].pc /\ end'[x].out = Tail(end[x].out)
         /\ end'[x].fields = end[x].fields /\ end'[x].got = end[x].got
         /\ end'[x].text = end[x].text
         /\ Len(end'[x].out) \in 0 .. 5
         /\ Head(end[x].out) \in Seq(Byte) /\ Sends(x, Head(end[x].out))
         /\ sent' = sent /\ executed' = executed /\ answered' = answered /\ short' = short
  <1> DEFINE e == end[x]
             d == [e EXCEPT !.out = Tail(@)]
  <1>1. e \in AnEnd /\ e.out # <<>> /\ Len(e.out) \in 0 .. 5 /\ e.out \in Seq(Seq(Byte))
    BY EndFields DEF Typed, Write
  <1>2. end \in [Sides -> AnEnd]
    BY DEF Typed
  <1>3. Becomes(x, d)
    BY DEF Write
  <1>4. d = [e EXCEPT !.out = Tail(@)]
    OBVIOUS
  <1> HIDE DEF d, e
  <1>5. /\ d \in AnEnd /\ d.pc = e.pc /\ d.out = Tail(e.out) /\ d.fields = e.fields
        /\ d.got = e.got /\ d.text = e.text /\ Len(d.out) \in 0 .. 5
    BY <1>1, <1>4, WroteIs
  <1>6. end' \in [Sides -> AnEnd] /\ end'[x] = d /\ end'[Other(x)] = end[Other(x)]
    BY <1>2, <1>3, <1>5, BecomesIs
  <1>7. Head(e.out) \in Seq(Byte)
    BY <1>1, HeadTailProperties
  <1>8. /\ At(x, "write") /\ Sends(x, Head(e.out))
        /\ sent' = sent /\ executed' = executed /\ answered' = answered /\ short' = short
    BY DEF Write, e, history
  <1> QED
    BY <1>1, <1>5, <1>6, <1>7, <1>8 DEF e

\* What a read has in common, whatever it reads: n bytes into one field.
Reads(x, n, bytes, d) ==
  /\ At(x, "read") /\ end[x].fields # <<>>
  /\ bytes \in Received(x, n) /\ Takes(x, bytes, n)
  /\ d \in AnEnd /\ d.pc = end[x].pc /\ d.out = end[x].out /\ d.fields = Tail(end[x].fields)
  /\ Becomes(x, d)

LEMMA ReadIntDoes ==
  ASSUME Typed, NEW x \in Sides, ReadInt(x)
  PROVE  \E bytes, d :
           /\ Reads(x, Width, bytes, d) /\ d.text = end[x].text
           /\ Head(end[x].fields) \in Names \ {"len", "text"}
           /\ Len(bytes) = Width => d.got[Head(end[x].fields)] = bytes
           /\ \A g \in Names \ {"text"} :
                g # Head(end[x].fields) => d.got[g] = end[x].got[g]
  <1> DEFINE e == end[x]
             f == Head(e.fields)
  <1>1. e \in AnEnd /\ e.fields # <<>> /\ f \notin {"len", "text"} /\ At(x, "read")
        /\ inq[x] \in Seq(Byte)
    BY DEF Typed, ReadInt
  <1>2. PICK bytes \in Received(x, Width) :
          /\ Takes(x, bytes, Width)
          /\ Becomes(x, [e EXCEPT !.fields = Tail(@), !.got[f] = Filled(@, bytes)])
    BY DEF ReadInt
  <1> DEFINE w == Filled(e.got[f], bytes)
             d == [e EXCEPT !.fields = Tail(@), !.got[f] = w]
  <1>3. bytes \in Seq(Byte) /\ Len(bytes) \in 0 .. Width
    BY <1>1, ReceivedIs DEF Width
  <1>4. e.fields \in Seq(Names) /\ e.got \in [Names \ {"text"} -> Word]
    BY <1>1, EndFields
  <1>5. f \in Names \ {"text"} /\ f \in Names \ {"len", "text"}
    BY <1>1, <1>4, HeadTailProperties
  <1>6. [e EXCEPT !.fields = Tail(@), !.got[f] = Filled(@, bytes)] = d
    BY <1>1, <1>4, <1>5 DEF AnEnd
  <1>7. w \in Word /\ (Len(bytes) = Width => w = bytes)
    <2>1. e.got[f] \in Seq(Byte \cup {Junk}) /\ Len(e.got[f]) = Width
      BY <1>4, <1>5 DEF Word
    <2>2. bytes \in Seq(Byte \cup {Junk}) /\ Width \in Nat
      BY <1>3 DEF Width
    <2> QED
      BY <1>3, <2>1, <2>2, FilledIs DEF Word
  <1>8. d = [e EXCEPT !.fields = Tail(@), !.got[f] = w] /\ f = Head(e.fields)
    OBVIOUS
  <1> HIDE DEF d, w, f, e
  <1>9. /\ d \in AnEnd /\ d.pc = e.pc /\ d.out = e.out /\ d.fields = Tail(e.fields)
        /\ d.text = e.text
        /\ d.got[f] = w /\ \A g \in Names \ {"text"} : g # f => d.got[g] = e.got[g]
    <2>1. Tail(e.fields) \in Seq(Names)
      BY <1>1, <1>4, HeadTailProperties
    <2> DEFINE got == [e.got EXCEPT ![f] = w]
    <2>2. got \in [Names \ {"text"} -> Word] /\ got[f] = w
          /\ \A g \in Names \ {"text"} : g # f => got[g] = e.got[g]
      BY <1>4, <1>5, <1>7
    <2>3. d.got = got /\ d.fields = Tail(e.fields) /\ d.pc = e.pc /\ d.out = e.out
          /\ d.text = e.text
      BY <1>1, <1>8 DEF AnEnd
    <2>4. d = [pc |-> e.pc, out |-> e.out, fields |-> Tail(e.fields), got |-> got,
               text |-> e.text]
      BY <1>1, <1>8 DEF AnEnd
    <2> HIDE DEF got
    <2>5. d \in AnEnd
      BY <1>1, <2>1, <2>2, <2>4 DEF AnEnd
    <2> QED
      BY <2>2, <2>3, <2>5
  <1>10. Reads(x, Width, bytes, d)
    BY <1>1, <1>2, <1>6, <1>9 DEF Reads, e
  <1> QED
    BY <1>5, <1>7, <1>9, <1>10 DEF e, f

LEMMA ReadLenDoes ==
  ASSUME Typed, NEW x \in Sides, ReadLen(x)
  PROVE  \E bytes, d :
           /\ Reads(x, Width, bytes, d) /\ d.got = end[x].got
           /\ Head(end[x].fields) = "len"
           /\ Len(bytes) = Width => Len(d.text) \in Values(bytes)
           /\ Len(d.text) < HugeLen
  <1> DEFINE e == end[x]
  <1>1. e \in AnEnd /\ e.fields # <<>> /\ Head(e.fields) = "len" /\ At(x, "read")
        /\ inq[x] \in Seq(Byte)
    BY DEF Typed, ReadLen
  <1>2. PICK bytes \in Received(x, Width) :
          /\ Takes(x, bytes, Width)
          /\ \E len \in Values(Filled(Untouched, bytes)) :
               /\ len < HugeLen
               /\ Becomes(x, [e EXCEPT !.fields = Tail(@), !.text = [i \in 1 .. len |-> 0]])
    BY DEF ReadLen
  <1>3. PICK len \in Values(Filled(Untouched, bytes)) :
          /\ len < HugeLen
          /\ Becomes(x, [e EXCEPT !.fields = Tail(@), !.text = [i \in 1 .. len |-> 0]])
    BY <1>2
  <1> DEFINE t == [i \in 1 .. len |-> 0]
             d == [e EXCEPT !.fields = Tail(@), !.text = t]
  <1>4. bytes \in Seq(Byte) /\ Len(bytes) \in 0 .. Width
    BY <1>1, ReceivedIs DEF Width
  <1>5. /\ Filled(Untouched, bytes) \in Seq(Byte \cup {Junk})
        /\ Len(Filled(Untouched, bytes)) = Width
        /\ Len(bytes) = Width => Filled(Untouched, bytes) = bytes
    <2>1. Untouched \in Seq(Byte \cup {Junk}) /\ Len(Untouched) = Width
      BY UntouchedWord DEF Word
    <2>2. bytes \in Seq(Byte \cup {Junk}) /\ Width \in Nat
      BY <1>4 DEF Width
    <2> QED
      BY <1>4, <2>1, <2>2, FilledIs
  <1>6. len \in Nat
    <2> DEFINE b == Filled(Untouched, bytes)
    <2>1. b[1] \in Byte \cup {Junk} /\ b[2] \in Byte \cup {Junk}
      BY <1>5 DEF Width
    <2> HIDE DEF b
    <2>2. \A n \in Values(b) : \E i, j \in Byte : n = i + ByteMod * j
      BY <2>1 DEF Values
    <2>3. \E i, j \in Byte : len = i + ByteMod * j
      BY <1>3, <2>2 DEF b
    <2> QED
      BY <2>3, WireAssumption DEF Byte
  <1>7. t \in Seq(Byte) /\ Len(t) = len
    BY <1>6, WireAssumption DEF Byte
  <1>8. d = [e EXCEPT !.fields = Tail(@), !.text = t] /\ Becomes(x, d)
    BY <1>3
  <1> HIDE DEF d, t, e
  <1>9. /\ d \in AnEnd /\ d.pc = e.pc /\ d.out = e.out /\ d.fields = Tail(e.fields)
        /\ d.text = t /\ d.got = e.got
    <2>1. Tail(e.fields) \in Seq(Names)
      BY <1>1, EndFields, HeadTailProperties
    <2> QED
      BY <1>1, <1>7, <1>8, <2>1 DEF AnEnd
  <1>10. Reads(x, Width, bytes, d)
    BY <1>1, <1>2, <1>8, <1>9 DEF Reads, e
  <1> QED
    BY <1>1, <1>3, <1>5, <1>7, <1>9, <1>10 DEF e

LEMMA ReadTextDoes ==
  ASSUME Typed, NEW x \in Sides, ReadText(x)
  PROVE  \E bytes, d :
           /\ Reads(x, Len(end[x].text), bytes, d) /\ d.got = end[x].got
           /\ Head(end[x].fields) = "text"
           /\ Len(bytes) = Len(end[x].text) => d.text = bytes
           /\ Len(d.text) = Len(end[x].text)
  <1> DEFINE e == end[x]
             n == Len(e.text)
  <1>1. e \in AnEnd /\ e.fields # <<>> /\ Head(e.fields) = "text" /\ At(x, "read")
        /\ inq[x] \in Seq(Byte)
    BY DEF Typed, ReadText
  <1>2. PICK bytes \in Received(x, n) :
          /\ Takes(x, bytes, n)
          /\ Becomes(x, [e EXCEPT !.fields = Tail(@), !.text = Filled(@, bytes)])
    BY DEF ReadText
  <1> DEFINE t == Filled(e.text, bytes)
             d == [e EXCEPT !.fields = Tail(@), !.text = t]
  <1>3. e.text \in Seq(Byte) /\ n \in Nat
    BY <1>1, EndFields
  <1>4. bytes \in Seq(Byte) /\ Len(bytes) \in 0 .. n
    BY <1>1, <1>3, ReceivedIs
  <1>5. t \in Seq(Byte) /\ Len(t) = n /\ (Len(bytes) = n => t = bytes)
    BY <1>3, <1>4, FilledIs
  <1>6. [e EXCEPT !.fields = Tail(@), !.text = Filled(@, bytes)] = d
    BY <1>1 DEF AnEnd
  <1>7. d = [e EXCEPT !.fields = Tail(@), !.text = t] /\ Becomes(x, d)
    BY <1>2, <1>6
  <1> HIDE DEF d, t, e, n
  <1>8. /\ d \in AnEnd /\ d.pc = e.pc /\ d.out = e.out /\ d.fields = Tail(e.fields)
        /\ d.text = t /\ d.got = e.got
    <2>1. Tail(e.fields) \in Seq(Names)
      BY <1>1, EndFields, HeadTailProperties
    <2> QED
      BY <1>1, <1>5, <1>7, <2>1 DEF AnEnd
  <1>9. Reads(x, n, bytes, d)
    BY <1>1, <1>2, <1>7, <1>8 DEF Reads, e
  <1> QED
    BY <1>1, <1>5, <1>8, <1>9 DEF e, n

-----------------------------------------------------------------------------
(* Every step keeps the invariant *)

LEMMA FlatEmpty == Flat(<<>>) = <<>>
  <1>1. /\ Nth(<<>>, 1) = <<>> /\ Nth(<<>>, 2) = <<>> /\ Nth(<<>>, 3) = <<>>
        /\ Nth(<<>>, 4) = <<>> /\ Nth(<<>>, 5) = <<>>
    BY DEF Nth
  <1>2. <<>> \o <<>> = <<>>
    OBVIOUS
  <1> QED
    BY <1>1, <1>2 DEF Flat

\* A response is not the absence of one.
LEMMA ResponseIsOne == ASSUME NEW r \in Responses PROVE r # None
  <1>1. r \in [success : Number, user_id : Number, text : Seq(Byte)]
    BY MessagesAssumption
  <1>2. "success" \in DOMAIN r
    BY <1>1
  <1>3. DOMAIN None = {}
    BY DEF None
  <1> QED
    BY <1>2, <1>3

\* What an end still waits for does not depend on anything else.
LEMMA KeepsDelivered ==
  ASSUME NEW x \in Sides, Delivered(x),
         end'[x].fields = end[x].fields, end'[x].got = end[x].got, end'[x].text = end[x].text,
         inq'[x] = inq[x], sent' = sent, answered' = answered,
         gone'[Other(x)] = "no" =>
           gone[Other(x)] = "no" /\ end'[Other(x)].out = end[Other(x)].out
  PROVE  Delivered(x)'
  <1>1. PICK k \in 1 .. Len(Order(x)) + 1 : \E rest \in Seq(Byte) :
          /\ Arrives(Order(x), Message(x), end[x], k, inq[x], rest)
          /\ gone[Other(x)] = "no" => rest = Flat(end[Other(x)].out)
    BY DEF Delivered
  <1>2. PICK rest \in Seq(Byte) :
          /\ Arrives(Order(x), Message(x), end[x], k, inq[x], rest)
          /\ gone[Other(x)] = "no" => rest = Flat(end[Other(x)].out)
    BY <1>1
  <1>3. Order(x)' = Order(x) /\ Message(x)' = Message(x)
    BY DEF Order, Message
  <1>4. \A f : Holds(end[x], Message(x), f) => Holds(end'[x], Message(x), f)
    BY DEF Holds
  <1>5. Arrives(Order(x), Message(x), end'[x], k, inq'[x], rest)
    BY <1>2, <1>4 DEF Arrives
  <1>6. gone'[Other(x)] = "no" => rest = Flat(end'[Other(x)].out)
    BY <1>2
  <1> QED
    BY <1>3, <1>5, <1>6 DEF Delivered

\* The parts of the invariant that only name what the requests were.
LEMMA KeepsExecuted ==
  ASSUME ExecutedAsSent, sent' = sent, executed' = executed, short \subseteq short'
  PROVE  ExecutedAsSent'
  BY DEF ExecutedAsSent

\* A client that leaves takes nothing from what the server still reads.
LEMMA ClientGone ==
  ASSUME Inv, Feeding, NEW unread, LeavesUnread("client", unread), NEW d \in AnEnd,
         d.pc \in {"idle", "left"}, d.out = <<>>, Len(d.text) < HugeLen,
         Becomes("client", d), sent' = sent, executed' = executed, answered' = answered,
         short \subseteq short', short' \subseteq Sides, "server" \in short' => "server" \in short
  PROVE  Typed' /\ Linked' /\ ServerHears' /\ ClientHears' /\ ExecutedAsSent'
  <1>1. /\ "client" \in Sides /\ "server" \in Sides
        /\ Other("client") = "server" /\ Other("server") = "client"
    BY DEF Sides, Other
  <1>2. end' \in [Sides -> AnEnd] /\ end'["client"] = d /\ end'["server"] = end["server"]
    BY <1>1, BecomesIs DEF Inv, Typed
  <1>3. /\ inq' \in [Sides -> Seq(Byte)] /\ inq'["server"] = inq["server"]
        /\ gone' \in [Sides -> {"no", "fin", "rst"}]
        /\ gone'["client"] # "no" /\ gone'["server"] = gone["server"]
        /\ rst' \in [Sides -> {"no", "coming", "here", "noted"}]
        /\ rst'["client"] = rst["client"]
    BY <1>1, LeavesIs DEF Inv, Typed
  <1>4. Len(d.out) \in 0 .. 5
    BY EmptySeq
  <1>5. Typed'
    BY <1>1, <1>2, <1>3, <1>4 DEF Inv, Typed, Sides, At
  <1>6. /\ At("server", "read")' <=> At("server", "read")
        /\ At("server", "write")' <=> At("server", "write")
        /\ ~At("client", "write")' /\ ~At("client", "read")'
    BY <1>2 DEF At
  <1>7. Linked'
    BY <1>1, <1>2, <1>3, <1>6 DEF Inv, Linked, Sides, Serving, Feeding, At
  <1>8. ServerHears'
    BY <1>1, <1>2, <1>3, <1>6, KeepsDelivered DEF Inv, ServerHears
  <1>9. ClientHears' /\ ExecutedAsSent'
    BY <1>6, KeepsExecuted DEF Inv, ClientHears, Feeding
  <1> QED
    BY <1>5, <1>7, <1>8, <1>9

\* A server that leaves, or that was not there, takes nothing from what the
\* client still reads.
LEMMA ServerGone ==
  ASSUME Inv, NEW d \in AnEnd, d.pc \in {"listen", "down"}, d.out = <<>>, Len(d.text) < HugeLen,
         Becomes("server", d), sent' = sent, executed' = executed, answered' = answered,
         short' = short,
         \/ \E unread : LeavesUnread("server", unread)
         \/ ~Serving /\ UNCHANGED net
  PROVE  Inv'
  <1>1. /\ "client" \in Sides /\ "server" \in Sides
        /\ Other("client") = "server" /\ Other("server") = "client"
    BY DEF Sides, Other
  <1>2. end' \in [Sides -> AnEnd] /\ end'["server"] = d /\ end'["client"] = end["client"]
    BY <1>1, BecomesIs DEF Inv, Typed
  <1>3. /\ inq' \in [Sides -> Seq(Byte)] /\ inq'["client"] = inq["client"]
        /\ gone' \in [Sides -> {"no", "fin", "rst"}]
        /\ gone'["client"] = gone["client"]
        /\ rst' \in [Sides -> {"no", "coming", "here", "noted"}]
        /\ rst'["server"] # "no" => gone'["client"] # "no"
        /\ rst'["client"] # "no" => gone'["server"] # "no"
        /\ gone'["server"] = "no" => gone["server"] = "no" /\ ~Serving
    <2>1. CASE \E unread : LeavesUnread("server", unread)
      <3>1. PICK unread : LeavesUnread("server", unread)
        BY <2>1
      <3>2. /\ inq' \in [Sides -> Seq(Byte)] /\ inq'["client"] = inq["client"]
            /\ gone' \in [Sides -> {"no", "fin", "rst"}]
            /\ gone'["server"] # "no" /\ gone'["client"] = gone["client"]
            /\ rst' \in [Sides -> {"no", "coming", "here", "noted"}]
            /\ rst'["server"] = rst["server"]
        BY <1>1, <3>1, LeavesIs DEF Inv, Typed
      <3> QED
        BY <1>1, <3>2 DEF Inv, Linked
    <2>2. CASE ~Serving /\ UNCHANGED net
      BY <1>1, <2>2 DEF Inv, Typed, Linked, net
    <2> QED
      BY <2>1, <2>2
  <1>4. Len(d.out) \in 0 .. 5
    BY EmptySeq
  <1>5. Typed'
    BY <1>1, <1>2, <1>3, <1>4 DEF Inv, Typed, Sides, At
  <1>6. /\ At("client", "read")' <=> At("client", "read")
        /\ At("client", "write")' <=> At("client", "write")
        /\ At("client", "idle")' <=> At("client", "idle")
        /\ Feeding' <=> Feeding
        /\ ~At("server", "write")' /\ ~At("server", "read")' /\ ~Serving'
    BY <1>2 DEF At, Feeding, Serving
  <1>7. \A x \in Sides : rst'[x] # "no" => gone'[Other(x)] # "no"
    BY <1>1, <1>3 DEF Sides
  <1>8. \A x \in Sides : end'[x].out # <<>> => At(x, "write")'
    BY <1>1, <1>2, <1>6 DEF Inv, Linked, Sides
  <1>9. Linked'
    BY <1>3, <1>6, <1>7, <1>8 DEF Inv, Linked
  <1>10. gone'["server"] = "no" => end'["server"].out = end["server"].out
    <2>1. gone'["server"] = "no" => end["server"].out = <<>>
      BY <1>1, <1>3 DEF Inv, Linked, Serving
    <2> QED
      BY <1>2, <2>1
  <1>11. ClientHears'
    <2>1. Unanswered => Unanswered'
      BY <1>2, <1>3 DEF Unanswered
    <2>2. Delivered("client") => Delivered("client")'
      BY <1>1, <1>2, <1>3, <1>10, KeepsDelivered
    <2> QED
      BY <1>6, <2>1, <2>2 DEF Inv, ClientHears
  <1>12. ServerHears' /\ ExecutedAsSent'
    BY <1>6, KeepsExecuted DEF Inv, ServerHears
  <1>13. Answered'
    BY <1>2, <1>6 DEF Inv, Answered
  <1> QED
    BY <1>5, <1>9, <1>11, <1>12, <1>13 DEF Inv

LEMMA ServerLeavesKeeps ==
  ASSUME Inv, Done \/ Dies \/ ServeThrows \/ ServePipe
  PROVE  Inv'
  <1>1. /\ End("listen") \in AnEnd /\ End("listen").pc = "listen" /\ End("listen").out = <<>>
        /\ End("listen").text = <<>>
    BY EndIs
  <1>2. /\ End("down") \in AnEnd /\ End("down").pc = "down" /\ End("down").out = <<>>
        /\ End("down").text = <<>>
    BY EndIs
  <1>3. Len(<<>>) < HugeLen
    BY EmptySeq, WireAssumption
  <1>4. /\ Len(End("listen").text) < HugeLen /\ Len(End("down").text) < HugeLen
    BY <1>1, <1>2, <1>3
  <1>5. CASE Done
    BY <1>1, <1>4, <1>5, ServerGone DEF Done, Leaves, history
  <1>6. CASE Dies
    <2>1. Becomes("server", End("down")) /\ UNCHANGED history
      BY <1>6 DEF Dies, Ends
    <2>2. \/ \E unread : LeavesUnread("server", unread)
          \/ ~Serving /\ UNCHANGED net
      BY <1>6 DEF Dies, Leaves, Serving, At
    <2> QED
      BY <1>2, <1>4, <2>1, <2>2, ServerGone DEF history
  <1>7. CASE ServeThrows
    BY <1>2, <1>4, <1>7, ServerGone DEF ServeThrows, Throws, Ends, history
  <1>8. CASE ServePipe
    BY <1>2, <1>4, <1>8, ServerGone DEF ServePipe, Ends, Leaves, history
  <1> QED
    BY <1>5, <1>6, <1>7, <1>8

LEMMA RestartKeeps == ASSUME Inv, Restart PROVE Inv'
  <1>1. /\ End("listen") \in AnEnd /\ End("listen").pc = "listen" /\ End("listen").out = <<>>
        /\ End("listen").text = <<>>
    BY EndIs
  <1>2. Len(End("listen").text) < HugeLen
    BY <1>1, EmptySeq, WireAssumption
  <1>3. ~Serving
    BY DEF Restart, Serving, At
  <1> QED
    BY <1>1, <1>2, <1>3, ServerGone DEF Restart, history

\* The messages that an end may be reading have the format of its fields.
LEMMA MessageFormat ==
  ASSUME Inv, NEW x \in Sides,
         \/ x = "server" /\ At("server", "read")
         \/ x = "client" /\ answered # None
  PROVE  Format(Order(x), Message(x))
  <1>1. CASE x = "server" /\ At("server", "read")
    <2>1. sent \in Requests
      BY <1>1 DEF Inv, Linked, Serving
    <2> QED
      BY <1>1, <2>1, RequestFormat DEF Order, Message
  <1>2. CASE x = "client" /\ answered # None
    <2>1. answered \in Responses
      BY <1>2 DEF Inv, Linked
    <2> QED
      BY <1>2, <2>1, ResponseFormat DEF Order, Message
  <1> QED
    BY <1>1, <1>2

\* An end that has no field left to read has read them all.
LEMMA AllRead ==
  ASSUME Inv, NEW x \in Sides, Delivered(x), Format(Order(x), Message(x)),
         end[x].fields = <<>>
  PROVE  \A i \in 1 .. Len(Order(x)) : Holds(end[x], Message(x), Order(x)[i])
  <1>1. PICK k \in 1 .. Len(Order(x)) + 1 : \E rest \in Seq(Byte) :
          Arrives(Order(x), Message(x), end[x], k, inq[x], rest)
    BY DEF Delivered
  <1>2. /\ <<>> = SubSeq(Order(x), k, Len(Order(x)))
        /\ \A i \in 1 .. k - 1 : Holds(end[x], Message(x), Order(x)[i])
    BY <1>1 DEF Arrives
  <1>3. k = Len(Order(x)) + 1
    BY <1>2, ThisField
  <1>4. Len(Order(x)) \in Nat
    BY DEF Format
  <1>5. k - 1 = Len(Order(x))
    BY <1>3, <1>4
  <1> QED
    BY <1>2, <1>5

LEMMA ClientLeavesKeeps ==
  ASSUME Inv, Returns \/ FeedThrows \/ ClientLeaves
  PROVE  Inv'
  <1> USE DEF Inv
  <1>1. "client" \in Sides /\ end \in [Sides -> AnEnd] /\ short \subseteq Sides
    BY DEF Typed, Sides
  <1>2. Len(<<>>) < HugeLen
    BY EmptySeq, WireAssumption
  <1>3. CASE Returns
    <2> DEFINE e == end["client"]
               d == [e EXCEPT !.pc = "idle"]
    <2>1. e \in AnEnd /\ Len(e.text) < HugeLen /\ At("client", "read") /\ e.fields = <<>>
      BY <1>1, <1>3 DEF Typed, Returns
    <2>2. Feeding /\ e.out = <<>>
      BY <1>1, <2>1 DEF Feeding, Linked, At
    <2>3. d \in AnEnd /\ d.pc = "idle" /\ d.out = e.out /\ d.got = e.got /\ d.text = e.text
      BY <2>1, PcIs
    <2>4. Becomes("client", d) /\ LeavesUnread("client", inq["client"]) /\ UNCHANGED history
      BY <1>3 DEF Returns, Leaves
    <2>5. end'["client"] = d
      BY <1>1, <2>3, <2>4, BecomesIs
    <2> HIDE DEF d, e
    <2>6. Typed' /\ Linked' /\ ServerHears' /\ ClientHears' /\ ExecutedAsSent'
      BY <1>1, <2>1, <2>2, <2>3, <2>4, ClientGone DEF history
    <2>7. ASSUME "client" \notin short
          PROVE  /\ answered # None
                 /\ e.got["success"] = IntBytes(answered.success)
                 /\ e.got["user_id"] = IntBytes(answered.user_id)
                 /\ e.text = answered.text
      <3>1. ResponseFields # <<>>
        BY DEF ResponseFields
      <3>2. answered # None /\ Delivered("client")
        BY <2>1, <2>2, <2>7, <3>1 DEF ClientHears, Unanswered, e
      <3>3. \A i \in 1 .. Len(Order("client")) :
              Holds(end["client"], Message("client"), Order("client")[i])
        BY <1>1, <2>1, <3>2, MessageFormat, AllRead DEF e
      <3>4. /\ Order("client") = ResponseFields /\ Len(ResponseFields) = 4
            /\ ResponseFields[1] = "success" /\ ResponseFields[2] = "user_id"
            /\ ResponseFields[4] = "text" /\ Message("client") = ResponseBytes(answered)
        BY DEF Order, Message, ResponseFields
      <3>5. /\ Holds(e, ResponseBytes(answered), "success")
            /\ Holds(e, ResponseBytes(answered), "user_id")
            /\ Holds(e, ResponseBytes(answered), "text")
        <4>1. \A i \in 1 .. 4 : Holds(e, ResponseBytes(answered), ResponseFields[i])
          BY <3>3, <3>4 DEF e
        <4>2. 1 \in 1 .. 4 /\ 2 \in 1 .. 4 /\ 4 \in 1 .. 4
          OBVIOUS
        <4> QED
          BY <3>4, <4>1, <4>2
      <3> QED
        BY <3>2, <3>5 DEF Holds, ResponseBytes, Names
    <2>8. Answered'
      BY <2>3, <2>4, <2>5, <2>7 DEF Answered, history
    <2> QED
      BY <2>6, <2>8
  <1>4. CASE FeedThrows
    <2>1. /\ End("idle") \in AnEnd /\ End("idle").pc = "idle" /\ End("idle").out = <<>>
          /\ End("idle").text = <<>>
      BY EndIs
    <2>2. Feeding /\ Becomes("client", End("idle")) /\ \E unread : LeavesUnread("client", unread)
      BY <1>4 DEF FeedThrows, Throws, Feeding
    <2>3. /\ short \subseteq short' /\ short' \subseteq Sides /\ "client" \in short'
          /\ "server" \in short' => "server" \in short
          /\ sent' = sent /\ executed' = executed /\ answered' = answered
      BY <1>1, <1>4 DEF FeedThrows
    <2>4. Typed' /\ Linked' /\ ServerHears' /\ ClientHears' /\ ExecutedAsSent'
      BY <1>2, <2>1, <2>2, <2>3, ClientGone
    <2> QED
      BY <2>3, <2>4 DEF Answered
  <1>5. CASE ClientLeaves
    <2>1. /\ End("left") \in AnEnd /\ End("left").pc = "left" /\ End("left").out = <<>>
          /\ End("left").text = <<>>
      BY EndIs
    <2>2. Feeding /\ Becomes("client", End("left")) /\ \E unread : LeavesUnread("client", unread)
      BY <1>5 DEF ClientLeaves, Leaves, Feeding
    <2>3. Typed' /\ Linked' /\ ServerHears' /\ ClientHears' /\ ExecutedAsSent'
      BY <1>1, <1>2, <1>5, <2>1, <2>2, ClientGone DEF ClientLeaves, history
    <2>4. ~At("client", "idle")'
      BY <1>1, <2>1, <2>2, BecomesIs DEF At
    <2> QED
      BY <2>3, <2>4 DEF Answered
  <1> QED
    BY <1>3, <1>4, <1>5

\* A piece that was written is on its way behind those written before.
LEMMA WriteKeeps == ASSUME Inv, NEW x \in Sides, Write(x) PROVE Inv'
  <1> DEFINE y == Other(x)
             out == end[x].out
  <1>1. /\ y \in Sides /\ y # x /\ Other(y) = x /\ \A z \in Sides : z = x \/ z = y
    BY Peers
  <1>2. /\ At(x, "write") /\ out \in Seq(Seq(Byte)) /\ out # <<>>
        /\ end' \in [Sides -> AnEnd] /\ end'[y] = end[y]
        /\ end'[x].pc = end[x].pc /\ end'[x].out = Tail(out)
        /\ end'[x].fields = end[x].fields /\ end'[x].got = end[x].got
        /\ end'[x].text = end[x].text /\ Len(end'[x].out) \in 0 .. 5
        /\ Head(out) \in Seq(Byte) /\ Sends(x, Head(out))
        /\ sent' = sent /\ executed' = executed /\ answered' = answered /\ short' = short
    BY WriteDoes DEF Inv
  <1>3. /\ inq' \in [Sides -> Seq(Byte)] /\ inq'[x] = inq[x]
        /\ gone[y] = "no" => inq'[y] = inq[y] \o Head(out)
        /\ gone' = gone
        /\ rst' \in [Sides -> {"no", "coming", "here", "noted"}]
        /\ \A z \in Sides : rst'[z] # "no" => gone[Other(z)] # "no"
    BY <1>2, SendsIs DEF Inv, Typed, Linked
  <1>4. Len(out) \in 0 .. 5
    BY DEF Inv, Typed
  <1> HIDE DEF y, out
  <1>5. \A z \in Sides : end'[z].pc = end[z].pc
    BY <1>1, <1>2
  <1>6. \A z \in Sides : \A pc : At(z, pc)' <=> At(z, pc)
    BY <1>5 DEF At
  <1>7. "client" \in Sides /\ "server" \in Sides
    BY DEF Sides
  <1>8. /\ Feeding' <=> Feeding
        /\ Serving' <=> Serving
    BY <1>6, <1>7 DEF Feeding, Serving
  <1>9. Typed'
    <2>1. \A z \in Sides : Len(end'[z].out) \in 0 .. 5 /\ Len(end'[z].text) < HugeLen
      BY <1>1, <1>2 DEF Inv, Typed
    <2>2. /\ end'["client"].pc \in {"idle", "write", "read", "left"}
          /\ end'["server"].pc \in {"listen", "read", "write", "down"}
      BY <1>5, <1>7 DEF Inv, Typed
    <2> QED
      BY <1>2, <1>3, <2>1, <2>2 DEF Inv, Typed
  <1>10. Linked'
    <2>1. \A z \in Sides : end'[z].out # <<>> => At(z, "write")'
      BY <1>1, <1>2, <1>6 DEF Inv, Linked
    <2>2. /\ At("server", "read")' <=> At("server", "read")
          /\ At("server", "write")' <=> At("server", "write")
      BY <1>6, <1>7
    <2> QED
      BY <1>2, <1>3, <1>8, <2>1, <2>2 DEF Inv, Linked
  <1>11. ASSUME gone[y] = "no", Delivered(y) PROVE Delivered(y)'
    <2>1. PICK k \in 1 .. Len(Order(y)) + 1 : \E rest \in Seq(Byte) :
            /\ Arrives(Order(y), Message(y), end[y], k, inq[y], rest)
            /\ gone[Other(y)] = "no" => rest = Flat(end[Other(y)].out)
      BY <1>11 DEF Delivered
    <2>2. PICK rest \in Seq(Byte) :
            /\ Arrives(Order(y), Message(y), end[y], k, inq[y], rest)
            /\ gone[Other(y)] = "no" => rest = Flat(end[Other(y)].out)
      BY <2>1
    <2>3. rest = Flat(out)
      <3>1. gone[x] = "no"
        BY <1>2, <1>7, Peers DEF Inv, Linked, Serving, Feeding, Sides
      <3> QED
        BY <1>1, <2>2, <3>1 DEF out
    <2>4. Flat(out) = Head(out) \o Flat(Tail(out)) /\ Tail(out) \in Seq(Seq(Byte))
      BY <1>2, <1>4, FlatFirst
    <2>5. Flat(Tail(out)) \in Seq(Byte)
      BY <2>4, FlatText
    <2>6. inq[y] \in Seq(Byte)
      BY <1>1 DEF Inv, Typed
    <2>7. inq'[y] \o Flat(Tail(out)) = inq[y] \o rest
      <3>1. inq'[y] = inq[y] \o Head(out) /\ rest = Head(out) \o Flat(Tail(out))
        BY <1>3, <1>11, <2>3, <2>4
      <3>2. (inq[y] \o Head(out)) \o Flat(Tail(out)) = inq[y] \o (Head(out) \o Flat(Tail(out)))
        <4> DEFINE h == Head(out)
                   f == Flat(Tail(out))
                   q == inq[y]
        <4>1. h \in Seq(Byte) /\ f \in Seq(Byte) /\ q \in Seq(Byte)
          BY <1>2, <2>5, <2>6
        <4> HIDE DEF h, f, q
        <4>2. (q \o h) \o f = q \o (h \o f)
          BY <4>1, Chain, SMTT(40)
        <4> QED
          BY <4>2 DEF h, f, q
      <3> QED
        BY <3>1, <3>2
    <2>8. Arrives(Order(y), Message(y), end[y], k, inq'[y], Flat(Tail(out)))
      BY <2>2, <2>7 DEF Arrives
    <2>9. Order(y)' = Order(y) /\ Message(y)' = Message(y)
      BY <1>2 DEF Order, Message
    <2> QED
      BY <1>1, <1>2, <2>5, <2>8, <2>9 DEF Delivered
  <1>12. Delivered(x) => Delivered(x)'
    BY <1>1, <1>2, <1>3, KeepsDelivered DEF y
  <1>13. ServerHears'
    <2>1. At("server", "read") => y = "server" /\ gone[y] = "no"
      BY <1>1, <1>2, <1>7 DEF Inv, Linked, Serving, At
    <2> QED
      BY <1>2, <1>6, <1>7, <1>11, <2>1 DEF Inv, ServerHears
  <1>14. ClientHears'
    <2>1. CASE x = "server"
      <3>1. Feeding => gone["client"] = "no" /\ y = "client"
        BY <1>1, <1>7, <2>1 DEF Inv, Linked
      <3>2. answered # None
        BY <1>2, <2>1, ResponseIsOne DEF Inv, Linked
      <3> QED
        BY <1>2, <1>8, <1>11, <3>1, <3>2 DEF Inv, ClientHears
    <2>2. CASE x = "client"
      <3>1. y = "server"
        BY <1>1, <1>7, <2>2
      <3>2. Unanswered => Unanswered'
        BY <1>2, <1>3, <2>2, <3>1 DEF Unanswered
      <3> QED
        BY <1>2, <1>8, <1>12, <2>2, <3>2 DEF Inv, ClientHears
    <2> QED
      BY <2>1, <2>2 DEF Sides
  <1>15. ExecutedAsSent'
    BY <1>2, KeepsExecuted DEF Inv
  <1>16. Answered'
    <2>1. At("client", "idle")' => x = "server" /\ end'["client"] = end["client"]
      BY <1>1, <1>2, <1>6, <1>7 DEF At
    <2> QED
      BY <1>2, <1>6, <1>7, <1>8, <2>1 DEF Inv, Answered
  <1> QED
    BY <1>9, <1>10, <1>13, <1>14, <1>15, <1>16 DEF Inv

\* A read that is not short takes its field and leaves the fields behind it.
LEMMA ReadDelivers ==
  ASSUME Inv, NEW x \in Sides, NEW n \in Nat, NEW bytes, NEW d, Reads(x, n, bytes, d),
         x \notin short', Delivered(x), Format(Order(x), Message(x)),
         \A k \in 1 .. Len(Order(x)) :
           /\ Head(end[x].fields) = Order(x)[k]
           /\ \A i \in 1 .. k - 1 : Holds(end[x], Message(x), Order(x)[i])
           => /\ Len(Message(x)[Order(x)[k]]) = n
              /\ bytes = Message(x)[Order(x)[k]] => Holds(d, Message(x), Order(x)[k])
              /\ \A i \in 1 .. k - 1 :
                   Holds(end[x], Message(x), Order(x)[i]) => Holds(d, Message(x), Order(x)[i])
  PROVE  Delivered(x)'
  <1> DEFINE o == Order(x)
             m == Message(x)
             e == end[x]
             q == inq[x]
  <1>1. q \in Seq(Byte) /\ e.fields # <<>> /\ d.fields = Tail(e.fields)
    BY DEF Inv, Typed, Reads
  <1>2. /\ end'[x] = d /\ end'[Other(x)] = end[Other(x)]
    BY BecomesIs DEF Inv, Typed, Reads
  <1>3. /\ inq'[x] = Dropped(q, Len(bytes)) /\ Len(bytes) = n
        /\ gone' = gone /\ sent' = sent /\ answered' = answered
    <2>1. /\ inq \in [Sides -> Seq(Byte)] /\ rst \in [Sides -> {"no", "coming", "here", "noted"}]
          /\ short \subseteq Sides /\ bytes \in Received(x, n) /\ Takes(x, bytes, n)
      BY DEF Inv, Typed, Reads
    <2>2. /\ inq'[x] = Dropped(inq[x], Len(bytes)) /\ Len(bytes) = n
          /\ gone' = gone /\ sent' = sent /\ answered' = answered
      BY <2>1, TakesIs, ZenonT(60)
    <2> QED
      BY <2>2
  <1>4. Len(bytes) \in 0 .. Len(q) /\ bytes = SubSeq(q, 1, Len(bytes))
    BY <1>1, ReceivedIs DEF Reads
  <1>5. PICK k \in 1 .. Len(o) + 1 : \E rest \in Seq(Byte) :
          /\ Arrives(o, m, e, k, q, rest)
          /\ gone[Other(x)] = "no" => rest = Flat(end[Other(x)].out)
    BY DEF Delivered
  <1>6. PICK rest \in Seq(Byte) :
          /\ Arrives(o, m, e, k, q, rest)
          /\ gone[Other(x)] = "no" => rest = Flat(end[Other(x)].out)
    BY <1>5
  <1>7. /\ e.fields = SubSeq(o, k, Len(o))
        /\ \A i \in 1 .. k - 1 : Holds(e, m, o[i])
        /\ q \o rest = Flat(Pieces(o, m, k))
    BY <1>6 DEF Arrives
  <1>8. k \in 1 .. Len(o) /\ Head(e.fields) = o[k]
    BY <1>1, <1>7, ThisField
  <1>9. /\ Len(m[o[k]]) = n
        /\ bytes = m[o[k]] => Holds(d, m, o[k])
        /\ \A i \in 1 .. k - 1 : Holds(e, m, o[i]) => Holds(d, m, o[i])
    BY <1>7, <1>8
  <1>10. /\ Order(x)' = o /\ Message(x)' = m
    BY <1>3 DEF Order, Message
  <1>11. Format(o, m)
    OBVIOUS
  <1> HIDE DEF o, m, e, q
  <1>12. Len(m[o[k]]) \in 0 .. Len(q) /\ Len(m[o[k]]) = Len(bytes)
    BY <1>3, <1>4, <1>9
  <1>13. SubSeq(q, 1, Len(m[o[k]])) = m[o[k]]
    BY <1>1, <1>7, <1>8, <1>11, <1>12, NextPiece
  <1>14. bytes = m[o[k]]
    BY <1>4, <1>12, <1>13
  <1>15. k + 1 \in 1 .. Len(o) + 1 /\ Arrives(o, m, d, k + 1, Dropped(q, Len(m[o[k]])), rest)
    BY <1>1, <1>5, <1>6, <1>9, <1>11, <1>12, <1>14, ReadsOn
  <1>16. Arrives(o, m, end'[x], k + 1, inq'[x], rest)
    BY <1>2, <1>3, <1>12, <1>15
  <1>17. gone'[Other(x)] = "no" => rest = Flat(end'[Other(x)].out)
    BY <1>2, <1>3, <1>6
  <1> QED
    BY <1>10, <1>15, <1>16, <1>17 DEF Delivered

\* The other parts of the invariant, for any read.
LEMMA ReadKeeps ==
  ASSUME Inv, NEW x \in Sides, NEW n \in Nat, NEW bytes, NEW d, Reads(x, n, bytes, d),
         Len(d.text) < HugeLen, fate' = fate,
         Head(end[x].fields) # "text" => n = Width,
         /\ x \notin short' /\ Delivered(x) /\ Format(Order(x), Message(x)) => Delivered(x)'
  PROVE  Inv'
  <1> DEFINE y == Other(x)
  <1>1. /\ y \in Sides /\ y # x /\ Other(y) = x /\ \A z \in Sides : z = x \/ z = y
    BY Peers
  <1>2. "client" \in Sides /\ "server" \in Sides
    BY DEF Sides
  <1>3. /\ end' \in [Sides -> AnEnd] /\ end'[x] = d /\ end'[y] = end[y]
        /\ d.pc = end[x].pc /\ d.out = end[x].out /\ At(x, "read")
    BY BecomesIs DEF Inv, Typed, Reads
  <1>4. /\ inq' \in [Sides -> Seq(Byte)] /\ inq'[x] = Dropped(inq[x], Len(bytes))
        /\ inq'[y] = inq[y]
        /\ rst' \in [Sides -> {"no", "coming", "here", "noted"}]
        /\ \A z \in Sides : rst'[z] # "no" => rst[z] # "no"
        /\ short' \subseteq Sides /\ short \subseteq short'
        /\ y \in short' => y \in short
        /\ x \notin short' => x \notin short /\ Len(bytes) = n
        /\ gone' = gone /\ sent' = sent /\ executed' = executed /\ answered' = answered
    BY TakesIs DEF Inv, Typed, Reads
  <1> HIDE DEF y
  <1>5. \A z \in Sides : end'[z].pc = end[z].pc /\ end'[z].out = end[z].out
    BY <1>1, <1>3
  <1>6. \A z \in Sides : \A pc : At(z, pc)' <=> At(z, pc)
    BY <1>5 DEF At
  <1>7. (Feeding' <=> Feeding) /\ (Serving' <=> Serving)
    BY <1>2, <1>6 DEF Feeding, Serving
  <1>8. Typed'
    <2>1. \A z \in Sides : Len(end'[z].out) \in 0 .. 5 /\ Len(end'[z].text) < HugeLen
      BY <1>1, <1>3, <1>5 DEF Inv, Typed
    <2>2. /\ end'["client"].pc \in {"idle", "write", "read", "left"}
          /\ end'["server"].pc \in {"listen", "read", "write", "down"}
      BY <1>2, <1>5 DEF Inv, Typed
    <2>3. gone' \in [Sides -> {"no", "fin", "rst"}]
      BY <1>4 DEF Inv, Typed
    <2> QED
      BY <1>3, <1>4, <2>1, <2>2, <2>3 DEF Typed
  <1>9. Linked'
    <2>1. \A z \in Sides : rst'[z] # "no" => gone'[Other(z)] # "no"
      BY <1>4 DEF Inv, Linked
    <2>2. \A z \in Sides : end'[z].out # <<>> => At(z, "write")'
      BY <1>5, <1>6 DEF Inv, Linked
    <2>3. /\ At("server", "read")' <=> At("server", "read")
          /\ At("server", "write")' <=> At("server", "write")
      BY <1>2, <1>6
    <2> QED
      BY <1>4, <1>7, <2>1, <2>2, <2>3 DEF Inv, Linked
  <1>10. Delivered(y) => Delivered(y)'
    BY <1>1, <1>3, <1>4, <1>5, KeepsDelivered
  <1>11. ServerHears'
    <2>1. At("server", "read")' => At("server", "read")
      BY <1>2, <1>6
    <2>2. CASE x = "server"
      BY <1>4, <2>1, <2>2, MessageFormat DEF Inv, ServerHears
    <2>3. CASE y = "server"
      BY <1>4, <1>10, <2>1, <2>3 DEF Inv, ServerHears
    <2> QED
      BY <1>1, <1>2, <2>2, <2>3
  <1>12. ClientHears'
    <2>1. CASE y = "client"
      <3>1. Unanswered => Unanswered'
        BY <1>1, <1>2, <1>3, <1>4, <1>5, <2>1 DEF Unanswered
      <3> QED
        BY <1>4, <1>7, <1>10, <2>1, <3>1 DEF Inv, ClientHears
    <2>2. CASE x = "client"
      <3>1. ASSUME Unanswered PROVE "client" \in short'
        <4>1. Head(end[x].fields) = "success" /\ inq[x] = <<>>
          BY <2>2, <3>1 DEF Unanswered, ResponseFields
        <4>2. n = Width /\ n = 2
          BY <4>1 DEF Width
        <4>3. Len(bytes) \in 0 .. Len(inq[x]) /\ inq[x] \in Seq(Byte)
          BY ReceivedIs DEF Inv, Typed, Reads
        <4>4. Len(bytes) = 0
          BY <4>1, <4>3
        <4> QED
          BY <1>4, <2>2, <4>2, <4>4
      <3>2. ASSUME "client" \notin short', Feeding
            PROVE  answered # None /\ Delivered("client")'
        <4>1. "client" \notin short
          BY <1>4, <3>2
        <4>2. answered # None /\ Delivered("client")
          BY <3>1, <3>2, <4>1 DEF Inv, ClientHears
        <4>3. Format(Order("client"), Message("client"))
          BY <1>2, <4>2, MessageFormat
        <4> QED
          BY <2>2, <3>2, <4>2, <4>3
      <3> QED
        BY <1>4, <1>7, <3>2 DEF ClientHears
    <2> QED
      BY <1>1, <1>2, <2>1, <2>2
  <1>13. ExecutedAsSent'
    BY <1>4, KeepsExecuted DEF Inv
  <1>14. Answered'
    <2>1. At("client", "idle")' => At("client", "idle") /\ x # "client"
      BY <1>2, <1>3, <1>6 DEF At
    <2>2. At("client", "idle")' => end'["client"] = end["client"]
      BY <1>1, <1>2, <1>3, <2>1
    <2> QED
      BY <1>4, <1>7, <2>1, <2>2 DEF Inv, Answered
  <1> QED
    BY <1>8, <1>9, <1>11, <1>12, <1>13, <1>14 DEF Inv

LEMMA ReadsKeep == ASSUME Inv, NEW x \in Sides, ReadInt(x) \/ ReadLen(x) \/ ReadText(x) PROVE Inv'
  <1> DEFINE o == Order(x)
             m == Message(x)
             e == end[x]
  <1>1. Typed /\ Len(e.text) < HugeLen /\ e \in AnEnd
    BY DEF Inv, Typed
  <1>2. Width \in Nat /\ Len(e.text) \in Nat
    BY <1>1, EndFields DEF Width
  <1>3. CASE ReadInt(x)
    <2>1. PICK bytes, d :
            /\ Reads(x, Width, bytes, d) /\ d.text = e.text
            /\ Head(e.fields) \in Names \ {"len", "text"}
            /\ Len(bytes) = Width => d.got[Head(e.fields)] = bytes
            /\ \A g \in Names \ {"text"} : g # Head(e.fields) => d.got[g] = e.got[g]
      BY <1>1, <1>3, ReadIntDoes
    <2>2. fate' = fate
      BY <1>3 DEF ReadInt
    <2>3. ASSUME Format(o, m), x \notin short', NEW k \in 1 .. Len(o), Head(e.fields) = o[k]
          PROVE  /\ Len(m[o[k]]) = Width
                 /\ bytes = m[o[k]] => Holds(d, m, o[k])
                 /\ \A i \in 1 .. k - 1 : Holds(e, m, o[i]) => Holds(d, m, o[i])
      <3>1. o[k] \in Names /\ o[k] # "len" /\ o[k] # "text" /\ Len(m[o[k]]) = Width
        BY <2>1, <2>3, FieldKind
      <3>2. \A i \in 1 .. k - 1 : o[i] \in Names /\ o[i] # o[k] /\ o[i] # "text"
        BY <2>3, FieldKind
      <3>3. bytes = m[o[k]] => Holds(d, m, o[k])
        BY <2>1, <2>3, <3>1 DEF Holds
      <3>4. \A i \in 1 .. k - 1 : Holds(e, m, o[i]) => Holds(d, m, o[i])
        BY <2>1, <2>3, <3>2 DEF Holds
      <3> QED
        BY <3>1, <3>3, <3>4
    <2>4. /\ x \notin short' /\ Delivered(x) /\ Format(o, m) => Delivered(x)'
      BY <1>2, <2>1, <2>3, ReadDelivers
    <2> QED
      BY <1>1, <1>2, <2>1, <2>2, <2>4, ReadKeeps
  <1>4. CASE ReadLen(x)
    <2>1. PICK bytes, d :
            /\ Reads(x, Width, bytes, d) /\ d.got = e.got /\ Head(e.fields) = "len"
            /\ Len(bytes) = Width => Len(d.text) \in Values(bytes)
            /\ Len(d.text) < HugeLen
      BY <1>1, <1>4, ReadLenDoes
    <2>2. fate' = fate
      BY <1>4 DEF ReadLen
    <2>3. ASSUME Format(o, m), x \notin short', NEW k \in 1 .. Len(o), Head(e.fields) = o[k]
          PROVE  /\ Len(m[o[k]]) = Width
                 /\ bytes = m[o[k]] => Holds(d, m, o[k])
                 /\ \A i \in 1 .. k - 1 : Holds(e, m, o[i]) => Holds(d, m, o[i])
      <3>1. o[k] = "len" /\ Len(m[o[k]]) = Width
        BY <2>1, <2>3, FieldKind
      <3>2. \A i \in 1 .. k - 1 : o[i] # "len" /\ o[i] # "text"
        BY <2>3, <3>1, FieldKind
      <3>3. Values(m["len"]) = {Len(m["text"])}
        BY <2>3 DEF Format
      <3>4. bytes = m[o[k]] => Holds(d, m, o[k])
        BY <2>1, <3>1, <3>3 DEF Holds
      <3>5. \A i \in 1 .. k - 1 : Holds(e, m, o[i]) => Holds(d, m, o[i])
        BY <2>1, <3>2 DEF Holds
      <3> QED
        BY <3>1, <3>4, <3>5
    <2>4. /\ x \notin short' /\ Delivered(x) /\ Format(o, m) => Delivered(x)'
      BY <1>2, <2>1, <2>3, ReadDelivers
    <2> QED
      BY <1>1, <1>2, <2>1, <2>2, <2>4, ReadKeeps
  <1>5. CASE ReadText(x)
    <2> DEFINE n == Len(e.text)
    <2>1. PICK bytes, d :
            /\ Reads(x, n, bytes, d) /\ d.got = e.got /\ Head(e.fields) = "text"
            /\ Len(bytes) = n => d.text = bytes
            /\ Len(d.text) = n
      BY <1>1, <1>5, ReadTextDoes
    <2>2. fate' = fate /\ Len(d.text) < HugeLen /\ n \in Nat
      BY <1>1, <1>2, <1>5, <2>1 DEF ReadText
    <2>3. ASSUME Format(o, m), x \notin short', NEW k \in 1 .. Len(o), Head(e.fields) = o[k],
                 \A i \in 1 .. k - 1 : Holds(e, m, o[i])
          PROVE  /\ Len(m[o[k]]) = n
                 /\ bytes = m[o[k]] => Holds(d, m, o[k])
                 /\ \A i \in 1 .. k - 1 : Holds(e, m, o[i]) => Holds(d, m, o[i])
      <3>1. o[k] = "text" /\ k - 1 \in 1 .. k - 1 /\ o[k - 1] = "len"
        BY <2>1, <2>3, FieldKind
      <3>2. Holds(e, m, "len")
        BY <2>3, <3>1
      <3>3. Len(m["text"]) = n
        BY <3>2 DEF Holds
      <3>4. bytes = m[o[k]] => Holds(d, m, o[k])
        BY <2>1, <3>1, <3>3 DEF Holds
      <3>5. \A i \in 1 .. k - 1 : o[i] # "text"
        BY <2>3, FieldKind
      <3>6. \A i \in 1 .. k - 1 : Holds(e, m, o[i]) => Holds(d, m, o[i])
        BY <2>1, <3>5 DEF Holds
      <3> QED
        BY <3>1, <3>3, <3>4, <3>6
    <2> HIDE DEF n
    <2>4. /\ x \notin short' /\ Delivered(x) /\ Format(o, m) => Delivered(x)'
      BY <2>1, <2>2, <2>3, ReadDelivers
    <2> QED
      BY <2>1, <2>2, <2>4, ReadKeeps
  <1> QED
    BY <1>3, <1>4, <1>5

\* A new connection: all of the request is still to come.
LEMMA ConnectKeeps == ASSUME Inv, NEW r \in Requests, Connect(r) PROVE Inv'
  <1> DEFINE c == [End("write") EXCEPT !.out = RequestPieces(r), !.fields = ResponseFields]
             v == [End("read") EXCEPT !.fields = RequestFields]
             p == RequestPieces(r)
  <1>1. /\ "client" \in Sides /\ "server" \in Sides
        /\ Other("client") = "server" /\ Other("server") = "client"
        /\ \A x \in Sides : x = "client" \/ x = "server"
    BY DEF Sides, Other
  <1>2. /\ p \in Seq(Seq(Byte)) /\ Len(p) = 5
        /\ p = Pieces(RequestFields, RequestBytes(r), 1)
        /\ Format(RequestFields, RequestBytes(r))
    BY RequestFormat
  <1>3. Len(<<>>) = 0 /\ 0 < HugeLen
    BY EmptySeq, WireAssumption
  <1>4. /\ RequestFields \in Seq(Names) /\ ResponseFields \in Seq(Names)
    BY DEF RequestFields, ResponseFields, Names
  <1>5. /\ c \in AnEnd /\ c.pc = "write" /\ c.out = p /\ c.fields = ResponseFields
        /\ c.text = <<>>
    <2>1. End("write") \in AnEnd /\ End("write").pc = "write" /\ End("write").text = <<>>
      BY EndIs
    <2> HIDE DEF p
    <2> QED
      BY <1>2, <1>4, <2>1 DEF AnEnd, p
  <1>6. /\ v \in AnEnd /\ v.pc = "read" /\ v.out = <<>> /\ v.fields = RequestFields
        /\ v.text = <<>>
    <2>1. /\ End("read") \in AnEnd /\ End("read").pc = "read" /\ End("read").text = <<>>
          /\ End("read").out = <<>>
      BY EndIs
    <2> QED
      BY <1>4, <2>1 DEF AnEnd
  <1>7. end' = [client |-> c, server |-> v]
    BY DEF Connect
  <1>8. /\ inq' = [x \in Sides |-> <<>>] /\ gone' = [x \in Sides |-> "no"]
        /\ rst' = [x \in Sides |-> "no"] /\ sent' = r /\ executed' = None
        /\ answered' = None /\ short' = {}
    BY DEF Connect
  <1> HIDE DEF c, v, p
  <1>9. end' \in [Sides -> AnEnd] /\ end'["client"] = c /\ end'["server"] = v
    BY <1>5, <1>6, <1>7 DEF Sides
  <1>10. Typed'
    <2>1. /\ Len(c.out) \in 0 .. 5 /\ Len(v.out) \in 0 .. 5
          /\ Len(c.text) < HugeLen /\ Len(v.text) < HugeLen
      BY <1>2, <1>3, <1>5, <1>6
    <2>2. \A x \in Sides : Len(end'[x].out) \in 0 .. 5 /\ Len(end'[x].text) < HugeLen
      BY <1>1, <1>9, <2>1
    <2>3. <<>> \in Seq(Byte)
      OBVIOUS
    <2>4. inq' \in [Sides -> Seq(Byte)]
      BY <1>8, <2>3
    <2>5. gone' \in [Sides -> {"no", "fin", "rst"}]
          /\ rst' \in [Sides -> {"no", "coming", "here", "noted"}] /\ short' \subseteq Sides
      BY <1>8
    <2>6. end'["client"].pc \in {"idle", "write", "read", "left"}
          /\ end'["server"].pc \in {"listen", "read", "write", "down"}
      BY <1>5, <1>6, <1>9
    <2> QED
      BY <1>9, <2>2, <2>4, <2>5, <2>6 DEF Typed
  <1>11. /\ At("client", "write")' /\ At("server", "read")' /\ ~At("server", "write")'
         /\ ~At("client", "idle")'
    BY <1>5, <1>6, <1>9 DEF At
  <1>12. Linked'
    BY <1>1, <1>5, <1>6, <1>8, <1>9, <1>11 DEF Linked, Serving, Feeding
  <1>13. ServerHears'
    <2> DEFINE m == RequestBytes(r)
               rest == Flat(p)
    <2>1. rest \in Seq(Byte) /\ <<>> \o rest = rest
      <3>1. rest \in Seq(Byte)
        BY <1>2, FlatText
      <3> QED
        BY <3>1, ConcatEmptySeq
    <2>2. 1 \in 1 .. Len(RequestFields) + 1 /\ Len(RequestFields) = 5
      BY DEF RequestFields
    <2>3. RequestFields = SubSeq(RequestFields, 1, Len(RequestFields))
      BY <1>4, SubSeqFull
    <2>4. \A i \in 1 .. 1 - 1 : Holds(v, m, RequestFields[i])
      OBVIOUS
    <2>5. Arrives(RequestFields, m, v, 1, <<>>, rest)
      BY <1>2, <1>6, <2>1, <2>3, <2>4 DEF Arrives
    <2>6. /\ Order("server")' = RequestFields /\ Message("server")' = m
          /\ end'["server"] = v /\ inq'["server"] = <<>> /\ end'["client"].out = p
      BY <1>1, <1>5, <1>8, <1>9 DEF Order, Message
    <2> HIDE DEF m, rest
    <2>7. \E k \in 1 .. Len(RequestFields) + 1 : \E t \in Seq(Byte) :
            Arrives(RequestFields, m, v, k, <<>>, t) /\ t = rest
      BY <2>1, <2>2, <2>5
    <2> QED
      BY <1>1, <2>6, <2>7 DEF ServerHears, Delivered, rest
  <1>14. ClientHears'
    BY <1>1, <1>5, <1>6, <1>8, <1>9 DEF ClientHears, Unanswered
  <1>15. ExecutedAsSent' /\ Answered'
    BY <1>8, <1>11 DEF ExecutedAsSent, Answered
  <1> QED
    BY <1>10, <1>12, <1>13, <1>14, <1>15 DEF Inv

\* Nobody listens: the request was not executed, and will not be.
LEMMA ConnectFailsKeeps == ASSUME Inv, NEW r \in Requests, ConnectFails(r) PROVE Inv'
  <1> DEFINE d == [End("idle") EXCEPT !.got["success"] = IntBytes(0)]
  <1>1. /\ "client" \in Sides /\ "server" \in Sides
        /\ Other("client") = "server" /\ Other("server") = "client"
        /\ \A x \in Sides : x = "client" \/ x = "server"
    BY DEF Sides, Other
  <1>2. 0 \in Number
    <2>1. ByteMod * ByteMod > 0
      BY WireAssumption
    <2> QED
      BY <2>1, WireAssumption DEF Number
  <1>3. IntBytes(0) \in Word
    <2>1. IntBytes(0) \in Seq(Byte) /\ Len(IntBytes(0)) = Width
      BY <1>2, Spelled
    <2> QED
      BY <2>1 DEF Word
  <1>4. /\ d \in AnEnd /\ d.pc = "idle" /\ d.out = <<>> /\ d.text = <<>>
        /\ d.got["success"] = IntBytes(0)
    <2>1. /\ End("idle") \in AnEnd /\ End("idle").pc = "idle" /\ End("idle").out = <<>>
          /\ End("idle").text = <<>> /\ End("idle").got \in [Names \ {"text"} -> Word]
      BY EndIs, EndFields
    <2>2. "success" \in Names \ {"text"}
      BY DEF Names
    <2> QED
      BY <1>3, <2>1, <2>2 DEF AnEnd
  <1>5. Becomes("client", d) /\ end \in [Sides -> AnEnd]
    BY DEF ConnectFails, Inv, Typed
  <1> HIDE DEF d
  <1>6. end' \in [Sides -> AnEnd] /\ end'["client"] = d /\ end'["server"] = end["server"]
    BY <1>1, <1>4, <1>5, BecomesIs
  <1>7. /\ inq' = inq /\ gone' = gone /\ rst' = rst /\ sent' = r /\ executed' = None
        /\ answered' = None /\ short' = {}
    BY DEF ConnectFails, net
  <1>8. Len(<<>>) = 0 /\ 0 < HugeLen
    BY EmptySeq, WireAssumption
  <1>9. Typed'
    <2>1. Len(d.out) \in 0 .. 5 /\ Len(d.text) < HugeLen
      BY <1>4, <1>8
    <2>2. \A x \in Sides : Len(end'[x].out) \in 0 .. 5 /\ Len(end'[x].text) < HugeLen
      BY <1>1, <1>6, <2>1 DEF Inv, Typed
    <2>3. end'["client"].pc \in {"idle", "write", "read", "left"}
          /\ end'["server"].pc \in {"listen", "read", "write", "down"}
      BY <1>4, <1>6 DEF Inv, Typed
    <2>4. short' \subseteq Sides
      BY <1>7
    <2> QED
      BY <1>6, <1>7, <2>2, <2>3, <2>4 DEF Inv, Typed
  <1>10. /\ ~At("server", "read")' /\ ~At("server", "write")'
         /\ ~At("client", "read")' /\ ~At("client", "write")'
    BY <1>4, <1>6 DEF At, ConnectFails
  <1>11. Linked'
    <2>1. \A x \in Sides : end'[x].out # <<>> => At(x, "write")'
      BY <1>1, <1>4, <1>6 DEF Inv, Linked, At
    <2> QED
      BY <1>7, <1>10, <2>1 DEF Inv, Linked, Serving, Feeding
  <1>12. ServerHears' /\ ClientHears' /\ ExecutedAsSent'
    BY <1>7, <1>10 DEF ServerHears, ClientHears, Feeding, ExecutedAsSent
  <1>13. Answered'
    BY <1>4, <1>6, <1>7, <1>10 DEF Answered, Serving
  <1> QED
    BY <1>9, <1>11, <1>12, <1>13 DEF Inv

LEMMA AwaitsKeeps == ASSUME Inv, Awaits PROVE Inv'
  <1> DEFINE e == end["client"]
             d == [e EXCEPT !.pc = "read"]
  <1>1. /\ "client" \in Sides /\ "server" \in Sides
        /\ Other("client") = "server" /\ Other("server") = "client"
        /\ \A x \in Sides : x = "client" \/ x = "server"
    BY DEF Sides, Other
  <1>2. e \in AnEnd /\ e.out = <<>> /\ At("client", "write")
    BY <1>1 DEF Inv, Typed, Awaits
  <1>3. /\ d \in AnEnd /\ d.pc = "read" /\ d.out = e.out /\ d.fields = e.fields
        /\ d.got = e.got /\ d.text = e.text
    BY <1>2, PcIs
  <1>4. Becomes("client", d) /\ end \in [Sides -> AnEnd]
    BY DEF Awaits, Inv, Typed
  <1> HIDE DEF d
  <1>5. end' \in [Sides -> AnEnd] /\ end'["client"] = d /\ end'["server"] = end["server"]
    BY <1>1, <1>3, <1>4, BecomesIs
  <1>6. /\ inq' = inq /\ gone' = gone /\ rst' = rst /\ sent' = sent /\ executed' = executed
        /\ answered' = answered /\ short' = short
    BY DEF Awaits, net, history
  <1>7. Typed'
    BY <1>1, <1>3, <1>5, <1>6 DEF Inv, Typed
  <1>8. /\ At("server", "read")' <=> At("server", "read")
        /\ At("server", "write")' <=> At("server", "write")
        /\ Feeding' /\ Feeding /\ ~At("client", "idle")'
    BY <1>2, <1>3, <1>5 DEF At, Feeding
  <1>9. Linked'
    <2>1. \A x \in Sides : end'[x].out # <<>> => At(x, "write")'
      BY <1>1, <1>2, <1>3, <1>5, <1>8 DEF Inv, Linked
    <2> QED
      BY <1>6, <1>8, <2>1 DEF Inv, Linked, Serving
  <1>10. \A x \in Sides : Delivered(x) => Delivered(x)'
    BY <1>1, <1>3, <1>5, <1>6, KeepsDelivered
  <1>11. ServerHears'
    BY <1>1, <1>6, <1>8, <1>10 DEF Inv, ServerHears
  <1>12. ClientHears'
    <2>1. Unanswered => Unanswered'
      BY <1>3, <1>5, <1>6 DEF Unanswered
    <2> QED
      BY <1>1, <1>6, <1>8, <1>10, <2>1 DEF Inv, ClientHears
  <1>13. ExecutedAsSent' /\ Answered'
    BY <1>6, <1>8, KeepsExecuted DEF Inv, Answered
  <1> QED
    BY <1>7, <1>9, <1>11, <1>12, <1>13 DEF Inv

\* A request whose reads were all full is executed as it was sent, and a client
\* that waits has the whole answer before it.
LEMMA ExecKeeps == ASSUME Inv, Exec PROVE Inv'
  <1> DEFINE e == end["server"]
  <1>1. /\ "client" \in Sides /\ "server" \in Sides
        /\ Other("client") = "server" /\ Other("server") = "client"
        /\ \A x \in Sides : x = "client" \/ x = "server"
    BY DEF Sides, Other
  <1>2. At("server", "read") /\ e.fields = <<>> /\ UNCHANGED <<net, sent, short, fate>>
    BY DEF Exec
  <1>3. executed' = [type |-> e.got["type"], user_id |-> e.got["user_id"],
                     target |-> e.got["target"], text |-> e.text]
    BY DEF Exec
  <1>4. PICK r \in Responses :
          /\ answered' = r
          /\ Becomes("server", [End("write") EXCEPT !.out = ResponsePieces(r)])
    BY DEF Exec
  <1> DEFINE d == [End("write") EXCEPT !.out = ResponsePieces(r)]
             p == ResponsePieces(r)
  <1>5. /\ p \in Seq(Seq(Byte)) /\ Len(p) = 4
        /\ p = Pieces(ResponseFields, ResponseBytes(r), 1)
        /\ Format(ResponseFields, ResponseBytes(r))
    BY ResponseFormat
  <1>6. d \in AnEnd /\ d.pc = "write" /\ d.out = p /\ d.text = <<>>
    <2>1. End("write") \in AnEnd /\ End("write").pc = "write" /\ End("write").text = <<>>
      BY EndIs
    <2> HIDE DEF p
    <2> QED
      BY <1>5, <2>1 DEF AnEnd, p
  <1>7. Becomes("server", d) /\ end \in [Sides -> AnEnd]
    BY <1>4 DEF Inv, Typed
  <1> HIDE DEF d, p
  <1>8. end' \in [Sides -> AnEnd] /\ end'["server"] = d /\ end'["client"] = end["client"]
    BY <1>1, <1>6, <1>7, BecomesIs
  <1>9. /\ inq' = inq /\ gone' = gone /\ rst' = rst /\ sent' = sent /\ short' = short
        /\ answered' = r /\ answered = None /\ executed = None /\ r # None
    BY <1>2, <1>4, ResponseIsOne DEF net, Inv, Linked
  <1>10. Typed'
    <2>1. Len(d.out) \in 0 .. 5 /\ Len(d.text) < HugeLen
      BY <1>5, <1>6, EmptySeq, WireAssumption
    <2>2. \A x \in Sides : Len(end'[x].out) \in 0 .. 5 /\ Len(end'[x].text) < HugeLen
      BY <1>1, <1>8, <2>1 DEF Inv, Typed
    <2>3. end'["client"].pc \in {"idle", "write", "read", "left"}
          /\ end'["server"].pc \in {"listen", "read", "write", "down"}
      BY <1>6, <1>8 DEF Inv, Typed
    <2> QED
      BY <1>8, <1>9, <2>2, <2>3 DEF Inv, Typed
  <1>11. /\ At("server", "write")' /\ ~At("server", "read")'
         /\ At("client", "read")' <=> At("client", "read")
         /\ At("client", "write")' <=> At("client", "write")
         /\ At("client", "idle")' <=> At("client", "idle")
    BY <1>6, <1>8 DEF At
  <1>12. Feeding' <=> Feeding
    BY <1>11 DEF Feeding
  <1>13. Serving /\ Serving'
    BY <1>2, <1>11 DEF Serving
  <1>14. Linked'
    <2>1. \A x \in Sides : end'[x].out # <<>> => At(x, "write")'
      BY <1>1, <1>8, <1>11 DEF Inv, Linked
    <2> QED
      BY <1>4, <1>9, <1>11, <1>12, <1>13, <2>1 DEF Inv, Linked
  <1>15. ServerHears'
    BY <1>11 DEF ServerHears
  <1>16. ASSUME Feeding, "client" \notin short
         PROVE  Delivered("client")'
    <2> DEFINE m == ResponseBytes(r)
               rest == Flat(p)
               c == end["client"]
    <2>1. c.fields = ResponseFields /\ inq["client"] = <<>>
      BY <1>9, <1>16 DEF Inv, ClientHears, Unanswered
    <2>2. rest \in Seq(Byte) /\ <<>> \o rest = rest
      <3>1. rest \in Seq(Byte)
        BY <1>5, FlatText
      <3> QED
        BY <3>1, ConcatEmptySeq
    <2>3. 1 \in 1 .. Len(ResponseFields) + 1 /\ ResponseFields \in Seq(Names)
      BY DEF ResponseFields, Names
    <2>4. ResponseFields = SubSeq(ResponseFields, 1, Len(ResponseFields))
      BY <2>3, SubSeqFull
    <2>5. \A i \in 1 .. 1 - 1 : Holds(c, m, ResponseFields[i])
      OBVIOUS
    <2>6. Arrives(ResponseFields, m, c, 1, <<>>, rest)
      BY <1>5, <2>1, <2>2, <2>4, <2>5 DEF Arrives
    <2>7. /\ Order("client")' = ResponseFields /\ Message("client")' = m
          /\ end'["client"] = c /\ inq'["client"] = <<>> /\ end'["server"].out = p
      BY <1>1, <1>6, <1>8, <1>9, <2>1 DEF Order, Message
    <2> HIDE DEF m, rest, c
    <2>8. \E k \in 1 .. Len(ResponseFields) + 1 : \E t \in Seq(Byte) :
            Arrives(ResponseFields, m, c, k, <<>>, t) /\ t = rest
      BY <2>2, <2>3, <2>6
    <2> QED
      BY <1>1, <2>7, <2>8 DEF Delivered, rest
  <1>17. ClientHears'
    BY <1>9, <1>12, <1>16 DEF ClientHears
  <1>18. ExecutedAsSent'
    <2>1. ASSUME "server" \notin short
          PROVE  /\ e.got["type"] = IntBytes(sent.type)
                 /\ e.got["user_id"] = IntBytes(sent.user_id)
                 /\ e.got["target"] = IntBytes(sent.target)
                 /\ e.text = Join(sent.vec)
      <3>1. \A i \in 1 .. Len(Order("server")) :
              Holds(e, Message("server"), Order("server")[i])
        <4>1. Delivered("server")
          BY <1>2, <2>1 DEF Inv, ServerHears
        <4> QED
          BY <1>1, <1>2, <4>1, MessageFormat, AllRead
      <3>2. /\ Order("server") = RequestFields /\ Len(RequestFields) = 5
            /\ RequestFields[1] = "type" /\ RequestFields[2] = "user_id"
            /\ RequestFields[3] = "target" /\ RequestFields[5] = "text"
            /\ Message("server") = RequestBytes(sent)
        BY DEF Order, Message, RequestFields
      <3> HIDE DEF e
      <3>3. \A i \in 1 .. 5 : Holds(e, RequestBytes(sent), RequestFields[i])
        BY <3>1, <3>2
      <3>4. 1 \in 1 .. 5 /\ 2 \in 1 .. 5 /\ 3 \in 1 .. 5 /\ 5 \in 1 .. 5
        OBVIOUS
      <3>5. /\ Holds(e, RequestBytes(sent), "type") /\ Holds(e, RequestBytes(sent), "user_id")
            /\ Holds(e, RequestBytes(sent), "target") /\ Holds(e, RequestBytes(sent), "text")
        BY <3>2, <3>3, <3>4
      <3> QED
        BY <3>5 DEF Holds, RequestBytes, Names
    <2> QED
      BY <1>3, <1>9, <2>1 DEF ExecutedAsSent
  <1>19. Answered'
    <2>1. ~(At("client", "idle") /\ sent # None /\ "client" \notin short)
      BY <1>9, <1>13 DEF Inv, Answered
    <2> QED
      BY <1>9, <1>11, <2>1 DEF Answered
  <1> QED
    BY <1>10, <1>14, <1>15, <1>17, <1>18, <1>19 DEF Inv

\* Only an end whose peer has left is reset; what it loses is the last it would
\* have received.
LEMMA ResetArrivesKeeps == ASSUME Inv, NEW x \in Sides, ResetArrives(x) PROVE Inv'
  <1> DEFINE y == Other(x)
  <1>1. /\ y \in Sides /\ y # x /\ Other(y) = x /\ \A z \in Sides : z = x \/ z = y
    BY Peers
  <1>2. PICK k \in 0 .. Len(inq[x]) : inq' = [inq EXCEPT ![x] = SubSeq(@, 1, k)]
    BY DEF ResetArrives
  <1>3. /\ end' = end /\ gone' = gone /\ sent' = sent /\ executed' = executed
        /\ answered' = answered /\ short' = short
        /\ rst' = [rst EXCEPT ![x] = "here"] /\ rst[x] = "coming"
    BY DEF ResetArrives, history
  <1>4. inq[x] \in Seq(Byte) /\ inq \in [Sides -> Seq(Byte)]
    BY DEF Inv, Typed
  <1> DEFINE b == SubSeq(inq[x], 1, k)
             lost == Dropped(inq[x], k)
  <1>5. b \in Seq(Byte) /\ lost \in Seq(Byte) /\ b \o lost = inq[x]
    BY <1>4, CutLast
  <1>6. inq' = [inq EXCEPT ![x] = b]
    BY <1>2
  <1>7. inq[x] = <<>> => b = <<>>
    <2>1. Len(b) = k
      BY <1>4
    <2>2. inq[x] = <<>> => k = 0
      BY EmptySeq
    <2> HIDE DEF b
    <2> QED
      BY <1>5, <2>1, <2>2, EmptySeq
  <1> HIDE DEF b, lost, y
  <1>8. inq' \in [Sides -> Seq(Byte)] /\ inq'[x] = b /\ inq'[y] = inq[y]
    BY <1>1, <1>4, <1>5, <1>6
  <1>9. Typed'
    BY <1>3, <1>8 DEF Inv, Typed
  <1>10. (Serving' <=> Serving) /\ (Feeding' <=> Feeding)
    BY <1>3 DEF Serving, Feeding, At
  <1>11. gone[y] # "no"
    BY <1>3 DEF Inv, Linked, y
  <1>12. Linked'
    <2>1. \A z \in Sides : rst'[z] # "no" => gone[Other(z)] # "no"
      <3>1. \A z \in Sides : rst[z] # "no" => gone[Other(z)] # "no"
        BY DEF Inv, Linked
      <3>2. rst'[y] = rst[y]
        BY <1>1, <1>3 DEF Inv, Typed
      <3> QED
        BY <1>1, <1>11, <3>1, <3>2 DEF y
    <2> QED
      BY <1>3, <1>10, <2>1 DEF Inv, Linked, At
  <1>13. Delivered(x) => Delivered(x)'
    <2> SUFFICES ASSUME Delivered(x) PROVE Delivered(x)'
      OBVIOUS
    <2>1. PICK j \in 1 .. Len(Order(x)) + 1 : \E rest \in Seq(Byte) :
            Arrives(Order(x), Message(x), end[x], j, inq[x], rest)
      BY DEF Delivered
    <2>2. PICK rest \in Seq(Byte) :
            Arrives(Order(x), Message(x), end[x], j, inq[x], rest)
      BY <2>1
    <2> DEFINE more == lost \o rest
    <2>3. more \in Seq(Byte) /\ inq[x] \o rest = b \o more
      <3>1. (b \o lost) \o rest = b \o (lost \o rest) /\ lost \o rest \in Seq(Byte)
        <4>1. \A h, f, q \in Seq(Byte) : (h \o f) \o q = h \o (f \o q) /\ f \o q \in Seq(Byte)
          BY Chain
        <4> QED
          BY <1>5, <4>1, Zenon
      <3> QED
        BY <1>5, <3>1
    <2> HIDE DEF more
    <2>4. Arrives(Order(x), Message(x), end[x], j, b, more)
      BY <2>2, <2>3 DEF Arrives
    <2>5. Order(x)' = Order(x) /\ Message(x)' = Message(x)
      BY <1>3 DEF Order, Message
    <2>6. \E h \in 1 .. Len(Order(x)) + 1 : \E t \in Seq(Byte) :
            Arrives(Order(x), Message(x), end[x], h, b, t)
      BY <2>3, <2>4
    <2> QED
      BY <1>3, <1>8, <1>11, <2>5, <2>6 DEF Delivered, y
  <1>14. Delivered(y) => Delivered(y)'
    BY <1>1, <1>3, <1>8, KeepsDelivered
  <1>15. \A z \in Sides : Delivered(z) => Delivered(z)'
    BY <1>1, <1>13, <1>14
  <1>16. \A z \in Sides : inq[z] = <<>> => inq'[z] = <<>>
    BY <1>1, <1>7, <1>8
  <1>17. "client" \in Sides /\ "server" \in Sides
    BY DEF Sides
  <1>18. ServerHears'
    BY <1>3, <1>15, <1>17 DEF Inv, ServerHears, At
  <1>19. ClientHears'
    BY <1>3, <1>10, <1>15, <1>16, <1>17 DEF Inv, ClientHears, Unanswered
  <1>20. ExecutedAsSent' /\ Answered'
    BY <1>3, <1>10, KeepsExecuted DEF Inv, Answered, At
  <1> QED
    BY <1>9, <1>12, <1>18, <1>19, <1>20 DEF Inv

-----------------------------------------------------------------------------
(* The theorems *)

LEMMA InitInv == ASSUME Init PROVE Inv
  <1>1. /\ End("idle") \in AnEnd /\ End("idle").pc = "idle" /\ End("idle").out = <<>>
        /\ End("idle").text = <<>>
    BY EndIs
  <1>2. /\ End("listen") \in AnEnd /\ End("listen").pc = "listen" /\ End("listen").out = <<>>
        /\ End("listen").text = <<>>
    BY EndIs
  <1>3. end = [x \in Sides |-> End(IF x = "client" THEN "idle" ELSE "listen")]
    BY DEF Init
  <1>4. /\ inq = [x \in Sides |-> <<>>] /\ gone = [x \in Sides |-> "no"]
        /\ rst = [x \in Sides |-> "no"]
        /\ sent = None /\ executed = None /\ answered = None /\ short = {}
    BY DEF Init
  <1>5. /\ end["client"] = End("idle") /\ end["server"] = End("listen")
        /\ end \in [Sides -> AnEnd] /\ \A x \in Sides : x = "client" \/ x = "server"
    BY <1>1, <1>2, <1>3 DEF Sides
  <1>6. Typed
    <2>1. Len(<<>>) \in 0 .. 5 /\ Len(<<>>) < HugeLen
      BY EmptySeq, WireAssumption
    <2>2. \A x \in Sides : Len(end[x].out) \in 0 .. 5 /\ Len(end[x].text) < HugeLen
      BY <1>1, <1>2, <1>5, <2>1
    <2>3. <<>> \in Seq(Byte)
      OBVIOUS
    <2>4. inq \in [Sides -> Seq(Byte)]
      BY <1>4, <2>3
    <2>5. gone \in [Sides -> {"no", "fin", "rst"}]
          /\ rst \in [Sides -> {"no", "coming", "here", "noted"}] /\ short \subseteq Sides
      BY <1>4
    <2>6. end["client"].pc \in {"idle", "write", "read", "left"}
          /\ end["server"].pc \in {"listen", "read", "write", "down"}
      BY <1>1, <1>2, <1>5
    <2> QED
      BY <1>5, <2>2, <2>4, <2>5, <2>6 DEF Typed
  <1>7. ~Serving /\ ~Feeding /\ ~At("server", "read")
    BY <1>1, <1>2, <1>5 DEF Serving, Feeding, At
  <1>8. Linked
    <2>1. \A x \in Sides : end[x].out = <<>> /\ rst[x] = "no"
      BY <1>1, <1>2, <1>4, <1>5
    <2> QED
      BY <1>4, <1>7, <2>1 DEF Linked, Serving
  <1>9. ServerHears /\ ClientHears /\ ExecutedAsSent /\ Answered
    BY <1>4, <1>7 DEF ServerHears, ClientHears, ExecutedAsSent, Answered
  <1> QED
    BY <1>6, <1>8, <1>9 DEF Inv

\* Nothing happens.
LEMMA StutterKeeps == ASSUME Inv, UNCHANGED vars PROVE Inv'
  <1>1. /\ end' = end /\ inq' = inq /\ gone' = gone /\ rst' = rst /\ sent' = sent
        /\ executed' = executed /\ answered' = answered /\ short' = short
    BY DEF vars, net, history
  <1>2. Typed' /\ Linked'
    BY <1>1 DEF Inv, Typed, Linked, Serving, Feeding, At
  <1>3. \A x \in Sides : Delivered(x) => Delivered(x)'
    BY <1>1, KeepsDelivered
  <1>4. "client" \in Sides /\ "server" \in Sides
    BY DEF Sides
  <1>5. ServerHears' /\ ClientHears'
    BY <1>1, <1>3, <1>4 DEF Inv, ServerHears, ClientHears, Unanswered, Feeding, At
  <1>6. ExecutedAsSent' /\ Answered'
    BY <1>1, KeepsExecuted DEF Inv, Answered, Serving, At
  <1> QED
    BY <1>2, <1>5, <1>6 DEF Inv

LEMMA InvStep == ASSUME Inv, [Next]_vars PROVE Inv'
  <1>1. CASE Feed
    BY <1>1, ConnectKeeps, ConnectFailsKeeps DEF Feed
  <1>2. CASE ClientGoesOn
    <2>1. "client" \in Sides
      BY DEF Sides
    <2> QED
      BY <1>2, <2>1, WriteKeeps, ReadsKeep, AwaitsKeeps, ClientLeavesKeeps
      DEF ClientGoesOn, Fields
  <1>3. CASE ClientLeaves
    BY <1>3, ClientLeavesKeeps
  <1>4. CASE ServerGoesOn
    <2>1. "server" \in Sides
      BY DEF Sides
    <2> QED
      BY <1>4, <2>1, WriteKeeps, ReadsKeep, ExecKeeps, ServerLeavesKeeps
      DEF ServerGoesOn, Fields
  <1>5. CASE Dies
    BY <1>5, ServerLeavesKeeps
  <1>6. CASE Restart
    BY <1>6, RestartKeeps
  <1>7. CASE \E x \in Sides : ResetArrives(x)
    BY <1>7, ResetArrivesKeeps
  <1>8. CASE UNCHANGED vars
    BY <1>8, StutterKeeps
  <1> QED
    BY <1>1, <1>2, <1>3, <1>4, <1>5, <1>6, <1>7, <1>8 DEF Next

LEMMA AlwaysInv == Spec => []Inv
  BY InitInv, InvStep, PTL DEF Spec

\* Whatever was cut, lost or reset, an int that an end reads keeps its width (no
\* recv of base_data::read writes past its field) and a string its bytes.
THEOREM WireTypes == Spec => []TypeOK
  <1>1. ASSUME Inv PROVE TypeOK
    <2>1. \A x \in Sides : end[x] \in AnEnd /\ Len(end[x].text) < HugeLen
      BY <1>1 DEF Inv, Typed
    <2>2. ASSUME NEW x \in Sides, NEW f \in DOMAIN end[x].got
          PROVE  /\ Len(end[x].got[f]) = Width
                 /\ \A i \in 1 .. Width : end[x].got[f][i] \in Byte \cup {Junk}
      <3>1. end[x].got \in [Names \ {"text"} -> Word]
        BY <2>1, EndFields
      <3>2. end[x].got[f] \in Seq(Byte \cup {Junk}) /\ Len(end[x].got[f]) = Width
        BY <2>2, <3>1 DEF Word
      <3> DEFINE w == end[x].got[f]
      <3> HIDE DEF w
      <3>3. \A i \in 1 .. Width : w[i] \in Byte \cup {Junk}
        BY <3>2, ElementOfSeq DEF w
      <3> QED
        BY <3>2, <3>3 DEF w
    <2>3. \A x \in Sides : end[x].text \in Seq(Byte)
      BY <2>1, EndFields
    <2> QED
      BY <1>1, <2>1, <2>2, <2>3 DEF TypeOK, Inv, Typed
  <1> QED
    BY <1>1, AlwaysInv, PTL

\* What session::serve hands to exec is the request that feed sent, unless one of
\* its own reads came up short: cutting the stream anywhere, a client that left,
\* a reset and a restart of the server change nothing about it.
THEOREM SentIsExecuted == Spec => []ExecutedAsSent
  <1>1. Inv => ExecutedAsSent
    BY DEF Inv
  <1> QED
    BY <1>1, AlwaysInv, PTL

\* What feed returns after full reads is what the handler answered to this very
\* request, and it makes up an answer only for a request that nobody executed.
THEOREM AnswersReturned == Spec => []AnswerIsTheServers
  <1>1. Answered => AnswerIsTheServers
    BY DEF Answered, AnswerIsTheServers
  <1>2. Inv => Answered
    BY DEF Inv
  <1> QED
    BY <1>1, <1>2, AlwaysInv, PTL

\* The request that was executed is one that was sent.
Asked == executed # None => sent \in Requests

LEMMA AskedStep == ASSUME Inv, Asked, [Next]_vars PROVE Asked'
  <1>1. CASE Feed
    BY <1>1 DEF Feed, Connect, ConnectFails, Asked
  <1>2. CASE Exec
    BY <1>2 DEF Exec, Asked, Inv, Linked, Serving
  <1>3. CASE UNCHANGED <<sent, executed>>
    BY <1>3 DEF Asked
  <1>4. CASE UNCHANGED history \/ UNCHANGED vars
    BY <1>3, <1>4 DEF history, vars
  <1>5. ASSUME NEW x \in Sides, Fields(x) PROVE UNCHANGED <<sent, executed>>
    BY <1>5 DEF Fields, Write, ReadInt, ReadLen, ReadText, Takes, history
  <1>6. ClientGoesOn \/ ClientLeaves => UNCHANGED <<sent, executed>>
    BY <1>5 DEF ClientGoesOn, ClientLeaves, Awaits, Returns, FeedThrows, history, Sides
  <1>7. ServerGoesOn => UNCHANGED <<sent, executed>> \/ Exec
    BY <1>5 DEF ServerGoesOn, Done, ServeThrows, ServePipe, Ends, history, Sides
  <1>8. Dies \/ Restart => UNCHANGED history
    BY DEF Dies, Restart, Ends
  <1>9. \A x \in Sides : ResetArrives(x) => UNCHANGED history
    BY DEF ResetArrives
  <1> QED
    BY <1>1, <1>2, <1>3, <1>4, <1>6, <1>7, <1>8, <1>9 DEF Next

\* The handler gets the fields that were typed, as many and each as long as they
\* were, whenever none of them holds the delimiter: Split undoes Join.
THEOREM FieldsAsTyped == Spec => []FieldsArrive
  <1>1. Init => Asked
    BY DEF Init, Asked, history, None
  <1>2. Inv /\ Asked => FieldsArrive
    <2> SUFFICES ASSUME Inv, Asked, executed # None, "server" \notin short,
                        \A k \in DOMAIN sent.vec :
                          \A i \in DOMAIN sent.vec[k] : sent.vec[k][i] # Delimiter
                 PROVE  Split(executed.text) = IF sent.vec = <<>> THEN << <<>> >> ELSE sent.vec
      BY DEF FieldsArrive
    <2>1. executed.text = Join(sent.vec)
      BY DEF Inv, ExecutedAsSent
    <2>2. sent.vec \in Seq(Seq(Byte)) /\ Byte \subseteq Int /\ Delimiter \in Int
      BY MessagesAssumption, WireAssumption DEF Asked, Byte
    <2>3. sent.vec \in Seq(Seq(Int))
      <3>1. Seq(Byte) \subseteq Seq(Int)
        BY <2>2, SeqMonotonic
      <3> QED
        BY <2>2, <3>1, SeqMonotonic
    <2> QED
      BY <2>1, <2>2, <2>3, SplitJoin
  <1> QED
    BY <1>1, <1>2, AskedStep, AlwaysInv, PTL DEF Spec
=============================================================================
