---------------------------- MODULE Pure_proofs ----------------------------
(***************************************************************************)
(* The parts that keep no state of their own, for every value of their     *)
(* parameters: what package pktline reads is what was written and its two  *)
(* readers agree, base58btc and the keys of package multibase are read as  *)
(* they were encoded, and the git routes serve only what is inside of      *)
(* ReposDir.                                                               *)
(*                                                                         *)
(* Recursion.  Number, Digits, Clean and the offsets of DecodeAgrees are   *)
(* recursive functions over 0 .. N, in which the value at i comes from the *)
(* value at one earlier place.  The first section shows once that such a   *)
(* function exists and is unique, and that what its step preserves holds   *)
(* everywhere, from the theorem that < on the natural numbers is           *)
(* well-founded.  The other sections unfold each function with it.         *)
(*                                                                         *)
(* pktline.  The inductive invariant is Inv of Pktline.  Its core is       *)
(* Streamed: some function at cuts the wire into the frames of the packets *)
(* in sent, and the reader stands at at[r] or behind the prefix there, r   *)
(* packets having been received.  Numbers survive Prefix and ParseUint;    *)
(* every action of the writer only adds to the wire, and what it adds is a *)
(* frame, the prefix of one or a part of one, or is foreign; the reader,   *)
(* where it stands, can only find the next of these, and what it likes     *)
(* behind the last.  That Decode agrees rests on Cut instead, which cuts   *)
(* the bytes that were read, whoever wrote them, into the frames of the    *)
(* packets that were received.                                             *)
(*                                                                         *)
(* multibase.  A text is its leading zeros and a text without any, which   *)
(* is the text of its number in each base.                                 *)
(*                                                                         *)
(* The git routes.  Clean of a path begins with ".." exactly if some       *)
(* beginning of the path goes up more often than down.                     *)
(***************************************************************************)
EXTENDS Pktline, Multibase, GitRoutes, TLAPS,
        FiniteSetTheorems, SequenceTheorems

-----------------------------------------------------------------------------
(* Recursion and induction over numbers *)

(* A set of natural numbers that is not empty has a least element: the       *)
(* theorem that < is well-founded, for sets.                                 *)
LEMMA Least ==
  ASSUME NEW T, T \subseteq Nat, T # {}
  PROVE  \E x \in T : \A y \in T : x <= y
<1> DEFINE R == {ss \in Nat \X Nat : ss[1] < ss[2]}
<1>1. IsWellFoundedOn(R, Nat)
  BY NatLessThanWellFounded DEF OpToRel
<1>2. \A x, y \in Nat : <<y, x>> \notin R => x <= y
  OBVIOUS
<1> HIDE DEF R
<1>3. \E x \in T : \A y \in T : ~ (<<y, x>> \in R)
  BY ONLY <1>1, WFMin, T \subseteq Nat, T # {}
<1> QED BY <1>2, <1>3

(* Induction: a set with 0 and the successor of each of its numbers has all  *)
(* numbers. A set stands for the predicate that the provers cannot           *)
(* instantiate.                                                              *)
LEMMA Induction ==
  ASSUME NEW S, 0 \in S, \A n \in Nat : n \in S => n + 1 \in S
  PROVE  \A n \in Nat : n \in S
<1> SUFFICES ASSUME Nat \ S # {} PROVE FALSE
  OBVIOUS
<1>1. PICK x \in Nat \ S : \A y \in Nat \ S : x <= y
  BY Least
<1>2. x - 1 \in Nat /\ x - 1 \notin S
  BY <1>1
<1> QED BY <1>1, <1>2

(* Recursion over 0 .. N: the value at i comes from the value at an earlier   *)
(* place p[i].                                                               *)
Earlier(p, N) == p \in [1 .. N -> Nat] /\ \A i \in 1 .. N : p[i] < i

(* g is defined by that recursion: c at 0, and step[i] of the value at p[i]. *)
Follows(g, N, c, p, step) == g[0] = c /\ \A i \in 1 .. N : g[i] = step[i][g[p[i]]]

(* g and h agree at 0, and at i whenever they agree at p[i].                 *)
Alike(g, h, N, p) ==
  /\ g = [i \in 0 .. N |-> g[i]] /\ h = [i \in 0 .. N |-> h[i]] /\ g[0] = h[0]
  /\ \A i \in 1 .. N : g[p[i]] = h[p[i]] => g[i] = h[i]

(* The recursion of a loop: each place comes from the one before it.         *)
Back(N) == [i \in 1 .. N |-> i - 1]

(* There is a function for every such recursion, so a recursive function of  *)
(* the model is one and not what CHOOSE makes of nothing.                    *)
LEMMA Recursion ==
  ASSUME NEW N \in Nat, NEW S, NEW c \in S, NEW p, Earlier(p, N),
         NEW step \in [1 .. N -> [S -> S]]
  PROVE  \E g \in [0 .. N -> S] : Follows(g, N, c, p, step)
<1> DEFINE Up(k, g) == g[0] = c /\ \A i \in 1 .. N : i <= k => g[i] = step[i][g[p[i]]]
           K == {k \in Nat : \E g \in [0 .. N -> S] : Up(k, g)}
<1>0. p \in [1 .. N -> Nat] /\ \A i \in 1 .. N : p[i] < i
  BY DEF Earlier
<1>1. 0 \in K
  <2>1. [i \in 0 .. N |-> c] \in [0 .. N -> S] /\ Up(0, [i \in 0 .. N |-> c])
    OBVIOUS
  <2> QED BY <2>1
<1>2. ASSUME NEW k \in Nat, k \in K PROVE k + 1 \in K
  <2>1. PICK g \in [0 .. N -> S] : Up(k, g)
    BY <1>2
  <2>2. CASE k + 1 > N
    <3>1. Up(k + 1, g)
      BY <2>1, <2>2
    <3> HIDE DEF Up
    <3> QED BY <3>1
  <2>3. CASE k + 1 <= N
    <3> DEFINE v == step[k + 1][g[p[k + 1]]]
               h == [g EXCEPT ![k + 1] = v]
    <3>1. p[k + 1] \in 0 .. N /\ g[p[k + 1]] \in S /\ v \in S
      BY <1>0, <2>3
    <3> HIDE DEF v
    <3>2. h \in [0 .. N -> S] /\ h[k + 1] = v /\ \A i \in 0 .. N : i # k + 1 => h[i] = g[i]
      BY <2>3, <3>1
    <3> HIDE DEF h
    <3>3. ASSUME NEW i \in 1 .. N, i <= k + 1 PROVE h[i] = step[i][h[p[i]]]
      <4>1. p[i] \in 0 .. N /\ p[i] # k + 1 /\ h[p[i]] = g[p[i]]
        BY <1>0, <3>2, <3>3
      <4>2. CASE i = k + 1
        BY <3>2, <4>1, <4>2 DEF v
      <4>3. CASE i <= k
        BY <2>1, <3>2, <4>1, <4>3
      <4> QED BY <3>3, <4>2, <4>3
    <3>4. h[0] = c
      BY <2>1, <3>2
    <3>5. Up(k + 1, h)
      BY <3>3, <3>4
    <3> HIDE DEF Up
    <3> QED BY <3>2, <3>5
  <2> QED BY <2>2, <2>3
<1>3. N \in K
  <2> HIDE DEF K
  <2> QED BY <1>1, <1>2, Induction
<1>4. PICK g \in [0 .. N -> S] : Up(N, g)
  BY <1>3
<1>5. Follows(g, N, c, p, step)
  BY <1>4 DEF Follows
<1> QED BY <1>5

(* Induction along the recursion: what holds at 0, and at i if it holds at   *)
(* p[i], holds everywhere.                                                   *)
LEMMA EarlierInduction ==
  ASSUME NEW N \in Nat, NEW p, Earlier(p, N), NEW S, 0 \in S,
         \A i \in 1 .. N : p[i] \in S => i \in S
  PROVE  \A i \in 0 .. N : i \in S
<1> DEFINE T == {i \in 0 .. N : i \notin S}
<1>1. T = {}
  <2> SUFFICES ASSUME T # {} PROVE FALSE
    OBVIOUS
  <2>1. PICK m \in T : \A i \in T : m <= i
    <3> T \subseteq Nat
      OBVIOUS
    <3> HIDE DEF T
    <3> QED BY Least
  <2>2. m \in 1 .. N /\ m \notin S
    BY <2>1
  <2>3. p[m] \in 0 .. N /\ p[m] < m
    BY <2>2 DEF Earlier
  <2>4. p[m] \in S
    BY <2>1, <2>3
  <2> QED BY <2>2, <2>4
<1> QED BY <1>1

(* There is only one: two functions that are alike are the same.             *)
LEMMA Determined ==
  ASSUME NEW N \in Nat, NEW p, Earlier(p, N), NEW g, NEW h, Alike(g, h, N, p)
  PROVE  g = h
<1> DEFINE S == {i \in 0 .. N : g[i] = h[i]}
<1>0. g[0] = h[0] /\ \A i \in 1 .. N : g[p[i]] = h[p[i]] => g[i] = h[i]
  BY DEF Alike
<1>1. 0 \in S
  BY <1>0
<1>2. \A i \in 1 .. N : p[i] \in S => i \in S
  BY ONLY N \in Nat, <1>0
<1>3. \A i \in 0 .. N : i \in S
  <2> HIDE DEF S
  <2> QED BY <1>1, <1>2, EarlierInduction
<1>4. [i \in 0 .. N |-> g[i]] = [i \in 0 .. N |-> h[i]]
  BY <1>3
<1>5. g = [i \in 0 .. N |-> g[i]] /\ h = [i \in 0 .. N |-> h[i]]
  BY DEF Alike
<1> QED BY ONLY <1>4, <1>5

(* The place before is an earlier one.                                       *)
LEMMA BackIs ==
  ASSUME NEW N \in Nat
  PROVE  Earlier(Back(N), N) /\ \A i \in 1 .. N : Back(N)[i] = i - 1
BY DEF Earlier, Back

-----------------------------------------------------------------------------
(* pktline: numbers, packets and frames *)

(* A part of a sequence.                                                     *)
LEMMA PartIs ==
  ASSUME NEW S, NEW w \in Seq(S), NEW a \in Nat, NEW l \in Nat, a + l <= Len(w),
         NEW q, q = SubSeq(w, a + 1, a + l)
  PROVE  q \in Seq(S) /\ Len(q) = l /\ \A k \in 1 .. l : q[k] = w[a + k]
<1>1. PICK m \in Int, n \in Int : m = a + 1 /\ n = a + l
  OBVIOUS
<1>2. \A i \in m .. n : w[i] \in S
  <2>1. Len(w) \in Nat
    OBVIOUS
  <2>2. \A i \in m .. n : i \in 1 .. Len(w)
    BY ONLY <1>1, <2>1, a \in Nat, l \in Nat, a + l <= Len(w)
  <2> QED BY ONLY <2>2, w \in Seq(S), ElementOfSeq
<1>3. /\ q \in Seq(S) /\ Len(q) = IF m <= n THEN n - m + 1 ELSE 0
      /\ \A i \in 1 .. n - m + 1 : q[i] = w[m + i - 1]
  <2>1. q = SubSeq(w, m, n)
    BY ONLY <1>1, q = SubSeq(w, a + 1, a + l)
  <2>2. /\ SubSeq(w, m, n) \in Seq(S)
        /\ Len(SubSeq(w, m, n)) = IF m <= n THEN n - m + 1 ELSE 0
        /\ \A i \in 1 .. n - m + 1 : SubSeq(w, m, n)[i] = w[m + i - 1]
    BY ONLY <1>2, m \in Int, n \in Int, SubSeqProperties
  <2> QED BY ONLY <2>1, <2>2, Zenon
<1>4. n - m + 1 = l /\ (m <= n <=> l > 0) /\ \A k \in 1 .. l : m + k - 1 = a + k
  BY ONLY <1>1, a \in Nat, l \in Nat
<1>5. Len(q) = l
  BY ONLY <1>3, <1>4, l \in Nat
<1>6. \A k \in 1 .. l : q[k] = w[a + k]
  BY ONLY <1>3, <1>4
<1> QED BY ONLY <1>3, <1>5, <1>6

(* The same of a string of bytes, as one relation between the two.           *)
PartOf(q, w, a, l) ==
  q \in Seq(Bytes) /\ Len(q) = l /\ \A k \in 1 .. l : q[k] = w[a + k]

LEMMA BytesPart ==
  ASSUME NEW w \in Seq(Bytes), NEW a \in Nat, NEW l \in Nat, a + l <= Len(w),
         NEW q, q = SubSeq(w, a + 1, a + l)
  PROVE  PartOf(q, w, a, l)
BY PartIs, SMTT(30) DEF PartOf

(* What the quotient and the remainder of a number are.                      *)
LEMMA DivMod ==
  ASSUME NEW b \in Nat \ {0}, NEW n \in Nat
  PROVE  /\ n \div b \in Nat /\ n % b \in 0 .. b - 1
         /\ n = b * (n \div b) + (n % b)
  OBVIOUS

(* Dividing twice: the digits that Prefix takes with one division each are   *)
(* those of repeated division.                                               *)
LEMMA DivDiv ==
  ASSUME NEW b \in Nat \ {0}, NEW c \in Nat \ {0}, NEW n \in Nat
  PROVE  n \div (b * c) = (n \div b) \div c
<1> DEFINE q == n \div b
<1> DEFINE d == q \div c
<1>0. b * c \in Nat \ {0}
  OBVIOUS
<1>3. q \in Nat /\ \E r \in 0 .. b - 1 : n = b * q + r
  BY DivMod
<1>4. d \in Nat /\ \E s \in 0 .. c - 1 : q = c * d + s
  BY <1>3, DivMod
<1> HIDE DEF q, d
<1>5. PICK r \in 0 .. b - 1 : n = b * q + r
  BY <1>3
<1>6. PICK s \in 0 .. c - 1 : q = c * d + s
  BY <1>4
<1>7. n = (b * c) * d + (b * s + r)
  BY <1>3, <1>4, <1>5, <1>6
<1>8. b * s + r \in 0 .. b * c - 1
  BY <1>5, <1>6
<1>9. n \div (b * c) = d
  BY <1>0, <1>7, <1>8, <1>4
<1> QED BY <1>9 DEF q, d

(* fmt.Sprintf("%04x") writes four digits.                                   *)
LEMMA PrefixDigits ==
  ASSUME NEW n \in Nat
  PROVE  Prefix(n) \in Seq(Bytes) /\ Len(Prefix(n)) = 4
         /\ \A k \in 1 .. 4 : Prefix(n)[k] \in 0 .. Base - 1
<1>1. /\ Base \in Nat \ {0} /\ Base * Base \in Nat \ {0}
      /\ Base * Base * Base \in Nat \ {0}
  BY PktlineAssumption
<1>2. \A m \in Nat : m % Base \in 0 .. Base - 1
  BY <1>1
<1>3. /\ n \div Base \in Nat /\ n \div (Base * Base) \in Nat
      /\ n \div (Base * Base * Base) \in Nat
  BY <1>1, DivMod
<1> QED BY <1>1, <1>2, <1>3 DEF Prefix, Bytes

(* ParseUint undoes "%04x" for every number of four digits: the length       *)
(* that Next and Decode take from a prefix is the one that was written.      *)
LEMMA ParsePrefix ==
  ASSUME NEW n \in 0 .. Base * Base * Base * Base - 1, NEW q,
         \A k \in 1 .. 4 : q[k] = Prefix(n)[k]
  PROVE  ParseUint(q) = n
<1> DEFINE a == n \div Base
           b == a \div Base
           c == b \div Base
<1>0. Base \in Nat \ {0, 1} /\ n \in Nat
  BY PktlineAssumption
<1>1. a \in Nat /\ b \in Nat /\ c \in Nat
  BY <1>0, DivMod
<1>2. n \div (Base * Base) = b
  BY <1>0, DivDiv
<1>3. n \div (Base * Base * Base) = c
  BY <1>0, <1>2, DivDiv
<1>4. /\ n = Base * a + (n % Base) /\ a = Base * b + (a % Base)
      /\ b = Base * c + (b % Base)
  BY <1>0, <1>1, DivMod
<1>5. c < Base
  BY <1>0, <1>1, <1>4
<1>6. c % Base = c
  BY <1>0, <1>1, <1>5
<1>7. q[1] = c /\ q[2] = b % Base /\ q[3] = a % Base /\ q[4] = n % Base
  BY <1>2, <1>3, <1>6 DEF Prefix
<1>8. \A k \in 1 .. 4 : q[k] \in 0 .. Base - 1
  BY <1>0, PrefixDigits
<1> QED BY <1>0, <1>1, <1>4, <1>7, <1>8 DEF ParseUint

(* A payload of n bytes.                                                     *)
LEMMA PayloadBytes ==
  ASSUME NEW n \in Nat
  PROVE  Payload(n) \in Seq(Bytes) /\ Len(Payload(n)) = n
<1>1. \A i \in 1 .. n : (n + i) % (Base + 1) \in Bytes
  BY PktlineAssumption DEF Bytes
<1> QED BY <1>1 DEF Payload

(* A packet that was sent carries its number: Special finds the type of a    *)
(* marker in it and nothing in that of a data packet.                        *)
LEMMA PacketBytes ==
  ASSUME NEW p \in Packets
  PROVE  /\ p.type \in Markers \cup {"data"} /\ p.payload \in Seq(Bytes)
         /\ p = Packet(p.type, p.payload)
         /\ Len(p.payload) \in Nat
         /\ p.type # "data" => p.payload = <<>>
         /\ Field(p) \in (0 .. 2) \cup (4 .. MaxPktLen)
         /\ p.type = "data" => Field(p) = Size(p)
         /\ p.type # "data" => Field(p) \in 0 .. 2 /\ Special(Field(p)) = p.type
<1>1. CASE \E m \in Markers : p = Packet(m, <<>>)
  <2>1. PICK m \in Markers : p = Packet(m, <<>>)
    BY <1>1
  <2>2. Field(p) = (IF m = "flush" THEN 0 ELSE IF m = "delimiter" THEN 1 ELSE 2)
    BY <2>1 DEF Packet, Markers, Field
  <2>3. Special(0) = "flush" /\ Special(1) = "delimiter" /\ Special(2) = "response-end"
    BY DEF Special
  <2> QED BY <2>1, <2>2, <2>3, PktlineAssumption DEF Packet, Markers, Size
<1>2. CASE \E n \in Lengths : n + 4 <= MaxPktLen /\ p = Packet("data", Payload(n))
  <2>1. PICK n \in Lengths : n + 4 <= MaxPktLen /\ p = Packet("data", Payload(n))
    BY <1>2
  <2>2. n \in Nat /\ Payload(n) \in Seq(Bytes) /\ Len(Payload(n)) = n
    BY PktlineAssumption, PayloadBytes
  <2> QED BY <2>1, <2>2, PktlineAssumption DEF Packet, Markers, Field, Size
<1> QED BY <1>1, <1>2 DEF Packets

(* Every length up to MaxPktLen has four digits, so none is taken for an     *)
(* error.                                                                    *)
LEMMA NumbersFit ==
  ASSUME NEW n \in 0 .. MaxPktLen
  PROVE  n \in 0 .. Base * Base * Base * Base - 1 /\ ~Invalid(n)
BY PktlineAssumption DEF Invalid

(* A marker is the prefix of its number.                                     *)
LEMMA MarkerPrefix ==
  ASSUME NEW m \in Markers
  PROVE  Packet(m, <<>>) \in Packets /\ Marker(m) = Prefix(Field(Packet(m, <<>>)))
<1>1. Packet(m, <<>>) \in Packets
  BY DEF Packets
<1>2. Marker("flush") = Prefix(0) /\ Marker("delimiter") = Prefix(1)
      /\ Marker("response-end") = Prefix(2)
  BY DEF Marker
<1>3. /\ Field(Packet("flush", <<>>)) = 0 /\ Field(Packet("delimiter", <<>>)) = 1
      /\ Field(Packet("response-end", <<>>)) = 2
  BY DEF Field, Packet
<1> QED BY <1>1, <1>2, <1>3 DEF Markers

(* v begins with w.                                                          *)
Extends(v, w) ==
  /\ v \in Seq(Bytes) /\ w \in Seq(Bytes) /\ Len(w) <= Len(v)
  /\ \A k \in 1 .. Len(w) : v[k] = w[k]

(* What a Write adds is behind what was there.                               *)
LEMMA Joined ==
  ASSUME NEW u \in Seq(Bytes), NEW b \in Seq(Bytes)
  PROVE  /\ Extends(u \o b, u) /\ Len(u \o b) = Len(u) + Len(b)
         /\ \A k \in 1 .. Len(b) : (u \o b)[Len(u) + k] = b[k]
<1>1. Len(u) \in Nat /\ Len(b) \in Nat
  OBVIOUS
<1> QED BY <1>1, ConcatProperties DEF Extends

(* v is w and the first k elements of f.                                     *)
Grown(v, w, f, k) ==
  /\ Extends(v, w) /\ Len(v) = Len(w) + k
  /\ \A i \in 1 .. k : v[Len(w) + i] = f[i]

(* The same for a Write that breaks off after k bytes.                       *)
LEMMA PartWritten ==
  ASSUME NEW w \in Seq(Bytes), NEW f \in Seq(Bytes), NEW k \in 0 .. Len(f)
  PROVE  Grown(w \o SubSeq(f, 1, k), w, f, k)
<1>1. PICK c \in Seq(Bytes) :
        c = SubSeq(f, 1, k) /\ Len(c) = k /\ \A i \in 1 .. k : c[i] = f[i]
  <2>1. SubSeq(f, 1, k) \in Seq(Bytes) /\ Len(SubSeq(f, 1, k)) = k
        /\ \A i \in 1 .. k : SubSeq(f, 1, k)[i] = f[i]
    OBVIOUS
  <2> QED BY <2>1
<1>2. Extends(w \o c, w) /\ Len(w \o c) = Len(w) + Len(c)
      /\ \A i \in 1 .. Len(c) : (w \o c)[Len(w) + i] = c[i]
  BY Joined
<1> QED BY <1>1, <1>2 DEF Grown

(* A frame that Encode returned, written behind w, lies there.               *)
LEMMA FrameWritten ==
  ASSUME NEW w \in Seq(Bytes), NEW p \in Packets, NEW f \in Seq(Bytes), NEW v,
         f = Prefix(Field(p)) \o p.payload, Grown(v, w, f, Len(f))
  PROVE  Len(v) = Len(w) + Size(p) /\ Placed(v, Len(w), p)
<1>1. /\ p.payload \in Seq(Bytes) /\ Len(p.payload) \in Nat /\ Field(p) \in Nat
      /\ Len(w) \in Nat
  BY PacketBytes
<1>2. Prefix(Field(p)) \in Seq(Bytes) /\ Len(Prefix(Field(p))) = 4
  BY <1>1, PrefixDigits
<1>3. PICK h \in Seq(Bytes), d \in Seq(Bytes) :
        h = Prefix(Field(p)) /\ d = p.payload /\ Len(h) = 4 /\ Len(d) \in Nat
  BY <1>1, <1>2
<1>4. /\ Len(f) = 4 + Len(d) /\ \A k \in 1 .. 4 : f[k] = h[k]
      /\ \A k \in 1 .. Len(d) : f[4 + k] = d[k]
  <2>1. f = h \o d
    BY <1>3
  <2>2. /\ Len(h \o d) = Len(h) + Len(d) /\ \A k \in 1 .. Len(h) : (h \o d)[k] = h[k]
        /\ \A k \in 1 .. Len(d) : (h \o d)[Len(h) + k] = d[k]
    BY Joined DEF Extends
  <2> QED BY <1>3, <2>1, <2>2
<1>5. Len(v) = Len(w) + Len(f) /\ \A k \in 1 .. Len(f) : v[Len(w) + k] = f[k]
  BY DEF Grown
<1>6. \A k \in 1 .. 4 : v[Len(w) + k] = h[k]
  BY <1>3, <1>4, <1>5
<1>7. ASSUME NEW k \in 1 .. Len(d) PROVE v[Len(w) + 4 + k] = d[k]
  <2>1. 4 + k \in 1 .. Len(f) /\ Len(w) + 4 + k = Len(w) + (4 + k)
    BY <1>1, <1>3, <1>4
  <2> QED BY <1>4, <1>5, <2>1
<1> QED BY <1>3, <1>4, <1>5, <1>6, <1>7 DEF Placed, Headed, Size

(* What is on the wire stays there when it grows: a prefix, ...              *)
LEMMA HeadedStays ==
  ASSUME NEW v, NEW w, Extends(v, w), NEW a \in Nat, NEW n,
         a + 4 <= Len(w), Headed(w, a, n)
  PROVE  Headed(v, a, n)
<1>1. Len(w) \in Nat
  BY DEF Extends
<1> QED BY <1>1 DEF Headed, Extends

(* ... a frame ...                                                           *)
LEMMA PlacedStays ==
  ASSUME NEW v, NEW w, Extends(v, w), NEW a \in Nat, NEW p \in Packets,
         a + Size(p) <= Len(w), Placed(w, a, p)
  PROVE  Placed(v, a, p)
<1>1. Len(p.payload) \in Nat /\ Len(w) \in Nat
  BY PacketBytes DEF Extends
<1>2. Headed(v, a, Field(p))
  BY <1>1, HeadedStays DEF Placed, Size
<1>3. ASSUME NEW k \in 1 .. Len(p.payload) PROVE v[a + 4 + k] = p.payload[k]
  <2>1. a + 4 + k \in 1 .. Len(w)
    BY <1>1 DEF Size
  <2> QED BY <2>1 DEF Placed, Extends
<1> QED BY <1>2, <1>3 DEF Placed

(* ... and all the frames that were sent.                                    *)
LEMMA FramesKept ==
  ASSUME NEW v, NEW w, Extends(v, w), NEW s \in Seq(Packets),
         NEW at \in [0 .. Len(s) -> 0 .. Len(w)], Frames(w, s, at)
  PROVE  at \in [0 .. Len(s) -> 0 .. Len(v)] /\ Frames(v, s, at)
<1>0. Len(w) \in Nat /\ Len(v) \in Nat /\ Len(w) <= Len(v) /\ Len(s) \in Nat
  BY DEF Extends
<1>1. at \in [0 .. Len(s) -> 0 .. Len(v)]
  BY <1>0
<1>2. ASSUME NEW i \in 1 .. Len(s) PROVE Placed(v, at[i - 1], s[i])
  <2>0. i \in 0 .. Len(s) /\ i - 1 \in 0 .. Len(s)
    BY <1>0
  <2>1. s[i] \in Packets
    BY ElementOfSeq
  <2>2. at[i - 1] \in Nat /\ at[i] \in 0 .. Len(w)
    BY <1>0, <2>0
  <2>3. at[i - 1] + Size(s[i]) <= Len(w) /\ Placed(w, at[i - 1], s[i])
    BY <1>0, <2>2 DEF Frames
  <2> QED BY <2>1, <2>2, <2>3, PlacedStays
<1> QED BY <1>1, <1>2 DEF Frames

(* The frame written last continues the row of frames.                       *)
LEMMA FrameAdded ==
  ASSUME NEW v \in Seq(Bytes), NEW s \in Seq(Packets), NEW n \in Nat, n = Len(s),
         NEW at \in [0 .. n -> 0 .. Len(v)], Frames(v, s, at),
         NEW p \in Packets, Placed(v, at[n], p), Len(v) = at[n] + Size(p)
  PROVE  \E to \in [0 .. n + 1 -> 0 .. Len(v)] :
           /\ Frames(v, Append(s, p), to)
           /\ to[n + 1] = Len(v)
           /\ \A i \in 0 .. n : to[i] = at[i]
<1>0. PICK m \in Nat : m = Len(v)
  OBVIOUS
<1>1. PICK to \in [0 .. n + 1 -> 0 .. m] :
        to = [i \in 0 .. n + 1 |-> IF i <= n THEN at[i] ELSE m]
  <2>1. [i \in 0 .. n + 1 |-> IF i <= n THEN at[i] ELSE m] \in [0 .. n + 1 -> 0 .. m]
    BY <1>0
  <2> QED BY <2>1
<1>2. to[n + 1] = m /\ \A i \in 0 .. n : to[i] = at[i] /\ at[i] \in 0 .. m
  BY <1>0, <1>1
<1>3. PICK t : t = Append(s, p)
  OBVIOUS
<1>4. Len(t) = n + 1 /\ t[n + 1] = p /\ \A i \in 1 .. n : t[i] = s[i]
  BY <1>3, AppendProperties
<1>5. ASSUME NEW i \in 1 .. n + 1
      PROVE  to[i] = to[i - 1] + Size(t[i]) /\ Placed(v, to[i - 1], t[i])
  <2>1. CASE i \in 1 .. n
    <3>1. i - 1 \in 0 .. n /\ i \in 0 .. n
      BY <2>1
    <3>2. at[i] = at[i - 1] + Size(s[i]) /\ Placed(v, at[i - 1], s[i])
      BY <2>1 DEF Frames
    <3> QED BY <1>2, <1>4, <2>1, <3>1, <3>2
  <2>2. CASE i = n + 1
    <3>1. i - 1 = n /\ n \in 0 .. n
      BY <2>2
    <3> QED BY <1>0, <1>2, <1>4, <2>2, <3>1
  <2> QED BY <2>1, <2>2
<1>6. to[0] = 0
  BY <1>2 DEF Frames
<1>7. ASSUME NEW i \in 0 .. n + 1 PROVE to[i] <= to[n + 1]
  <2>1. to[i] \in 0 .. m
    BY <1>1
  <2> QED BY <1>2, <2>1
<1>8. Frames(v, t, to)
  BY <1>4, <1>5, <1>6, <1>7 DEF Frames
<1> QED BY <1>0, <1>2, <1>3, <1>8

-----------------------------------------------------------------------------
(* The writer *)

(* The packets that Next may return.                                         *)
Returned == [type : Markers \cup {"data"}, payload : Seq(Bytes), consumed : Nat]

(* The sorts of the variables that the proofs keep using.                    *)
LEMMA Sorts ==
  ASSUME Inv
  PROVE  /\ wire \in Seq(Bytes) /\ Len(wire) \in Nat /\ pos \in 0 .. Len(wire)
         /\ sent \in Seq(Packets) /\ Len(sent) \in Nat
         /\ received \in Seq(Returned) /\ Len(received) \in Nat
         /\ ~foreign => Len(received) <= Len(sent)
         /\ length \in 0 .. MaxPktLen
         /\ writing \in {<<>>} \cup {<<Payload(n)>> : n \in Lengths}
         /\ closed \in BOOLEAN /\ foreign \in BOOLEAN /\ torn \in BOOLEAN
<1>1. /\ wire \in Seq(Bytes) /\ pos \in 0 .. Len(wire) /\ length \in 0 .. MaxPktLen
      /\ received \in Seq(Returned) /\ sent \in Seq(Packets)
      /\ writing \in {<<>>} \cup {<<Payload(n)>> : n \in Lengths}
      /\ closed \in BOOLEAN /\ foreign \in BOOLEAN /\ torn \in BOOLEAN
  BY Zenon DEF Inv, TypeOK, Returned
<1>2. ~foreign => Len(received) <= Len(sent)
  BY Zenon DEF Inv, ReadsWhatWasSent
<1>3. Len(wire) \in Nat /\ Len(received) \in Nat /\ Len(sent) \in Nat
  BY <1>1, LenProperties
<1> QED BY <1>1, <1>2, <1>3

(* A packet more is sent: what was received is still the beginning of what   *)
(* was sent.                                                                 *)
LEMMA SentGrows ==
  ASSUME Inv, ~foreign, NEW p \in Packets, sent' = Append(sent, p),
         UNCHANGED <<foreign, received>>
  PROVE  /\ sent' \in Seq(Packets) /\ Len(sent') = Len(sent) + 1
         /\ sent'[Len(sent) + 1] = p /\ \A i \in 1 .. Len(sent) : sent'[i] = sent[i]
         /\ ReadsWhatWasSent'
<1>1. /\ sent \in Seq(Packets) /\ Len(sent) \in Nat /\ Len(received) \in 0 .. Len(sent)
  BY Sorts
<1>2. /\ sent' \in Seq(Packets) /\ Len(sent') = Len(sent) + 1
      /\ sent'[Len(sent) + 1] = p /\ \A i \in 1 .. Len(sent) : sent'[i] = sent[i]
  BY <1>1, AppendProperties
<1>3. \A i \in 1 .. Len(received) : Content(received[i]) = sent[i] /\ sent'[i] = sent[i]
  BY <1>1, <1>2 DEF Inv, ReadsWhatWasSent
<1> QED BY <1>1, <1>2, <1>3 DEF ReadsWhatWasSent

(* A Write that ends the frame of p keeps the invariant, whether it wrote    *)
(* the whole frame (WriteEncoded, EncodeFlush) or the payload behind the     *)
(* prefix of EncodeLine.  A reader that waits for this payload finds the     *)
(* length it expects.                                                        *)
LEMMA WriteDone ==
  ASSUME Inv, ~closed, ~foreign, NEW p \in Packets, Extends(wire', wire),
         sent' = Append(sent, p), writing' = <<>>,
         UNCHANGED <<closed, foreign, torn, reader>>,
         \/ /\ writing = <<>>
            /\ Len(wire') = Len(wire) + Size(p) /\ Placed(wire', Len(wire), p)
         \/ /\ writing = <<p.payload>> /\ p.type = "data"
            /\ Len(wire') = Len(wire) + Len(p.payload)
            /\ \A k \in 1 .. Len(p.payload) : wire'[Len(wire) + k] = p.payload[k]
  PROVE  Inv'
<1>0. PICK n \in Nat : n = Len(sent)
  BY Sorts
<1>1. PICK at \in [0 .. n -> 0 .. Len(wire)] :
        Frames(wire, sent, at) /\ Behind(at[n]) /\ Position(Len(received), at)
  BY <1>0 DEF Inv, Streamed
<1>2. /\ Len(p.payload) \in Nat
      /\ p.type = "data" => Field(p) = Size(p)
  BY PacketBytes
<1>3. /\ Len(wire) \in Nat /\ Len(received) \in 0 .. n /\ sent \in Seq(Packets)
      /\ wire' \in Seq(Bytes) /\ Len(wire') \in Nat
      /\ reading = "payload" => length > 4
  BY <1>0, Sorts DEF Extends, Inv
<1>4. ~torn /\ at[n] \in 0 .. Len(wire) /\ (Whole(at[n]) \/ Begun(at[n]))
  <2>1. at[n] \in 0 .. Len(wire)
    BY <1>1
  <2>2. Whole(at[n]) \/ Begun(at[n])
    BY <1>1 DEF Behind, Broken, Alien
  <2> QED BY <2>1, <2>2 DEF Whole, Begun
<1>6. Placed(wire', at[n], p) /\ Len(wire') = at[n] + Size(p)
  <2>1. CASE writing = <<>>
    BY <1>4, <2>1 DEF Whole, Begun
  <2>2. CASE writing # <<>>
    <3>1. /\ writing[1] = p.payload /\ p.type = "data"
          /\ Len(wire) = at[n] + 4 /\ Headed(wire, at[n], Field(p))
      BY <1>2, <1>4, <2>2 DEF Whole, Begun, Size
    <3>2. Headed(wire', at[n], Field(p))
      BY <1>3, <1>4, <3>1, HeadedStays
    <3>3. \A k \in 1 .. Len(p.payload) : wire'[at[n] + 4 + k] = p.payload[k]
      BY <2>2, <3>1
    <3>4. Len(wire') = at[n] + Size(p)
      BY <1>2, <1>4, <2>2, <3>1 DEF Size
    <3> QED BY <3>2, <3>3, <3>4 DEF Placed
  <2> QED BY <2>1, <2>2
<1>7. PICK to \in [0 .. n + 1 -> 0 .. Len(wire')] :
        /\ Frames(wire', sent', to) /\ to[n + 1] = Len(wire')
        /\ \A i \in 0 .. n : to[i] = at[i]
  <2>1. at \in [0 .. n -> 0 .. Len(wire')] /\ Frames(wire', sent, at)
    BY <1>0, <1>1, <1>3, FramesKept
  <2>2. \E to \in [0 .. n + 1 -> 0 .. Len(wire')] :
          /\ Frames(wire', Append(sent, p), to) /\ to[n + 1] = Len(wire')
          /\ \A i \in 0 .. n : to[i] = at[i]
    <3>1. PICK v \in Seq(Bytes), s \in Seq(Packets) : v = wire' /\ s = sent
      BY <1>3
    <3>2. /\ n = Len(s) /\ at \in [0 .. n -> 0 .. Len(v)] /\ Frames(v, s, at)
          /\ Placed(v, at[n], p) /\ Len(v) = at[n] + Size(p)
      BY <1>0, <1>6, <2>1, <3>1
    <3>3. \E to \in [0 .. n + 1 -> 0 .. Len(v)] :
            /\ Frames(v, Append(s, p), to) /\ to[n + 1] = Len(v)
            /\ \A i \in 0 .. n : to[i] = at[i]
      BY ONLY n \in Nat, p \in Packets, v \in Seq(Bytes), s \in Seq(Packets), <3>2,
              FrameAdded, ZenonT(30)
    <3> QED BY <3>1, <3>3
  <2> QED BY <2>2
<1>8. /\ sent' \in Seq(Packets) /\ Len(sent') = n + 1
      /\ sent'[n + 1] = p /\ \A i \in 1 .. n : sent'[i] = sent[i]
      /\ ReadsWhatWasSent'
  BY <1>0, SentGrows DEF reader
<1>9. Behind(to[n + 1])'
  BY <1>4, <1>7 DEF Behind, Whole
<1>10. Position(Len(received), to)'
  <2>1. CASE Len(received) = n
    BY <1>0, <1>1, <1>2, <1>3, <1>4, <1>7, <1>8, <2>1,
       SMTT(30)
    DEF Position, reader, Size
  <2>2. CASE Len(received) < n
    BY <1>0, <1>1, <1>3, <1>4, <1>7, <1>8, <2>2 DEF Position, reader
  <2> QED BY <1>3, <2>1, <2>2
<1>11. Streamed'
  BY <1>7, <1>8, <1>9, <1>10 DEF Streamed
<1>12. TypeOK'
  BY <1>3 DEF Inv, TypeOK, reader, Extends
<1>13. Ended' /\ CleanEnd'
  <2>1. result # "nil"
    BY DEF Inv, Ended
  <2>2. writing = << <<>> >> => sent'[n + 1] = Packet("data", <<>>)
    BY <1>8, PacketBytes DEF Packet
  <2>3. (\E i \in 1 .. Len(sent) : sent[i] = Packet("data", <<>>))
          => \E i \in 1 .. Len(sent') : sent'[i] = Packet("data", <<>>)
    BY <1>0, <1>8
  <2> QED BY <1>0, <1>4, <1>8, <2>1, <2>2, <2>3 DEF Inv, Ended, CleanEnd, reader
<1> QED BY <1>3, <1>8, <1>11, <1>12, <1>13 DEF Inv, reader

(* A step of the writer that ends no frame keeps the invariant if what       *)
(* lies behind the frames stays one of the four, and if a payload that is    *)
(* given up is not complete.                                                 *)
LEMMA WriterKeeps ==
  ASSUME Inv, ~closed, Extends(wire', wire), UNCHANGED <<sent, reader>>,
         writing' \in {<<>>} \cup {<<Payload(n)>> : n \in Lengths},
         closed' \in BOOLEAN, torn' \in BOOLEAN, foreign' \in BOOLEAN, foreign => foreign',
         \A a \in Nat : Behind(a) => Behind(a)',
         \/ writing = <<>>
         \/ /\ torn'
            /\ Len(writing[1]) = 0 \/ Len(wire') < Len(wire) + Len(writing[1])
  PROVE  Inv'
<1>0. PICK n \in Nat : n = Len(sent)
  BY Sorts
<1>1. PICK at \in [0 .. n -> 0 .. Len(wire)] :
        Frames(wire, sent, at) /\ Behind(at[n]) /\ Position(Len(received), at)
  BY <1>0 DEF Inv, Streamed
<1>2. /\ Len(wire) \in Nat /\ Len(received) \in Nat /\ sent \in Seq(Packets)
      /\ Len(wire') \in Nat /\ Len(wire) <= Len(wire') /\ at[n] \in Nat
      /\ n \in 0 .. n
  <2>1. Len(wire) \in Nat /\ Len(received) \in Nat /\ sent \in Seq(Packets)
    BY Sorts
  <2>2. wire' \in Seq(Bytes) /\ Len(wire') \in Nat /\ Len(wire) <= Len(wire')
    BY DEF Extends
  <2>3. n \in 0 .. n
    OBVIOUS
  <2> QED BY <1>1, <2>1, <2>2, <2>3
<1>3. ~torn /\ (Whole(at[n]) \/ Begun(at[n]) \/ Alien(at[n]))
  BY <1>1 DEF Behind, Broken, Whole, Begun, Alien
<1>4. at \in [0 .. n -> 0 .. Len(wire')] /\ Frames(wire', sent, at)
  BY <1>0, <1>1, <1>2, FramesKept
<1>5. Behind(at[n])'
  BY <1>1, <1>2
<1>6. Position(Len(received), at)'
  <2>1. ASSUME reading = "payload", Len(received) = n, ~foreign
        PROVE  torn' /\ Len(wire') < at[n] + length
    <3>1. writing # <<>> /\ length = Len(writing[1]) + 4 /\ length > 4
      BY <1>0, <1>1, <1>3, <2>1 DEF Position, Inv
    <3>2. Len(wire) = at[n] + 4
      BY <1>3, <3>1 DEF Whole, Begun, Alien
    <3>3. PICK l \in Nat, k \in Nat : l = Len(writing[1]) /\ k = Len(wire')
      <4>1. length \in Nat
        BY Sorts
      <4>2. \E i \in Lengths : writing = <<Payload(i)>>
        BY <3>1 DEF Inv, TypeOK
      <4> QED BY <1>2, <4>2, PayloadBytes, PktlineAssumption
    <3>4. l # 0 /\ torn'
      BY <3>1, <3>3
    <3> QED BY <1>2, <3>1, <3>2, <3>3, <3>4, SMTT(30)
  <2> QED BY <1>0, <1>1, <1>2, <2>1 DEF Position, reader
<1>7. Streamed'
  BY <1>0, <1>4, <1>5, <1>6 DEF Streamed
<1>8. TypeOK'
  BY <1>2 DEF Inv, TypeOK, reader, Extends
<1>9. Ended' /\ CleanEnd'
  BY <1>3 DEF Inv, Ended, CleanEnd, reader
<1> QED BY <1>0, <1>2, <1>7, <1>8, <1>9 DEF Inv, ReadsWhatWasSent, reader

(* A Write of f that breaks off after k bytes.                               *)
BrokenOff(f, k) ==
  /\ k < Len(f) \/ (k = 0 /\ Len(f) = 0)
  /\ Grown(wire', wire, f, k)
  /\ k > 0 \/ writing # <<>> => torn' = TRUE
  /\ k = 0 /\ writing = <<>> => torn' = FALSE
  /\ closed' = TRUE /\ UNCHANGED sent

(* The two outcomes of Write.                                                *)
LEMMA WriteGrows ==
  ASSUME wire \in Seq(Bytes), NEW f \in Seq(Bytes), NEW p, Write(f, p)
  PROVE  \/ /\ Grown(wire', wire, f, Len(f)) /\ sent' = Append(sent, p)
            /\ UNCHANGED <<closed, torn>>
         \/ \E k \in Nat : BrokenOff(f, k)
<1>1. Len(f) \in Nat
  OBVIOUS
<1>2. CASE wire' = wire \o f /\ sent' = Append(sent, p) /\ UNCHANGED <<closed, torn>>
  <2>1. Grown(wire \o f, wire, f, Len(f))
    BY Joined DEF Grown
  <2> QED BY <1>2, <2>1
<1>3. ASSUME NEW k \in {0} \cup 1 .. Len(f) - 1, wire' = wire \o SubSeq(f, 1, k),
             torn' = (k > 0 \/ writing # <<>>), closed' = TRUE, UNCHANGED sent
      PROVE  k \in Nat /\ BrokenOff(f, k)
  <2>1. k \in 0 .. Len(f) /\ (k < Len(f) \/ Len(f) = 0)
    BY ONLY <1>1, k \in {0} \cup 1 .. Len(f) - 1
  <2>2. Grown(wire', wire, f, k)
    <3>1. Grown(wire \o SubSeq(f, 1, k), wire, f, k)
      BY <2>1, PartWritten
    <3> QED BY <1>3, <3>1
  <2>3. k > 0 \/ writing # <<>> => torn' = TRUE
    BY <1>3, Zenon
  <2>4. k = 0 /\ writing = <<>> => torn' = FALSE
    <3>1. k = 0 => ~(k > 0)
      OBVIOUS
    <3> QED BY <1>3, <3>1, Zenon
  <2>5. k \in Nat /\ (k < Len(f) \/ (k = 0 /\ Len(f) = 0))
    <3>1. PICK l \in Nat : l = Len(f)
      BY <1>1
    <3>2. k \in Nat /\ (k < l \/ (k = 0 /\ l = 0))
      BY ONLY l \in Nat, k \in {0} \cup 1 .. Len(f) - 1, <3>1
    <3> QED BY <3>1, <3>2
  <2> QED BY <1>3, <2>2, <2>3, <2>4, <2>5, Zenon DEF BrokenOff
<1> QED BY <1>2, <1>3 DEF Write

(* A frame that breaks off in its first Write: inside the prefix, or         *)
(* behind a prefix that promises more bytes than there are.                  *)
LEMMA FrameBroken ==
  ASSUME Inv, ~closed, ~foreign, writing = <<>>, UNCHANGED <<writing, foreign, reader>>,
         NEW m \in Nat, NEW f \in Seq(Bytes), NEW k \in Nat, BrokenOff(f, k),
         Len(f) >= 4, \A i \in 1 .. 4 : f[i] = Prefix(m)[i],
         \/ Len(f) <= 4
         \/ \E n \in Lengths : m = n + 4 /\ n + 4 <= MaxPktLen /\ Len(f) = 4 + n
  PROVE  Inv'
<1>0. wire \in Seq(Bytes) /\ Len(wire) \in Nat /\ Len(f) \in Nat
  BY Sorts
<1>1. /\ Extends(wire', wire) /\ Len(wire') = Len(wire) + k
      /\ \A i \in 1 .. k : wire'[Len(wire) + i] = f[i]
  BY DEF BrokenOff, Grown
<1>2. /\ k < Len(f) /\ closed' = TRUE /\ UNCHANGED sent
      /\ k = 0 => torn' = FALSE
      /\ k > 0 => torn' = TRUE
  BY DEF BrokenOff
<1>3. ASSUME NEW a \in Nat, Behind(a) PROVE Behind(a)'
  <2>1. Len(wire) = a /\ ~torn
    BY <1>3 DEF Behind, Whole, Begun, Broken, Alien
  <2>2. CASE k = 0
    BY <1>0, <1>1, <1>2, <2>1, <2>2 DEF Behind, Whole
  <2>3. CASE k > 0 /\ k < 4
    BY <1>0, <1>1, <1>2, <2>1, <2>3 DEF Behind, Broken
  <2>4. CASE k >= 4
    <3>0. ~(Len(f) <= 4)
      BY <1>0, <1>2, <2>4
    <3>1. PICK n \in Lengths : m = n + 4 /\ n + 4 <= MaxPktLen /\ Len(f) = 4 + n
      BY <3>0, Zenon
    <3>2. Headed(wire', a, n + 4)
      BY <1>1, <2>1, <2>4, <3>1 DEF Headed
    <3>3. Len(wire') > a /\ Len(wire') < a + 4 + n /\ n \in Nat
      BY <1>0, <1>1, <1>2, <2>1, <2>4, <3>1, PktlineAssumption
    <3> QED BY <1>2, <2>4, <3>1, <3>2, <3>3 DEF Behind, Broken
  <2> QED BY <2>2, <2>3, <2>4
<1>4. closed' \in BOOLEAN /\ torn' \in BOOLEAN /\ foreign' \in BOOLEAN
  <2>1. k = 0 \/ k > 0
    OBVIOUS
  <2> QED BY <1>2, <2>1 DEF Inv, TypeOK
<1> QED BY <1>1, <1>3, <1>4, <1>2, WriterKeeps

(* The actions of the writer: Encode and a Write of its result, ...          *)
LEMMA WriteEncodedKeeps ==
  ASSUME Inv, NEW n \in Lengths, WriteEncoded(n)
  PROVE  Inv'
<1>1. n \in Nat /\ n + 4 <= MaxPktLen
  BY PktlineAssumption DEF WriteEncoded, EncodeError
<1>2. PICK p \in Packets : p = Packet("data", Payload(n))
  BY <1>1 DEF Packets
<1>3. /\ p.payload = Payload(n) /\ Payload(n) \in Seq(Bytes) /\ Len(Payload(n)) = n
      /\ Field(p) = n + 4 /\ Size(p) = n + 4
  BY <1>1, <1>2, PayloadBytes DEF Packet, Field, Size
<1>4. PICK f \in Seq(Bytes) :
        /\ f = Prefix(n + 4) \o Payload(n) /\ Len(f) = 4 + n
        /\ \A i \in 1 .. 4 : f[i] = Prefix(n + 4)[i]
  <2>1. PICK h \in Seq(Bytes) : h = Prefix(n + 4) /\ Len(h) = 4
    BY <1>1, PrefixDigits
  <2>2. PICK d \in Seq(Bytes) : d = Payload(n) /\ Len(d) = n
    BY <1>3
  <2>3. /\ h \o d \in Seq(Bytes) /\ Len(h \o d) = Len(h) + Len(d)
        /\ \A i \in 1 .. Len(h) : (h \o d)[i] = h[i]
    BY Joined DEF Extends
  <2> QED BY <2>1, <2>2, <2>3
<1>5. /\ ~closed /\ ~foreign /\ writing = <<>> /\ writing' = writing
      /\ UNCHANGED <<foreign, reader>> /\ Write(f, p)
  BY <1>2, <1>4 DEF WriteEncoded, Writable
<1>6. wire \in Seq(Bytes)
  BY Sorts
<1>7. CASE /\ Grown(wire', wire, f, Len(f)) /\ sent' = Append(sent, p)
           /\ UNCHANGED <<closed, torn>>
  <2>1. Len(wire') = Len(wire) + Size(p) /\ Placed(wire', Len(wire), p)
    BY <1>3, <1>4, <1>6, <1>7, FrameWritten
  <2>2. Extends(wire', wire)
    BY <1>7 DEF Grown
  <2> QED BY <1>5, <1>7, <2>1, <2>2, WriteDone
<1>8. CASE \E k \in Nat : BrokenOff(f, k)
  <2>1. n + 4 \in Nat /\ Len(f) >= 4
    BY <1>1, <1>4
  <2> QED BY <1>1, <1>4, <1>5, <1>8, <2>1, FrameBroken
<1> QED BY <1>5, <1>6, <1>7, <1>8, WriteGrows

(* ... EncodeFlush, ...                                                      *)
LEMMA EncodeFlushKeeps ==
  ASSUME Inv, NEW m \in Markers, EncodeFlush(m)
  PROVE  Inv'
<1>1. PICK p \in Packets : p = Packet(m, <<>>) /\ Marker(m) = Prefix(Field(p))
  BY MarkerPrefix
<1>2. p.payload = <<>> /\ Size(p) = 4 /\ Field(p) \in Nat
  BY <1>1, PacketBytes DEF Packet, Size
<1>3. PICK f \in Seq(Bytes) :
        f = Marker(m) /\ Len(f) = 4 /\ \A i \in 1 .. 4 : f[i] = Prefix(Field(p))[i]
  BY <1>1, <1>2, PrefixDigits
<1>4. /\ ~closed /\ ~foreign /\ writing = <<>> /\ writing' = writing
      /\ UNCHANGED <<foreign, reader>> /\ Write(f, p)
  BY <1>1, <1>3 DEF EncodeFlush, Writable
<1>5. wire \in Seq(Bytes)
  BY Sorts
<1>6. CASE /\ Grown(wire', wire, f, Len(f)) /\ sent' = Append(sent, p)
           /\ UNCHANGED <<closed, torn>>
  <2>1. f = Prefix(Field(p)) \o p.payload
    BY <1>1, <1>2, <1>3
  <2>2. Len(wire') = Len(wire) + Size(p) /\ Placed(wire', Len(wire), p)
    BY <1>5, <1>6, <2>1, FrameWritten
  <2>3. Extends(wire', wire)
    BY <1>6 DEF Grown
  <2> QED BY <1>4, <1>6, <2>2, <2>3, WriteDone
<1>7. CASE \E k \in Nat : BrokenOff(f, k)
  <2>1. Len(f) >= 4
    BY <1>3
  <2> QED BY <1>2, <1>3, <1>4, <1>7, <2>1, FrameBroken
<1> QED BY <1>4, <1>5, <1>6, <1>7, WriteGrows

(* ... the first Write of EncodeLine, ...                                    *)
LEMMA EncodeLineKeeps ==
  ASSUME Inv, NEW n \in Lengths, EncodeLine(n)
  PROVE  Inv'
<1>1. n \in Nat /\ n + 4 <= MaxPktLen
  BY PktlineAssumption DEF EncodeLine, EncodeLineError
<1>2. PICK f \in Seq(Bytes) :
        f = Prefix(n + 4) /\ Len(f) = 4 /\ Len(f) >= 4 /\ Len(f) <= 4 /\ n + 4 \in Nat
  <2>1. n + 4 \in Nat /\ 4 >= 4 /\ 4 <= 4
    BY <1>1
  <2> QED BY <2>1, PrefixDigits, Zenon
<1>3. ~closed /\ ~foreign /\ writing = <<>> /\ UNCHANGED <<foreign, sent, reader>>
  BY DEF EncodeLine, Writable
<1>4. wire \in Seq(Bytes) /\ Len(wire) \in Nat
  BY Sorts
<1>5. \/ /\ Grown(wire', wire, f, 4) /\ writing' = <<Payload(n)>>
         /\ UNCHANGED <<closed, torn>>
      \/ UNCHANGED writing /\ \E k \in Nat : BrokenOff(f, k)
  <2>1. Grown(wire \o f, wire, f, 4)
    <3>1. Grown(wire \o f, wire, f, Len(f))
      BY <1>4, Joined DEF Grown
    <3> QED BY <1>2, <3>1
  <2>2. ASSUME NEW k \in 0 .. 3, wire' = wire \o SubSeq(f, 1, k), torn' = (k > 0),
               closed' = TRUE
        PROVE  k \in Nat /\ BrokenOff(f, k)
    <3>0. k \in Nat /\ k \in 0 .. 4 /\ k < 4
      OBVIOUS
    <3>1. k \in 0 .. Len(f) /\ k < Len(f)
      BY <1>2, <3>0, Zenon
    <3>2. Grown(wire', wire, f, k)
      <4>1. Grown(wire \o SubSeq(f, 1, k), wire, f, k)
        BY <1>4, <3>1, PartWritten
      <4> QED BY <2>2, <4>1
    <3>3. k > 0 => torn' = TRUE
      BY <2>2, Zenon
    <3>4. ASSUME k = 0 PROVE torn' = FALSE
      <4>1. (k > 0) = FALSE
        BY <3>0, <3>4
      <4> QED BY <2>2, <4>1, Zenon
    <3>5. sent' = sent /\ ~(writing # <<>>)
      BY <1>3
    <3> QED BY <1>3, <2>2, <3>0, <3>1, <3>2, <3>3, <3>4, <3>5, Zenon DEF BrokenOff
  <2> QED BY <1>2, <2>1, <2>2 DEF EncodeLine
<1>6. CASE /\ Grown(wire', wire, f, 4) /\ writing' = <<Payload(n)>>
           /\ UNCHANGED <<closed, torn>>
  <2>1. /\ Extends(wire', wire) /\ Len(wire') = Len(wire) + 4
        /\ \A i \in 1 .. 4 : wire'[Len(wire) + i] = f[i]
    BY <1>6 DEF Grown
  <2>2. writing'[1] = Payload(n) /\ Len(Payload(n)) = n /\ writing' # <<>>
    BY <1>1, <1>6, PayloadBytes
  <2>3. ASSUME NEW a \in Nat, Behind(a) PROVE Behind(a)'
    <3>1. Len(wire) = a /\ ~torn
      BY <1>3, <2>3 DEF Behind, Whole, Begun, Broken, Alien
    <3>2. Headed(wire', a, n + 4)
      BY <1>2, <2>1, <3>1 DEF Headed
    <3> QED BY <1>1, <1>3, <1>6, <2>1, <2>2, <3>1, <3>2 DEF Behind, Begun
  <2>4. closed' \in BOOLEAN /\ torn' \in BOOLEAN /\ foreign' \in BOOLEAN
    BY <1>3, <1>6 DEF Inv, TypeOK
  <2> QED BY <1>3, <1>6, <2>1, <2>3, <2>4, WriterKeeps
<1>7. CASE UNCHANGED writing /\ \E k \in Nat : BrokenOff(f, k)
  BY <1>2, <1>3, <1>7, FrameBroken
<1> QED BY <1>5, <1>6, <1>7

(* ... the second, which may also break off before any byte of the           *)
(* payload, ...                                                              *)
LEMMA EncodeLineDataKeeps ==
  ASSUME Inv, EncodeLineData
  PROVE  Inv'
<1>1. PICK n \in Lengths : writing = <<Payload(n)>>
  BY DEF Inv, TypeOK, EncodeLineData
<1>2. n \in Nat /\ Payload(n) \in Seq(Bytes) /\ Len(Payload(n)) = n
  BY PktlineAssumption, PayloadBytes
<1>3. PICK d \in Seq(Bytes) : d = Payload(n) /\ Len(d) = n /\ writing = <<d>>
  BY <1>1, <1>2
<1>4. wire \in Seq(Bytes) /\ Len(wire) \in Nat
  BY Sorts
<1>5. /\ ~closed /\ writing' = <<>> /\ writing # <<>> /\ writing[1] = d
      /\ UNCHANGED <<foreign, reader>>
  BY <1>3 DEF EncodeLineData
<1>6. n + 4 <= MaxPktLen /\ ~foreign
  <2>1. PICK at \in [0 .. Len(sent) -> 0 .. Len(wire)] : Behind(at[Len(sent)])
    BY DEF Inv, Streamed
  <2> QED BY <1>3, <1>5, <2>1 DEF Behind, Whole, Begun, Broken, Alien
<1>7. PICK p \in Packets : p = Packet("data", d) /\ p.type = "data" /\ p.payload = d
  <2>1. Packet("data", d) \in Packets
    BY <1>3, <1>6 DEF Packets
  <2> QED BY <2>1 DEF Packet
<1>8. Write(d, p)
  BY <1>5, <1>7 DEF EncodeLineData
<1>9. CASE /\ Grown(wire', wire, d, Len(d)) /\ sent' = Append(sent, p)
           /\ UNCHANGED <<closed, torn>>
  <2>1. /\ Extends(wire', wire) /\ Len(wire') = Len(wire) + Len(d)
        /\ \A i \in 1 .. Len(d) : wire'[Len(wire) + i] = d[i]
    BY <1>9 DEF Grown
  <2> QED BY <1>3, <1>5, <1>6, <1>7, <1>9, <2>1, WriteDone
<1>10. CASE \E k \in Nat : BrokenOff(d, k)
  <2>1. PICK k \in Nat : BrokenOff(d, k)
    BY <1>10
  <2>2. /\ torn' = TRUE /\ closed' = TRUE /\ UNCHANGED sent
        /\ k < n \/ (n = 0 /\ k = 0)
    BY <1>3, <1>5, <2>1 DEF BrokenOff
  <2>3. Extends(wire', wire) /\ Len(wire') = Len(wire) + k
    BY <2>1 DEF BrokenOff, Grown
  <2>4. ASSUME NEW b \in Nat, Behind(b) PROVE Behind(b)'
    <3>1. Len(wire) = b + 4 /\ Headed(wire, b, n + 4)
      BY <1>3, <1>5, <2>4 DEF Behind, Whole, Begun, Broken, Alien
    <3>2. Headed(wire', b, n + 4)
      BY <1>4, <2>3, <3>1, HeadedStays
    <3>3. Len(wire') > b /\ (n = 0 \/ Len(wire') < b + 4 + n)
      BY <1>2, <1>4, <2>2, <2>3, <3>1
    <3> QED BY <1>5, <1>6, <2>2, <3>2, <3>3 DEF Behind, Broken
  <2>5. Len(writing[1]) = 0 \/ Len(wire') < Len(wire) + Len(writing[1])
    BY <1>2, <1>3, <1>4, <1>5, <2>2, <2>3
  <2>6. foreign' \in BOOLEAN
    BY <1>5 DEF Inv, TypeOK
  <2> QED BY <1>5, <2>2, <2>3, <2>4, <2>5, <2>6, WriterKeeps
<1> QED BY <1>4, <1>8, <1>9, <1>10, WriteGrows

(* ... what somebody else writes, ...                                        *)
LEMMA WriteForeignKeeps ==
  ASSUME Inv, NEW bytes \in Foreign, WriteForeign(bytes)
  PROVE  Inv'
<1>1. wire \in Seq(Bytes) /\ Len(wire) \in Nat /\ bytes \in Seq(Bytes)
  BY Sorts, PktlineAssumption DEF Bytes
<1>2. /\ ~closed /\ ~foreign /\ writing = <<>> /\ foreign' = TRUE /\ wire' = wire \o bytes
      /\ UNCHANGED <<writing, closed, sent, torn, reader>>
  BY DEF WriteForeign
<1>3. Extends(wire', wire)
  BY <1>1, <1>2, Joined
<1>4. ASSUME NEW a \in Nat, Behind(a) PROVE Behind(a)'
  <2>1. Whole(a)
    BY <1>2, <1>4 DEF Behind, Begun, Broken, Alien
  <2>2. Len(wire') >= a
    BY <1>1, <1>3, <2>1 DEF Whole, Extends
  <2> QED BY <1>2, <2>1, <2>2 DEF Behind, Whole, Alien
<1>5. closed' \in BOOLEAN /\ torn' \in BOOLEAN /\ foreign' \in BOOLEAN
  BY <1>2 DEF Inv, TypeOK
<1> QED BY <1>2, <1>3, <1>4, <1>5, WriterKeeps

(* ... and the end of the stream.                                            *)
LEMMA CloseKeeps ==
  ASSUME Inv, Close
  PROVE  Inv'
<1>1. wire \in Seq(Bytes) /\ Len(wire) \in Nat
  BY Sorts
<1>2. ~closed /\ writing = <<>> /\ closed' = TRUE
      /\ wire' = wire /\ UNCHANGED <<writing, foreign, sent, torn, reader>>
  BY DEF Close
<1>3. Extends(wire', wire)
  BY <1>1, <1>2 DEF Extends
<1>4. \A a \in Nat : Behind(a) => Behind(a)'
  BY <1>2 DEF Behind, Whole, Begun, Broken, Alien
<1>5. closed' \in BOOLEAN /\ torn' \in BOOLEAN /\ foreign' \in BOOLEAN
  BY <1>2 DEF Inv, TypeOK
<1> QED BY <1>2, <1>3, <1>4, <1>5, WriterKeeps

-----------------------------------------------------------------------------
(* The reader *)

(* Next returns nil or an error, or panics: the end is one that CleanEnd     *)
(* allows.                                                                   *)
LEMMA Failed ==
  ASSUME Inv, UNCHANGED writer, pos' \in 0 .. Len(wire),
         NEW e \in {"nil", "panic"} \cup Errors, Fail(e),
         e = "nil" => closed /\ Len(sent) <= Len(received) /\ ~torn,
         e # "nil" => \/ torn \/ foreign \/ writing = << <<>> >>
                      \/ \E i \in 1 .. Len(sent) : sent[i] = Packet("data", <<>>)
  PROVE  Inv'
<1>1. /\ reading' = "done" /\ result' = e /\ UNCHANGED <<length, received>>
      /\ UNCHANGED <<wire, writing, closed, foreign, sent, torn>>
  BY DEF Fail, writer
<1>2. PICK at \in [0 .. Len(sent) -> 0 .. Len(wire)] :
        Frames(wire, sent, at) /\ Behind(at[Len(sent)])
  BY DEF Inv, Streamed
<1>3. Behind(at[Len(sent)])'
  BY <1>1, <1>2 DEF Behind, Whole, Begun, Broken, Alien
<1>4. Position(Len(received), at)'
  BY <1>1 DEF Position
<1>5. Streamed'
  BY <1>1, <1>2, <1>3, <1>4 DEF Streamed
<1>6. TypeOK'
  BY <1>1 DEF Inv, TypeOK
<1>7. Ended' /\ CleanEnd'
  BY <1>1 DEF Ended, CleanEnd, Errors
<1> QED BY <1>1, <1>5, <1>6, <1>7 DEF Inv, ReadsWhatWasSent

(* Next returns a packet: the one that follows those received, or, behind    *)
(* all that was sent, any that it finds in foreign bytes.                    *)
LEMMA Yielded ==
  ASSUME Inv, UNCHANGED writer, NEW r \in Nat, r = Len(received),
         NEW at \in [0 .. Len(sent) -> 0 .. Len(wire)],
         Frames(wire, sent, at), Behind(at[Len(sent)]), pos' \in 0 .. Len(wire),
         NEW t \in Markers \cup {"data"}, NEW b \in Seq(Bytes), Yield(t, b),
         \/ r < Len(sent) /\ pos' = at[r + 1] /\ Packet(t, b) = sent[r + 1]
         \/ Len(sent) <= r /\ foreign
  PROVE  Inv'
<1>1. /\ reading' = "prefix" /\ result' = "packet" /\ length' = 0
      /\ received' = Append(received, Decoded(t, b, 4))
      /\ UNCHANGED <<wire, writing, closed, foreign, sent, torn>>
  BY DEF Yield, writer
<1>2. /\ received \in Seq(Returned) /\ sent \in Seq(Packets) /\ Len(sent) \in Nat
      /\ \A i \in 1 .. r : i <= Len(sent) => Content(received[i]) = sent[i]
  BY Sorts DEF Inv, ReadsWhatWasSent
<1>3. PICK p \in Returned : p = Decoded(t, b, 4) /\ Content(p) = Packet(t, b)
  <2>1. Decoded(t, b, 4) \in Returned
    BY DEF Decoded, Returned
  <2>2. Content(Decoded(t, b, 4)) = Packet(t, b)
    BY DEF Content, Decoded, Packet
  <2> QED BY <2>1, <2>2
<1>4. /\ received' \in Seq(Returned) /\ Len(received') = r + 1
      /\ received'[r + 1] = p /\ \A i \in 1 .. r : received'[i] = received[i]
  BY <1>1, <1>2, <1>3, AppendProperties
<1>5. Behind(at[Len(sent)])'
  BY <1>1 DEF Behind, Whole, Begun, Broken, Alien
<1>6. Position(Len(received), at)'
  BY <1>1, <1>2, <1>4 DEF Position
<1>7. Streamed'
  BY <1>1, <1>5, <1>6 DEF Streamed
<1>8. TypeOK'
  <2>1. length' \in 0 .. MaxPktLen
    BY <1>1, PktlineAssumption
  <2>2. /\ result' \in {"none", "packet", "nil", "panic"} \cup Errors
        /\ result' \notin {"nil", "panic"} \cup Errors
    BY <1>1 DEF Errors
  <2>3. TypeOK
    BY DEF Inv
  <2> QED BY <1>1, <1>4, <2>1, <2>2, <2>3 DEF TypeOK, Returned
<1>9. Ended' /\ CleanEnd'
  BY <1>1 DEF Ended, CleanEnd, Errors
<1>10. ReadsWhatWasSent'
  <2>1. ASSUME NEW i \in 1 .. r + 1, i <= Len(sent)
        PROVE  Content(received'[i]) = sent[i]
    <3>1. CASE i \in 1 .. r
      BY <1>2, <1>4, <2>1, <3>1
    <3>2. CASE i = r + 1
      BY <1>2, <1>3, <1>4, <2>1, <3>2
    <3> QED BY <3>1, <3>2
  <2> QED BY <1>1, <1>2, <1>4, <2>1 DEF ReadsWhatWasSent
<1> QED BY <1>1, <1>2, <1>7, <1>8, <1>9, <1>10 DEF Inv

(* The number read behind a bytes is the one whose prefix lies there.        *)
LEMMA PrefixParsed ==
  ASSUME NEW w \in Seq(Bytes), NEW a \in Nat, a + 4 <= Len(w),
         NEW m \in 0 .. MaxPktLen, Headed(w, a, m)
  PROVE  ParseUint(SubSeq(w, a + 1, a + 4)) = m /\ ~Invalid(m)
<1>1. PICK q : q = SubSeq(w, a + 1, a + 4)
  OBVIOUS
<1>2. \A k \in 1 .. 4 : q[k] = w[a + k]
  BY <1>1
<1>3. \A k \in 1 .. 4 : q[k] = Prefix(m)[k]
  BY <1>2 DEF Headed
<1> QED BY <1>1, <1>3, NumbersFit, ParsePrefix

(* What the switch on the length finds.                                      *)
LEMMA SpecialValues ==
  ASSUME NEW m \in (0 .. 2) \cup (4 .. MaxPktLen)
  PROVE  /\ m <= 2 => Special(m) \in Markers
         /\ m = 4 => Special(m) = "empty packet"
         /\ m > 4 => Special(m) = "none"
<1>1. Special(0) = "flush" /\ Special(1) = "delimiter" /\ Special(2) = "response-end"
  BY DEF Special
<1>2. Special(4) = "empty packet"
  <2>1. 4 # 0 /\ 4 # 1 /\ 4 # 2 /\ 4 # 3
    OBVIOUS
  <2> QED BY <2>1, Zenon DEF Special
<1>3. ASSUME m # 0, m # 1, m # 2, m # 3, m # 4 PROVE Special(m) = "none"
  BY <1>3, Zenon DEF Special
<1>4. m <= 2 => m = 0 \/ m = 1 \/ m = 2
  BY PktlineAssumption
<1>5. m <= 2 => Special(m) \in Markers
  BY <1>1, <1>4 DEF Markers
<1>6. m > 4 => m # 0 /\ m # 1 /\ m # 2 /\ m # 3 /\ m # 4
  BY PktlineAssumption
<1> QED BY <1>2, <1>3, <1>5, <1>6

(* The outcomes of the first ReadFull of Next.                               *)
LEMMA NextPrefixReads ==
  ASSUME NextPrefix
  PROVE  /\ reading = "prefix" /\ Ready(4) /\ UNCHANGED writer
         /\ pos' = IF Available >= 4 THEN pos + 4 ELSE Len(wire)
         /\ ReadError(4) = "EOF" => Fail("nil")
         /\ ReadError(4) = "unexpected EOF" => Fail("unexpected EOF")
<1>1. /\ reading = "prefix" /\ Ready(4) /\ UNCHANGED writer
      /\ pos' = IF Available >= 4 THEN pos + 4 ELSE Len(wire)
  BY Zenon DEF NextPrefix
<1>2. ReadError(4) = "EOF" => Fail("nil")
  BY Zenon DEF NextPrefix
<1>3. ReadError(4) = "unexpected EOF" => Fail("unexpected EOF")
  BY Zenon DEF NextPrefix
<1> QED BY <1>1, <1>2, <1>3

(* The outcomes of the switch.                                               *)
LEMMA NextPrefixChooses ==
  ASSUME NextPrefix, NEW m, ReadError(4) = "none", ParseUint(Read(4)) = m, ~Invalid(m)
  PROVE  /\ Special(m) \in Markers => Yield(Special(m), <<>>)
         /\ Special(m) \in Errors => Fail(Special(m))
         /\ Special(m) = "none" /\ Overlong(m) => Fail("panic")
         /\ Special(m) = "none" /\ ~Overlong(m) =>
              reading' = "payload" /\ length' = m /\ UNCHANGED <<result, received>>
<1>1. /\ CASE Invalid(m) -> Fail("invalid length")
           [] Special(m) \in Markers -> Yield(Special(m), <<>>)
           [] Special(m) \in Errors -> Fail(Special(m))
           [] Overlong(m) -> Fail("panic")
           [] OTHER -> /\ reading' = "payload" /\ length' = m
                       /\ UNCHANGED <<result, received>>
  BY Zenon DEF NextPrefix
<1>2. PICK x : x = Special(m)
  OBVIOUS
<1>3. Markers \cap Errors = {} /\ "none" \notin Errors /\ "none" \notin Markers
  BY DEF Errors, Markers
<1>4. x # "none" => ~Overlong(m)
  <2>1. x # "none" => m = 0 \/ m = 1 \/ m = 2 \/ m = 3 \/ m = 4
    BY <1>2, Zenon DEF Special
  <2> QED BY <2>1, PktlineAssumption DEF Overlong
<1>5. /\ x \in Markers => x \notin Errors /\ x # "none"
      /\ x \in Errors => x \notin Markers /\ x # "none"
      /\ x = "none" => x \notin Markers /\ x \notin Errors
  BY <1>3
<1>6. ASSUME x \in Markers PROVE Yield(x, <<>>)
  BY <1>1, <1>2, <1>4, <1>5, <1>6, Zenon
<1>7. ASSUME x \in Errors PROVE Fail(x)
  BY <1>1, <1>2, <1>4, <1>5, <1>7, Zenon
<1>8. ASSUME x = "none", Overlong(m) PROVE Fail("panic")
  BY <1>1, <1>2, <1>5, <1>8, Zenon
<1>9. ASSUME x = "none", ~Overlong(m)
      PROVE  reading' = "payload" /\ length' = m /\ UNCHANGED <<result, received>>
  BY <1>1, <1>2, <1>5, <1>9, Zenon
<1> QED BY <1>2, <1>6, <1>7, <1>8, <1>9, Zenon

(* The number read is a number.                                              *)
LEMMA SaidIs ==
  ASSUME NEW w \in Seq(Bytes), NEW a \in Nat, a + 4 <= Len(w)
  PROVE  Said(w, a) \in Nat
<1>1. PICK q : q = SubSeq(w, a + 1, a + 4)
  OBVIOUS
<1>2. q[1] \in Nat /\ q[2] \in Nat /\ q[3] \in Nat /\ q[4] \in Nat /\ Base \in Nat
  <2>1. q[1] = w[a + 1] /\ q[2] = w[a + 2] /\ q[3] = w[a + 3] /\ q[4] = w[a + 4]
    BY <1>1
  <2>2. w[a + 1] \in Bytes /\ w[a + 2] \in Bytes /\ w[a + 3] \in Bytes /\ w[a + 4] \in Bytes
    <3>1. /\ a + 1 \in 1 .. Len(w) /\ a + 2 \in 1 .. Len(w)
          /\ a + 3 \in 1 .. Len(w) /\ a + 4 \in 1 .. Len(w)
      OBVIOUS
    <3> QED BY <3>1, ElementOfSeq
  <2>3. Bytes \subseteq Nat /\ Base \in Nat
    BY PktlineAssumption DEF Bytes
  <2> QED BY <2>1, <2>2, <2>3
<1>3. \A x, y \in Nat : x * Base + y \in Nat
  BY <1>2
<1>4. Base * Base * Base * Base \in Nat
  BY <1>2
<1>5. ((q[1] * Base + q[2]) * Base + q[3]) * Base + q[4] \in Nat
  BY <1>2, <1>3
<1> QED BY <1>1, <1>4, <1>5 DEF Said, ParseUint

(* What the switch makes of any number.                                      *)
LEMMA SpecialOf ==
  ASSUME NEW m \in Nat
  PROVE  /\ Special(m) \in Markers \cup Errors \cup {"none"}
         /\ Special(m) = "none" => m > 4
         /\ Special(m) \in Markers => m <= 2
<1>1. /\ m = 0 => Special(m) = "flush"
      /\ m = 1 => Special(m) = "delimiter"
      /\ m = 2 => Special(m) = "response-end"
      /\ m = 3 => Special(m) = "invalid length"
  BY DEF Special
<1>2. m = 4 => Special(m) = "empty packet"
  <2>1. 4 \in (0 .. 2) \cup (4 .. MaxPktLen)
    BY PktlineAssumption
  <2> QED BY <2>1, SpecialValues
<1>3. m # 0 /\ m # 1 /\ m # 2 /\ m # 3 /\ m # 4 => Special(m) = "none"
  BY Zenon DEF Special
<1>4. PICK x : x = Special(m)
  OBVIOUS
<1>5. \/ m = 0 /\ x = "flush"
      \/ m = 1 /\ x = "delimiter"
      \/ m = 2 /\ x = "response-end"
      \/ m = 3 /\ x = "invalid length"
      \/ m = 4 /\ x = "empty packet"
      \/ m > 4 /\ x = "none"
  <2>1. m = 0 \/ m = 1 \/ m = 2 \/ m = 3 \/ m = 4 \/ m > 4
    OBVIOUS
  <2>2. m > 4 => m # 0 /\ m # 1 /\ m # 2 /\ m # 3 /\ m # 4
    OBVIOUS
  <2> QED BY <1>1, <1>2, <1>3, <1>4, <2>1, <2>2
<1>6. /\ x \in Markers \cup Errors \cup {"none"}
      /\ x = "none" => m > 4
  BY <1>5 DEF Markers, Errors
<1>7. x \in Markers => m <= 2
  <2>1. x \in {"invalid length", "empty packet", "none"} => x \notin Markers
    BY DEF Markers
  <2>2. x \in Markers => m = 0 \/ m = 1 \/ m = 2
    BY <1>5, <2>1, Zenon
  <2> QED BY <2>2
<1> QED BY <1>4, <1>6, <1>7

(* All the outcomes of the first part of Next, whoever wrote the bytes.      *)
LEMMA PrefixOutcomes ==
  ASSUME wire \in Seq(Bytes), pos \in 0 .. Len(wire), NextPrefix, NEW m, m = Said(wire, pos)
  PROVE  /\ pos' \in 0 .. Len(wire)
         /\ \/ \E e \in {"nil", "panic"} \cup Errors :
                 Fail(e) /\ (e = "nil" => closed /\ pos = Len(wire) /\ pos' = pos)
            \/ /\ pos' = pos + 4 /\ ~Invalid(m)
               /\ Special(m) \in Markers /\ Yield(Special(m), <<>>)
            \/ /\ pos' = pos + 4 /\ ~Invalid(m) /\ Special(m) = "none" /\ m \in 5 .. MaxPktLen
               /\ reading' = "payload" /\ length' = m /\ UNCHANGED <<result, received>>
<1>0. Len(wire) \in Nat /\ pos \in Nat
  OBVIOUS
<1>1. CASE ReadError(4) = "EOF"
  <2>1. pos = Len(wire) /\ ~(Available >= 4)
    BY <1>0, <1>1 DEF ReadError, Available
  <2>2. Fail("nil") /\ closed /\ pos' = pos
    BY <1>1, <2>1, NextPrefixReads DEF Ready
  <2> QED BY <1>0, <2>1, <2>2
<1>2. CASE ReadError(4) = "unexpected EOF"
  <2>1. ~(Available >= 4)
    BY <1>0, <1>2 DEF ReadError, Available
  <2>2. Fail("unexpected EOF") /\ pos' = Len(wire)
    BY <1>2, <2>1, NextPrefixReads
  <2>3. "unexpected EOF" \in Errors /\ "unexpected EOF" # "nil"
    BY DEF Errors
  <2>4. Len(wire) \in 0 .. Len(wire)
    BY <1>0
  <2> QED BY <2>2, <2>3, <2>4, Zenon
<1>3. CASE ReadError(4) = "none"
  <2>1. Available >= 4 /\ pos + 4 <= Len(wire)
    BY <1>0, <1>3 DEF ReadError, Available
  <2>2. pos' = pos + 4 /\ pos' \in 0 .. Len(wire)
    <3>1. pos' = pos + 4
      BY <2>1, NextPrefixReads, Zenon
    <3> QED BY <1>0, <2>1, <3>1
  <2>3. m = ParseUint(Read(4)) /\ m \in Nat
    BY <1>0, <2>1, SaidIs DEF Said, Read
  <2>4. CASE Invalid(m)
    <3>1. Fail("invalid length")
      <4>1. CASE Overlong(m)
        BY <2>4, <4>1 DEF Overlong
      <4>2. CASE ~Overlong(m)
        <5>1. m > 4
          BY <2>4, PktlineAssumption DEF Invalid
        <5>2. m # 0 /\ m # 1 /\ m # 2 /\ m # 3 /\ m # 4
          BY <2>3, <5>1
        <5>3. Special(m) = "none"
          BY <5>2, Zenon DEF Special
        <5>4. Special(m) \notin Markers /\ Special(m) \notin Errors
          BY <5>3 DEF Markers, Errors
        <5>5. ReadError(4) # "EOF" /\ ~(ReadError(4) # "none")
          BY <1>3
        <5> QED BY <2>3, <2>4, <4>2, <5>4, <5>5, Zenon DEF NextPrefix
      <4> QED BY <4>1, <4>2
    <3>2. "invalid length" \in Errors /\ "invalid length" # "nil"
      BY DEF Errors
    <3> QED BY <2>2, <3>1, <3>2
  <2>5. CASE ~Invalid(m)
    <3>1. /\ Special(m) \in Markers => Yield(Special(m), <<>>)
          /\ Special(m) \in Errors => Fail(Special(m))
          /\ Special(m) = "none" /\ Overlong(m) => Fail("panic")
          /\ Special(m) = "none" /\ ~Overlong(m) =>
               reading' = "payload" /\ length' = m /\ UNCHANGED <<result, received>>
      BY <1>3, <2>3, <2>5, NextPrefixChooses
    <3>2. /\ Special(m) \in Markers \cup Errors \cup {"none"}
          /\ Special(m) = "none" => m > 4
      BY <2>3, SpecialOf
    <3>3. Special(m) = "none" /\ ~Overlong(m) => m \in 5 .. MaxPktLen
      BY <2>3, <2>5, <3>2, PktlineAssumption DEF Overlong
    <3>4. "nil" \notin Errors /\ "panic" # "nil"
      BY DEF Errors
    <3>5. CASE Special(m) \in Markers
      BY <2>2, <2>5, <3>1, <3>5, Zenon
    <3>6. CASE Special(m) \in Errors
      <4>1. PICK e \in Errors : e = Special(m)
        BY <3>6
      <4>2. Fail(e) /\ e # "nil"
        BY <3>1, <3>4, <4>1, Zenon
      <4> QED BY <2>2, <4>2
    <3>7. CASE Special(m) = "none" /\ Overlong(m)
      BY <2>2, <3>1, <3>4, <3>7
    <3>8. CASE Special(m) = "none" /\ ~Overlong(m)
      BY <2>2, <2>5, <3>1, <3>3, <3>8, Zenon
    <3> QED BY <3>2, <3>5, <3>6, <3>7, <3>8, Zenon
  <2> QED BY <2>4, <2>5
<1> QED BY <1>1, <1>2, <1>3 DEF ReadError

(* Where the prefix of m lies whole behind the reader, Next reads m and      *)
(* returns a marker, refuses an empty packet or goes on to the payload.      *)
LEMMA Switched ==
  ASSUME Inv, NextPrefix, pos + 4 <= Len(wire),
         NEW m \in (0 .. 2) \cup (4 .. MaxPktLen), Headed(wire, pos, m)
  PROVE  /\ pos' = pos + 4 /\ pos' \in 0 .. Len(wire) /\ UNCHANGED writer
         /\ m <= 2 => Yield(Special(m), <<>>)
         /\ m = 4 => Fail("empty packet")
         /\ m > 4 => /\ reading' = "payload" /\ length' = m
                     /\ UNCHANGED <<result, received>>
<1>1. wire \in Seq(Bytes) /\ Len(wire) \in Nat /\ pos \in Nat
  BY Sorts
<1>2. Available >= 4 /\ ReadError(4) = "none"
  BY <1>1 DEF Available, ReadError
<1>3. ParseUint(Read(4)) = m /\ ~Invalid(m)
  BY <1>1, PrefixParsed, PktlineAssumption DEF Read
<1>4. /\ m <= 2 => Special(m) \in Markers
      /\ m = 4 => Special(m) = "empty packet"
      /\ m > 4 => Special(m) = "none"
  BY SpecialValues
<1>5. pos' = pos + 4 /\ UNCHANGED writer
  BY <1>1, <1>2, NextPrefixReads
<1>6. /\ Special(m) \in Markers => Yield(Special(m), <<>>)
      /\ Special(m) = "empty packet" => Fail("empty packet")
      /\ Special(m) = "none" => /\ reading' = "payload" /\ length' = m
                                /\ UNCHANGED <<result, received>>
  <2>1. ~Overlong(m)
    BY PktlineAssumption DEF Overlong
  <2>2. "empty packet" \in Errors
    BY DEF Errors
  <2> QED BY <1>2, <1>3, <2>1, <2>2, NextPrefixChooses, Zenon
<1>7. pos' \in 0 .. Len(wire)
  BY <1>1, <1>5
<1> QED BY <1>4, <1>5, <1>6, <1>7, Zenon

(* Next reads a prefix: of a frame that was sent, of one that EncodeLine     *)
(* has begun, or of one that broke off; or there is none; or the bytes are   *)
(* somebody else's, and any outcome will do.                                 *)
LEMMA NextPrefixKeeps ==
  ASSUME Inv, NextPrefix
  PROVE  Inv'
<1>0. PICK n \in Nat, r \in Nat : n = Len(sent) /\ r = Len(received)
  BY Sorts
<1>1. PICK at \in [0 .. n -> 0 .. Len(wire)] :
        Frames(wire, sent, at) /\ Behind(at[n]) /\ Position(r, at)
  BY <1>0 DEF Inv, Streamed
<1>2. /\ wire \in Seq(Bytes) /\ Len(wire) \in Nat /\ sent \in Seq(Packets)
      /\ pos \in 0 .. Len(wire) /\ pos \in Nat /\ received \in Seq(Returned)
      /\ r <= n => r \in 0 .. n /\ pos = at[r]
  <2>1. reading = "prefix"
    BY NextPrefixReads
  <2>2. /\ wire \in Seq(Bytes) /\ Len(wire) \in Nat /\ sent \in Seq(Packets)
        /\ pos \in 0 .. Len(wire) /\ received \in Seq(Returned)
    BY Sorts
  <2> QED BY <1>0, <1>1, <2>1, <2>2 DEF Position
<1>3. UNCHANGED <<wire, writing, closed, foreign, sent, torn>> /\ UNCHANGED writer
  BY NextPrefixReads, ZenonT(30) DEF writer
<1>4. ASSUME NEW m \in 5 .. MaxPktLen, pos' = pos + 4, pos' \in 0 .. Len(wire),
             reading' = "payload", length' = m, UNCHANGED <<result, received>>,
             r < n => sent[r + 1].type = "data" /\ m = Size(sent[r + 1]),
             r = n => \/ writing # <<>> /\ m = Len(writing[1]) + 4
                      \/ torn /\ Len(wire) < at[r] + m
                      \/ foreign
      PROVE  Inv'
  <2>1. Behind(at[n])'
    BY <1>1, <1>3 DEF Behind, Whole, Begun, Broken, Alien
  <2>2. Position(r, at)'
    BY <1>0, <1>2, <1>3, <1>4 DEF Position
  <2>3. Streamed'
    BY <1>0, <1>1, <1>3, <1>4, <2>1, <2>2 DEF Streamed
  <2>4. TypeOK'
    <3>1. reading = "prefix"
      BY NextPrefixReads
    <3>2. TypeOK /\ m \in 0 .. MaxPktLen
      BY PktlineAssumption DEF Inv
    <3> QED BY <1>3, <1>4, <3>1, <3>2 DEF TypeOK
  <2> QED BY <1>0, <1>3, <1>4, <2>3, <2>4 DEF Inv, Ended, ReadsWhatWasSent, CleanEnd
<1>5. CASE r < n
  <2>1. PICK p \in Packets : p = sent[r + 1] /\ r + 1 \in 1 .. n /\ r + 1 \in 0 .. n
    BY <1>0, <1>2, <1>5, ElementOfSeq
  <2>2. /\ Len(p.payload) \in Nat
        /\ p.type # "data" => /\ p.payload = <<>> /\ Special(Field(p)) = p.type
                              /\ Field(p) \in 0 .. 2 /\ Size(p) = 4
        /\ p.type = "data" => Field(p) = Size(p) /\ Size(p) = Len(p.payload) + 4
        /\ Field(p) \in (0 .. 2) \cup (4 .. MaxPktLen)
        /\ p = Packet(p.type, p.payload)
    BY PacketBytes DEF Size
  <2>3. /\ Placed(wire, at[r], p) /\ at[r + 1] = at[r] + Size(p)
        /\ at[r + 1] \in 0 .. Len(wire)
    <3>1. (r + 1) - 1 = r
      OBVIOUS
    <3> QED BY <1>0, <1>1, <2>1, <3>1 DEF Frames
  <2>4. Headed(wire, pos, Field(p)) /\ pos + 4 <= Len(wire)
    <3>1. pos = at[r] /\ pos \in Nat /\ Len(wire) \in Nat
      BY <1>2, <1>5
    <3>2. pos + 4 <= Len(wire)
      <4>1. PICK l \in Nat : l = Len(p.payload)
        BY <2>2
      <4>2. at[r + 1] = pos + (4 + l) /\ at[r + 1] \in 0 .. Len(wire)
        BY <2>3, <3>1, <4>1 DEF Size
      <4> QED BY ONLY <3>1, <4>2, l \in Nat
    <3> QED BY <2>3, <3>1, <3>2 DEF Placed
  <2>5. CASE p.type # "data"
    <3>0. Field(p) <= 2 /\ Special(Field(p)) = p.type
      BY <2>2, <2>5
    <3>1. pos' = pos + 4 /\ Yield(p.type, <<>>)
      BY <2>2, <2>4, <3>0, Switched, Zenon
    <3>2. pos' = at[r + 1] /\ Packet(p.type, <<>>) = p /\ r \in 0 .. n
      BY <1>2, <1>5, <2>2, <2>3, <2>5, <3>1
    <3>3. PICK t \in Markers \cup {"data"}, b \in Seq(Bytes) : t = p.type /\ b = <<>>
      BY PacketBytes, EmptySeq
    <3>4. Yield(t, b) /\ Packet(t, b) = sent[r + 1] /\ pos' \in 0 .. Len(wire)
      BY <2>1, <2>3, <3>1, <3>2, <3>3
    <3> QED BY <1>0, <1>1, <1>3, <1>5, <3>2, <3>4, Yielded
  <2>6. CASE p.type = "data" /\ Len(p.payload) = 0
    <3>0. Field(p) = 4
      BY <2>2, <2>6
    <3>1. Fail("empty packet") /\ pos' \in 0 .. Len(wire)
      BY <2>2, <2>4, <3>0, Switched, Zenon
    <3>2. p.payload = <<>> /\ sent[r + 1] = Packet("data", <<>>)
      BY <2>1, <2>2, <2>6, PacketBytes, EmptySeq
    <3>3. "empty packet" \in {"nil", "panic"} \cup Errors /\ "empty packet" # "nil"
      BY DEF Errors
    <3> QED BY <1>0, <1>3, <2>1, <3>1, <3>2, <3>3, Failed
  <2>7. CASE p.type = "data" /\ Len(p.payload) > 0
    <3>1. Size(p) \in 5 .. MaxPktLen /\ Field(p) = Size(p) /\ Field(p) > 4
      <4>1. PICK l \in Nat : l = Len(p.payload)
        BY <2>2
      <4>2. l > 0 /\ Size(p) = l + 4 /\ Field(p) = l + 4
        BY <2>2, <2>7, <4>1
      <4>3. l + 4 \in (0 .. 2) \cup (4 .. MaxPktLen)
        BY <2>2, <4>2
      <4> QED BY ONLY l \in Nat, <4>2, <4>3, PktlineAssumption
    <3>2. /\ pos' = pos + 4 /\ pos' \in 0 .. Len(wire) /\ reading' = "payload"
          /\ length' = Size(p) /\ UNCHANGED <<result, received>>
      BY <2>2, <2>4, <3>1, Switched, Zenon
    <3> QED BY <1>4, <1>5, <2>1, <2>7, <3>1, <3>2
  <2> QED BY <2>2, <2>5, <2>6, <2>7
<1>6. CASE r = n /\ Whole(at[n])
  <2>1. Available = 0 /\ Len(wire) = pos /\ ~torn
    BY <1>2, <1>6 DEF Whole, Available
  <2>2. closed /\ pos' \in 0 .. Len(wire) /\ Fail("nil")
    BY <1>2, <2>1, NextPrefixReads DEF Ready, ReadError
  <2>3. Len(sent) <= Len(received)
    BY <1>0, <1>6
  <2> QED BY <1>3, <2>1, <2>2, <2>3, Failed
<1>7. CASE r = n /\ Begun(at[n])
  <2>1. PICK l \in Nat : /\ l = Len(writing[1]) /\ l + 4 <= MaxPktLen
                         /\ l = 0 => writing = << <<>> >>
    <3>1. PICK i \in Lengths : writing = <<Payload(i)>>
      BY <1>7 DEF Begun, Inv, TypeOK
    <3>2. i \in Nat /\ Len(Payload(i)) = i /\ Payload(i) \in Seq(Bytes)
      BY PktlineAssumption, PayloadBytes
    <3>3. i = 0 => Payload(i) = <<>>
      BY <3>2, EmptySeq
    <3> QED BY <1>7, <3>1, <3>2, <3>3 DEF Begun
  <2>2. Headed(wire, pos, l + 4) /\ pos + 4 <= Len(wire) /\ writing # <<>>
    BY <1>2, <1>7, <2>1 DEF Begun
  <2>3. CASE l = 0
    <3>0. l + 4 = 4 /\ l + 4 \in (0 .. 2) \cup (4 .. MaxPktLen)
      BY <2>1, <2>3, PktlineAssumption
    <3>1. Fail("empty packet") /\ pos' \in 0 .. Len(wire)
      BY <2>2, <3>0, Switched, Zenon
    <3>2. "empty packet" \in {"nil", "panic"} \cup Errors /\ "empty packet" # "nil"
      BY DEF Errors
    <3> QED BY <1>3, <2>1, <2>3, <3>1, <3>2, Failed
  <2>4. CASE l > 0
    <3>1. /\ l + 4 \in 5 .. MaxPktLen /\ l + 4 \in (0 .. 2) \cup (4 .. MaxPktLen)
          /\ l + 4 > 4
      BY <2>1, <2>4, PktlineAssumption
    <3>2. /\ pos' = pos + 4 /\ pos' \in 0 .. Len(wire) /\ reading' = "payload"
          /\ length' = l + 4 /\ UNCHANGED <<result, received>>
      BY <2>2, <3>1, Switched, Zenon
    <3> QED BY <1>4, <1>7, <2>1, <2>2, <3>1, <3>2
  <2> QED BY <2>3, <2>4
<1>8. CASE r = n /\ Broken(at[n])
  <2>1. torn /\ closed /\ Len(wire) > pos
    BY <1>2, <1>8 DEF Broken
  <2>2. CASE Len(wire) < pos + 4
    <3>1. ReadError(4) = "unexpected EOF" /\ ~(Available >= 4)
      BY <1>2, <2>1, <2>2 DEF ReadError, Available
    <3>2. pos' \in 0 .. Len(wire) /\ Fail("unexpected EOF")
      <4>1. pos' = Len(wire)
        BY <3>1, NextPrefixReads
      <4>2. Len(wire) \in 0 .. Len(wire)
        BY <1>2
      <4> QED BY <3>1, <4>1, <4>2, NextPrefixReads, Zenon
    <3>3. "unexpected EOF" \in {"nil", "panic"} \cup Errors /\ "unexpected EOF" # "nil"
      BY DEF Errors
    <3> QED BY <1>3, <2>1, <3>2, <3>3, Failed
  <2>3. CASE Len(wire) >= pos + 4
    <3>1. PICK l \in Lengths : /\ l + 4 <= MaxPktLen /\ Headed(wire, pos, l + 4)
                               /\ l = 0 \/ Len(wire) < pos + 4 + l
      BY <1>2, <1>8, <2>3 DEF Broken
    <3>2. l \in Nat
      BY PktlineAssumption
    <3>3. CASE l = 0
      <4>0. /\ l + 4 = 4 /\ l + 4 \in (0 .. 2) \cup (4 .. MaxPktLen)
            /\ pos + 4 <= Len(wire)
        BY <1>2, <2>3, <3>1, <3>3, PktlineAssumption
      <4>1. Fail("empty packet") /\ pos' \in 0 .. Len(wire)
        BY <3>1, <4>0, Switched, Zenon
      <4>2. "empty packet" \in {"nil", "panic"} \cup Errors /\ "empty packet" # "nil"
        BY DEF Errors
      <4> QED BY <1>3, <2>1, <4>1, <4>2, Failed
    <3>4. CASE l > 0
      <4>1. /\ l + 4 \in 5 .. MaxPktLen /\ l + 4 \in (0 .. 2) \cup (4 .. MaxPktLen)
            /\ l + 4 > 4 /\ Len(wire) < at[r] + (l + 4) /\ pos + 4 <= Len(wire)
        <5>1. pos = at[r]
          BY <1>2, <1>8
        <5> QED BY <1>2, <2>3, <3>1, <3>2, <3>4, <5>1, PktlineAssumption
      <4>2. /\ pos' = pos + 4 /\ pos' \in 0 .. Len(wire) /\ reading' = "payload"
            /\ length' = l + 4 /\ UNCHANGED <<result, received>>
        BY <3>1, <4>1, Switched, Zenon
      <4> QED BY <1>4, <1>8, <2>1, <4>1, <4>2
    <3> QED BY <3>2, <3>3, <3>4
  <2> QED BY <1>2, <2>2, <2>3
<1>9. CASE n <= r /\ foreign
  <2>1. ~torn
    BY <1>1, <1>9 DEF Behind, Whole, Begun, Broken, Alien
  <2>2. PICK m : m = Said(wire, pos)
    OBVIOUS
  <2>3. pos' \in 0 .. Len(wire)
    BY <1>2, <2>2, PrefixOutcomes
  <2>4. ASSUME NEW e \in {"nil", "panic"} \cup Errors, Fail(e), e = "nil" => closed
        PROVE  Inv'
    BY <1>0, <1>3, <1>9, <2>1, <2>3, <2>4, Failed
  <2>5. ASSUME Special(m) \in Markers, Yield(Special(m), <<>>) PROVE Inv'
    <3>1. PICK t \in Markers \cup {"data"}, b \in Seq(Bytes) : t = Special(m) /\ b = <<>>
      BY <2>5, EmptySeq
    <3>2. Yield(t, b)
      BY <2>5, <3>1
    <3> QED BY <1>0, <1>1, <1>3, <1>9, <2>3, <3>2, Yielded
  <2>6. ASSUME pos' = pos + 4, m \in 5 .. MaxPktLen, reading' = "payload", length' = m,
               UNCHANGED <<result, received>>
        PROVE  Inv'
    <3>1. ~(r < n)
      BY <1>9
    <3> QED BY <1>4, <1>9, <2>3, <2>6, <3>1
  <2> QED BY <1>2, <2>2, <2>4, <2>5, <2>6, PrefixOutcomes, Zenon
<1>10. r < n \/ r = n \/ (n <= r /\ foreign)
  BY <1>0, Sorts
<1>11. Alien(at[n]) => foreign
  BY DEF Alien
<1>12. r = n => n <= r
  OBVIOUS
<1> QED BY <1>1, <1>5, <1>6, <1>7, <1>8, <1>9, <1>10, <1>11, <1>12 DEF Behind

(* The bytes read are the payload that lies there.                           *)
LEMMA PayloadRead ==
  ASSUME NEW w \in Seq(Bytes), NEW a \in Nat, NEW b \in Seq(Bytes), NEW l \in Nat,
         l = Len(b), a + l <= Len(w), \A k \in 1 .. l : w[a + k] = b[k]
  PROVE  SubSeq(w, a + 1, a + l) = b
<1>1. PICK q : q = SubSeq(w, a + 1, a + l)
  OBVIOUS
<1>2. q \in Seq(Bytes) /\ Len(q) = l /\ \A k \in 1 .. l : q[k] = w[a + k]
  <2>1. PartOf(q, w, a, l)
    BY ONLY w \in Seq(Bytes), a \in Nat, l \in Nat, a + l <= Len(w), <1>1, BytesPart, Zenon
  <2> QED BY ONLY <2>1 DEF PartOf
<1>3. \A k \in 1 .. l : q[k] = b[k]
  BY <1>2
<1> QED BY <1>1, <1>2, <1>3, SeqEqual

(* The outcomes of the second part of Next, whoever wrote the bytes.         *)
LEMMA PayloadOutcomes ==
  ASSUME wire \in Seq(Bytes), pos \in 0 .. Len(wire), length \in Nat, length > 4, NextPayload
  PROVE  \/ \E e \in {"EOF", "unexpected EOF"} :
              Fail(e) /\ pos' = Len(wire) /\ pos' \in 0 .. Len(wire)
         \/ \E b \in Seq(Bytes) :
              /\ b = SubSeq(wire, pos + 1, pos + (length - 4)) /\ Len(b) = length - 4
              /\ pos' = pos + (length - 4) /\ pos' \in 0 .. Len(wire) /\ Yield("data", b)
<1>0. PICK l \in Nat, a \in Nat, k \in Nat : l = length - 4 /\ a = pos /\ k = Len(wire)
  <2>1. length - 4 \in Nat /\ pos \in Nat /\ Len(wire) \in Nat
    BY LenProperties
  <2> QED BY <2>1
<1>k. k \in 0 .. k
  BY <1>0
<1>1. CASE ~(Available >= length - 4)
  <2>1. PICK e \in {"EOF", "unexpected EOF"} : e = ReadError(length - 4)
    BY <1>1 DEF ReadError
  <2>2. e # "none"
    OBVIOUS
  <2>3. Fail(ReadError(length - 4)) /\ pos' = Len(wire)
    BY <1>1, <2>1, <2>2, Zenon DEF NextPayload
  <2> QED BY <1>0, <1>k, <2>1, <2>3, Zenon
<1>2. CASE Available >= length - 4
  <2>1. ReadError(length - 4) = "none"
    BY <1>2 DEF ReadError
  <2>2. Yield("data", Read(length - 4)) /\ pos' = pos + length - 4
    BY <1>2, <2>1, Zenon DEF NextPayload
  <2>3. a + l <= k /\ pos + length - 4 = a + l /\ a + l \in 0 .. k
    BY <1>0, <1>2 DEF Available
  <2>4. PICK b : b = SubSeq(wire, a + 1, a + l)
    OBVIOUS
  <2>5. b \in Seq(Bytes) /\ Len(b) = l
    <3>1. a + l <= Len(wire)
      BY <1>0, <2>3
    <3>2. PartOf(b, wire, a, l)
      BY ONLY wire \in Seq(Bytes), a \in Nat, l \in Nat, <3>1, <2>4, BytesPart, Zenon
    <3> QED BY ONLY <3>2 DEF PartOf
  <2>6. Read(length - 4) = b
    BY <1>0, <2>4 DEF Read
  <2> QED BY <1>0, <2>2, <2>3, <2>4, <2>5, <2>6
<1> QED BY <1>1, <1>2

(* Next reads a payload: of a frame that was sent, or what there is of one   *)
(* that broke off.  One that EncodeLine has begun keeps it waiting.  From    *)
(* foreign bytes, any outcome will do.                                       *)
LEMMA NextPayloadKeeps ==
  ASSUME Inv, NextPayload
  PROVE  Inv'
<1>0. PICK n \in Nat, r \in Nat : n = Len(sent) /\ r = Len(received)
  BY Sorts
<1>1. PICK at \in [0 .. n -> 0 .. Len(wire)] :
        Frames(wire, sent, at) /\ Behind(at[n]) /\ Position(r, at)
  BY <1>0 DEF Inv, Streamed
<1>2. /\ wire \in Seq(Bytes) /\ Len(wire) \in Nat /\ sent \in Seq(Packets)
      /\ pos \in 0 .. Len(wire) /\ length \in Nat /\ length > 4
      /\ r <= n => r \in 0 .. n /\ at[r] \in Nat /\ pos = at[r] + 4
  <2>1. reading = "payload" /\ length > 4
    BY DEF NextPayload, Inv
  <2>2. /\ wire \in Seq(Bytes) /\ Len(wire) \in Nat /\ sent \in Seq(Packets)
        /\ pos \in 0 .. Len(wire) /\ length \in Nat
    BY Sorts, PktlineAssumption
  <2> QED BY <1>0, <1>1, <2>1, <2>2 DEF Position
<1>3. UNCHANGED <<wire, writing, closed, foreign, sent, torn>> /\ UNCHANGED writer
  BY DEF NextPayload, writer
<1>4. CASE r < n
  <2>1. PICK p \in Packets : p = sent[r + 1] /\ r + 1 \in 1 .. n /\ r + 1 \in 0 .. n
    BY <1>0, <1>2, <1>4, ElementOfSeq
  <2>2. p.type = "data" /\ length = Size(p)
    BY <1>0, <1>1, <1>4, <2>1 DEF NextPayload, Position
  <2>3. /\ Placed(wire, at[r], p) /\ at[r + 1] = at[r] + Size(p)
        /\ at[r + 1] \in 0 .. Len(wire)
    <3>1. (r + 1) - 1 = r
      OBVIOUS
    <3> QED BY <1>0, <1>1, <2>1, <3>1 DEF Frames
  <2>4. /\ p.payload \in Seq(Bytes) /\ Len(p.payload) \in Nat
        /\ p = Packet(p.type, p.payload)
    BY PacketBytes
  <2>5. /\ length - 4 = Len(p.payload) /\ Available >= length - 4
        /\ pos + (length - 4) <= Len(wire)
    <3>1. PICK l \in Nat, m \in Nat, a \in Nat :
            l = Len(p.payload) /\ m = Len(wire) /\ a = at[r]
      BY <1>2, <1>4, <2>4
    <3>2. length = 4 + l /\ a + (4 + l) <= m /\ pos = a + 4
      BY <1>2, <1>4, <2>2, <2>3, <3>1 DEF Size
    <3>3. length - 4 = l /\ m - pos >= length - 4 /\ pos + (length - 4) <= m
      BY ONLY l \in Nat, m \in Nat, a \in Nat, <3>2
    <3> QED BY <3>1, <3>3 DEF Available
  <2>6. Read(length - 4) = p.payload
    <3>1. PICK b \in Seq(Bytes), l \in Nat : /\ b = p.payload /\ l = Len(b)
                                             /\ l = length - 4
      BY <2>4, <2>5
    <3>2. pos \in Nat /\ pos + l <= Len(wire) /\ \A k \in 1 .. l : wire[pos + k] = b[k]
      <4>1. pos = at[r] + 4 /\ pos \in Nat
        BY <1>2, <1>4
      <4>2. \A k \in 1 .. l : wire[at[r] + 4 + k] = b[k]
        BY <2>3, <3>1 DEF Placed
      <4> QED BY <2>5, <3>1, <4>1, <4>2
    <3>3. SubSeq(wire, pos + 1, pos + l) = b
      <4>1. PICK w \in Seq(Bytes), a \in Nat : w = wire /\ a = pos
        BY <1>2, <3>2
      <4>2. l = Len(b) /\ a + l <= Len(w) /\ \A k \in 1 .. l : w[a + k] = b[k]
        BY <3>1, <3>2, <4>1
      <4>3. SubSeq(w, a + 1, a + l) = b
        BY ONLY w \in Seq(Bytes), a \in Nat, b \in Seq(Bytes), l \in Nat, <4>2,
                PayloadRead
      <4> QED BY <4>1, <4>3
    <3> QED BY <3>1, <3>3 DEF Read
  <2>7. pos' = at[r + 1] /\ Yield("data", p.payload)
    BY <1>2, <1>4, <2>2, <2>3, <2>5, <2>6, SMTT(30) DEF NextPayload, ReadError
  <2>8. PICK t \in Markers \cup {"data"}, b \in Seq(Bytes) : t = "data" /\ b = p.payload
    BY <2>4
  <2>9. /\ Yield(t, b) /\ Packet(t, b) = sent[r + 1] /\ pos' = at[r + 1]
        /\ pos' \in 0 .. Len(wire)
    BY <2>1, <2>2, <2>3, <2>4, <2>7, <2>8
  <2> QED BY <1>0, <1>1, <1>3, <1>4, <2>9, Yielded
<1>5. CASE r = n /\ ~foreign
  <2>1. torn /\ Len(wire) < at[r] + length
    <3>1. CASE writing # <<>> /\ length = Len(writing[1]) + 4
      <4>1. ~closed /\ Len(wire) = pos
        BY <1>1, <1>2, <1>5, <3>1 DEF Behind, Whole, Begun, Broken, Alien
      <4> QED BY <1>2, <4>1 DEF NextPayload, Ready, Available
    <3> QED BY <1>0, <1>1, <1>5, <3>1 DEF NextPayload, Position
  <2>2. ~(pos + (length - 4) \in 0 .. Len(wire))
    BY <1>2, <1>5, <2>1
  <2>3. PICK e \in {"EOF", "unexpected EOF"} : Fail(e) /\ pos' \in 0 .. Len(wire)
    BY <1>2, <2>2, PayloadOutcomes, Zenon
  <2>4. e \in {"nil", "panic"} \cup Errors /\ e # "nil"
    BY DEF Errors
  <2> QED BY <1>3, <2>1, <2>3, <2>4, Failed
<1>6. CASE n <= r /\ foreign
  <2>1. ASSUME NEW e \in {"EOF", "unexpected EOF"}, Fail(e), pos' \in 0 .. Len(wire)
        PROVE  Inv'
    <3>1. e \in {"nil", "panic"} \cup Errors /\ e # "nil"
      BY DEF Errors
    <3> QED BY <1>3, <1>6, <2>1, <3>1, Failed
  <2>2. ASSUME NEW b \in Seq(Bytes), Yield("data", b), pos' \in 0 .. Len(wire)
        PROVE  Inv'
    <3>1. PICK t \in Markers \cup {"data"} : t = "data"
      OBVIOUS
    <3>2. Yield(t, b)
      BY <2>2, <3>1
    <3> QED BY <1>0, <1>1, <1>3, <1>6, <2>2, <3>2, Yielded
  <2> QED BY <1>2, <2>1, <2>2, PayloadOutcomes, Zenon
<1>7. r < n \/ (r = n /\ ~foreign) \/ (n <= r /\ foreign)
  BY <1>0, Sorts
<1> QED BY <1>4, <1>5, <1>6, <1>7

-----------------------------------------------------------------------------
(* The invariant and the theorems *)

(* The invariant holds of an empty stream and is kept by every step.         *)
LEMMA InitInv == Init => Inv
<1> SUFFICES ASSUME Init PROVE Inv
  OBVIOUS
<1> USE DEF Init
<1>1. TypeOK
  <2>1. /\ <<>> \in Seq(Bytes)
        /\ <<>> \in Seq([type : Markers \cup {"data"}, payload : Seq(Bytes),
                         consumed : Nat])
    BY EmptySeq
  <2>2. "none" \notin {"nil", "panic"} \cup Errors
    BY DEF Errors
  <2>3. 0 \in 0 .. MaxPktLen /\ 0 \in 0 .. Len(<<>>)
    BY PktlineAssumption
  <2> QED BY <2>1, <2>2, <2>3 DEF TypeOK
<1>2. Streamed
  <2> DEFINE at == [i \in 0 .. 0 |-> 0]
  <2>1. at \in [0 .. 0 -> 0 .. 0] /\ at[0] = 0
    OBVIOUS
  <2> HIDE DEF at
  <2>2. Frames(wire, sent, at)
    BY <2>1 DEF Frames
  <2>3. Behind(at[0]) /\ Position(0, at)
    BY <2>1 DEF Behind, Whole, Position
  <2> QED BY <2>1, <2>2, <2>3 DEF Streamed
<1>3. ReadsWhatWasSent
  BY DEF ReadsWhatWasSent
<1> QED BY <1>1, <1>2, <1>3 DEF Inv, Ended, CleanEnd, Errors

(* One case for each action of Next.                                         *)
LEMMA InvStep == Inv /\ [Next]_vars => Inv'
<1> SUFFICES ASSUME Inv, [Next]_vars PROVE Inv'
  OBVIOUS
<1>1. ASSUME NEW n \in Lengths, WriteEncoded(n) PROVE Inv'
  BY <1>1, WriteEncodedKeeps
<1>2. ASSUME NEW n \in Lengths, EncodeLine(n) PROVE Inv'
  BY <1>2, EncodeLineKeeps
<1>3. CASE EncodeLineData
  BY <1>3, EncodeLineDataKeeps
<1>4. ASSUME NEW m \in Markers, EncodeFlush(m) PROVE Inv'
  BY <1>4, EncodeFlushKeeps
<1>5. ASSUME NEW bytes \in Foreign, WriteForeign(bytes) PROVE Inv'
  BY <1>5, WriteForeignKeeps
<1>6. CASE Close
  BY <1>6, CloseKeeps
<1>7. CASE NextPrefix
  BY <1>7, NextPrefixKeeps
<1>8. CASE NextPayload
  BY <1>8, NextPayloadKeeps
<1>9. CASE UNCHANGED vars
  <2>1. /\ UNCHANGED <<wire, writing, closed, foreign, sent, torn>>
        /\ UNCHANGED <<pos, reading, length, result, received>>
    BY <1>9 DEF vars, writer, reader
  <2>2. TypeOK' /\ Ended' /\ ReadsWhatWasSent' /\ CleanEnd'
    BY <2>1 DEF Inv, TypeOK, Ended, ReadsWhatWasSent, CleanEnd
  <2>3. PICK at \in [0 .. Len(sent) -> 0 .. Len(wire)] :
          Frames(wire, sent, at) /\ Behind(at[Len(sent)]) /\ Position(Len(received), at)
    BY DEF Inv, Streamed
  <2>4. Behind(at[Len(sent)])' /\ Position(Len(received), at)'
    BY <2>1, <2>3 DEF Behind, Whole, Begun, Broken, Alien, Position
  <2>5. Streamed'
    BY <2>1, <2>3, <2>4 DEF Streamed
  <2> QED BY <2>1, <2>2, <2>5 DEF Inv
<1> QED BY <1>1, <1>2, <1>3, <1>4, <1>5, <1>6, <1>7, <1>8, <1>9 DEF Next

(* The inductive invariant of the specification.                             *)
LEMMA Invariance == Spec => []Inv
BY InitInv, InvStep, PTL DEF Spec

(* PktLineStream.Next returns the packets that were written, in their        *)
(* order, for every base, every limit and every interleaving of its reads    *)
(* with the writer, and others only behind them, from foreign bytes.         *)
THEOREM ReadsWhatWasSentHolds == Spec => []ReadsWhatWasSent
<1>1. Inv => ReadsWhatWasSent
  BY DEF Inv
<1> QED BY <1>1, Invariance, PTL

(* PktLineStream.Next returns nil only behind the last packet of a writer    *)
(* that stopped between two frames.  It returns an error, or panics, only    *)
(* if the writer stopped inside one, wrote a line of no bytes, or is not     *)
(* this package: a frame that Encode or EncodeLine made always fits the      *)
(* buffer.                                                                   *)
THEOREM CleanEndHolds == Spec => []CleanEnd
<1>1. Inv => CleanEnd
  BY DEF Inv
<1> QED BY <1>1, Invariance, PTL

-----------------------------------------------------------------------------
(* Decode against Next *)

(* What was read of the wire stays when it grows: a part, ...                *)
LEMMA PartStays ==
  ASSUME NEW v, NEW w, Extends(v, w), NEW a \in Nat, NEW l \in Nat, a + l <= Len(w)
  PROVE  SubSeq(v, a + 1, a + l) = SubSeq(w, a + 1, a + l)
<1>1. /\ v \in Seq(Bytes) /\ w \in Seq(Bytes) /\ Len(v) \in Nat /\ Len(w) \in Nat
      /\ Len(w) <= Len(v) /\ \A k \in 1 .. Len(w) : v[k] = w[k]
  BY DEF Extends
<1>2. PICK q, u : q = SubSeq(v, a + 1, a + l) /\ u = SubSeq(w, a + 1, a + l)
  OBVIOUS
<1>3. u \in Seq(Bytes) /\ Len(u) = l /\ \A k \in 1 .. l : u[k] = w[a + k]
  <2>1. PartOf(u, w, a, l)
    BY ONLY <1>1, <1>2, a \in Nat, l \in Nat, a + l <= Len(w), BytesPart, Zenon
  <2> QED BY ONLY <2>1 DEF PartOf
<1>4. q \in Seq(Bytes) /\ Len(q) = l /\ \A k \in 1 .. l : q[k] = v[a + k]
  <2>1. a + l <= Len(v)
    BY ONLY <1>1, a \in Nat, l \in Nat, a + l <= Len(w)
  <2>2. PartOf(q, v, a, l)
    BY ONLY <1>1, <1>2, <2>1, a \in Nat, l \in Nat, BytesPart, Zenon
  <2> QED BY ONLY <2>2 DEF PartOf
<1>5. ASSUME NEW k \in 1 .. l PROVE q[k] = u[k]
  <2>1. a + k \in 1 .. Len(w)
    BY <1>1
  <2> QED BY ONLY <1>1, <1>3, <1>4, <2>1, k \in 1 .. l
<1>6. q = u
  BY ONLY <1>3, <1>4, <1>5, SeqEqual
<1> QED BY ONLY <1>2, <1>6

(* ... the number in a prefix, ...                                           *)
LEMMA SaidStays ==
  ASSUME NEW v, NEW w, Extends(v, w), NEW a \in Nat, a + 4 <= Len(w)
  PROVE  Said(v, a) = Said(w, a)
<1>1. PICK l \in Nat : l = 4
  OBVIOUS
<1>2. SubSeq(v, a + 1, a + l) = SubSeq(w, a + 1, a + l)
  <2>1. a + l <= Len(w)
    BY <1>1
  <2> QED BY ONLY Extends(v, w), a \in Nat, l \in Nat, <2>1, PartStays
<1> QED BY ONLY <1>1, <1>2 DEF Said

(* ... and a frame.                                                          *)
LEMMA FramedStays ==
  ASSUME NEW v, NEW w, Extends(v, w), NEW a \in Nat, NEW p \in Returned,
         a + Size(p) <= Len(w), Framed(w, a, p)
  PROVE  Framed(v, a, p)
<1>1. PICK l \in Nat : l = Len(p.payload)
  BY LenProperties DEF Returned
<1>2. Size(p) = 4 + l /\ a + 4 <= Len(w) /\ (a + 4) + l <= Len(w) /\ Len(w) \in Nat
  <2>1. Size(p) = 4 + l
    BY <1>1 DEF Size
  <2>2. Len(w) \in Nat
    BY DEF Extends
  <2> QED BY ONLY <2>1, <2>2, a \in Nat, l \in Nat, a + Size(p) <= Len(w)
<1>3. Said(v, a) = Said(w, a)
  BY <1>2, SaidStays
<1>4. SubSeq(v, (a + 4) + 1, (a + 4) + l) = SubSeq(w, (a + 4) + 1, (a + 4) + l)
  <2>1. PICK c \in Nat : c = a + 4
    OBVIOUS
  <2>2. SubSeq(v, c + 1, c + l) = SubSeq(w, c + 1, c + l)
    <3>1. c + l <= Len(w)
      BY ONLY <1>2, <2>1
    <3> QED BY ONLY Extends(v, w), c \in Nat, l \in Nat, <3>1, PartStays, ZenonT(60)
  <2> QED BY ONLY <2>1, <2>2
<1>5. (a + 4) + 1 = a + 5 /\ (a + 4) + l = a + Size(p)
  BY <1>2
<1>6. SubSeq(v, a + 5, a + Size(p)) = SubSeq(w, a + 5, a + Size(p))
  BY ONLY <1>4, <1>5
<1> QED BY <1>3, <1>6 DEF Framed

(* Decode, given the bytes from the start of a frame on, finds the packet of *)
(* that frame.                                                               *)
LEMMA DecodesAt ==
  ASSUME NEW w \in Seq(Bytes), NEW a \in Nat, NEW e \in Nat, e <= Len(w),
         NEW p \in Returned, Framed(w, a, p), a + Size(p) <= e
  PROVE  Decode(SubSeq(w, a + 1, e)) = Decoded(p.type, p.payload, Size(p))
<1>1. PICK q : q = SubSeq(w, a + 1, e)
  OBVIOUS
<1>2. PICK l, t, b, z, f : l = Len(p.payload) /\ t = p.type /\ b = p.payload
                           /\ z = Size(p) /\ f = Said(w, a)
  OBVIOUS
<1>3. /\ l \in Nat /\ z = 4 + l /\ a + z <= e /\ ~Invalid(f)
      /\ \/ t \in Markers /\ Special(f) = t /\ b = <<>>
         \/ t = "data" /\ Special(f) = "none" /\ f = z /\ b = SubSeq(w, a + 5, a + z)
  <2>1. l \in Nat /\ z = 4 + l
    BY <1>2, LenProperties DEF Returned, Size
  <2>2. /\ ~Invalid(f)
        /\ \/ t \in Markers /\ Special(f) = t /\ b = <<>>
           \/ t = "data" /\ Special(f) = "none" /\ f = z /\ b = SubSeq(w, a + 5, a + z)
    BY <1>2 DEF Framed
  <2>3. a + z <= e
    BY <1>2
  <2> QED BY <2>1, <2>2, <2>3
<1>4. PICK m \in Nat : m = e - a /\ e = a + m /\ z <= m
  <2>1. e - a \in Nat /\ e = a + (e - a) /\ z <= e - a
    BY <1>3
  <2> QED BY <2>1
<1>5. q \in Seq(Bytes) /\ Len(q) = m /\ \A k \in 1 .. m : q[k] = w[a + k]
  <2>1. q = SubSeq(w, a + 1, a + m)
    BY ONLY <1>1, <1>4
  <2>2. a + m <= Len(w)
    BY ONLY <1>4, e <= Len(w)
  <2>3. PartOf(q, w, a, m)
    BY ONLY w \in Seq(Bytes), a \in Nat, m \in Nat, <2>1, <2>2, BytesPart, Zenon
  <2> QED BY ONLY <2>3 DEF PartOf
<1>6. ParseUint(q) = f
  <2>1. PICK u : u = SubSeq(w, a + 1, a + 4)
    OBVIOUS
  <2>2. \A k \in 1 .. 4 : u[k] = w[a + k]
    <3>1. PICK d \in Nat : d = 4
      OBVIOUS
    <3>2. u = SubSeq(w, a + 1, a + d)
      BY ONLY <2>1, <3>1
    <3>3. a + d <= Len(w)
      BY ONLY <1>3, <3>1, a \in Nat, e \in Nat, e <= Len(w), w \in Seq(Bytes), LenProperties
    <3>4. PartOf(u, w, a, d)
      BY ONLY w \in Seq(Bytes), a \in Nat, d \in Nat, <3>2, <3>3, BytesPart, Zenon
    <3> QED BY ONLY <3>1, <3>4 DEF PartOf
  <2>3. \A k \in 1 .. 4 : q[k] = u[k]
    <3>1. \A k \in 1 .. 4 : k \in 1 .. m
      BY <1>3, <1>4
    <3> QED BY ONLY <1>5, <2>2, <3>1
  <2>4. q[1] = u[1] /\ q[2] = u[2] /\ q[3] = u[3] /\ q[4] = u[4]
    BY ONLY <2>3
  <2>5. ParseUint(q) = ParseUint(u)
    BY ONLY <2>3, <2>4, Zenon DEF ParseUint
  <2> QED BY ONLY <1>2, <2>1, <2>5 DEF Said
<1>7. ~(Len(q) < 4)
  BY <1>3, <1>4, <1>5
<1>8. Decode(q) = IF Special(f) \in Markers THEN Decoded(Special(f), <<>>, 4)
                  ELSE IF Special(f) # "none" THEN Decoded(Special(f), <<>>, 0)
                  ELSE IF Len(q) < f THEN Decoded("incomplete", <<>>, 0)
                  ELSE Decoded("data", SubSeq(q, 5, f), f)
  BY ONLY <1>3, <1>6, <1>7, Zenon DEF Decode
<1>9. CASE t \in Markers /\ Special(f) = t /\ b = <<>>
  <2>1. z = 4
    BY <1>2, <1>3, <1>9
  <2>2. Decode(q) = Decoded(t, b, z)
    BY ONLY <1>8, <1>9, <2>1
  <2> QED BY ONLY <1>1, <1>2, <2>2
<1>10. CASE t = "data" /\ Special(f) = "none" /\ f = z /\ b = SubSeq(w, a + 5, a + z)
  <2>1. "none" \notin Markers /\ ~(Len(q) < f)
    BY <1>3, <1>4, <1>5, <1>10 DEF Markers
  <2>2. SubSeq(q, 5, f) = b
    <3>1. PICK c \in Nat : c = a + 4
      OBVIOUS
    <3>2. c + l <= Len(w) /\ c + 1 = a + 5 /\ c + l = a + z /\ 4 + l = f
      BY ONLY <1>3, <1>10, <3>1, a \in Nat, e \in Nat, e <= Len(w), w \in Seq(Bytes),
              LenProperties
    <3>3. b \in Seq(Bytes) /\ Len(b) = l /\ \A k \in 1 .. l : b[k] = w[c + k]
      <4>1. b = SubSeq(w, c + 1, c + l)
        BY ONLY <1>10, <3>2
      <4>2. l \in Nat
        BY ONLY <1>3
      <4>3. c + l <= Len(w)
        BY ONLY <3>2
      <4>4. PartOf(b, w, c, l)
        BY ONLY w \in Seq(Bytes), c \in Nat, <4>1, <4>2, <4>3, BytesPart, Zenon
      <4> QED BY ONLY <4>4 DEF PartOf
    <3>4. PICK d \in Nat : d = 4
      OBVIOUS
    <3>5. d + l <= Len(q) /\ \A k \in 1 .. l : q[d + k] = b[k]
      <4>1. \A k \in 1 .. l : d + k \in 1 .. m /\ a + (d + k) = c + k
        BY ONLY <1>3, <1>4, <3>1, <3>4, a \in Nat, m \in Nat
      <4> QED BY ONLY <1>3, <1>4, <1>5, <3>3, <3>4, <4>1
    <3>6. SubSeq(q, d + 1, d + l) = b
      BY ONLY <1>3, <1>5, <3>3, <3>5, d \in Nat, PayloadRead
    <3>7. d + 1 = 5 /\ d + l = f
      BY ONLY <3>2, <3>4
    <3> QED BY ONLY <3>6, <3>7
  <2>3. Decode(q) = Decoded("data", SubSeq(q, 5, f), f)
    BY ONLY <1>8, <1>10, <2>1, Zenon
  <2>4. Decode(q) = Decoded(t, b, z)
    BY ONLY <1>10, <2>2, <2>3
  <2> QED BY ONLY <1>1, <1>2, <2>4
<1> QED BY <1>3, <1>9, <1>10

(* Frames follow each other: none of them starts behind the end of the last. *)
LEMMA FramesInOrder ==
  ASSUME NEW N \in Nat, NEW at \in [0 .. N -> Nat],
         \A i \in 1 .. N : at[i - 1] <= at[i]
  PROVE  \A i \in 0 .. N : at[i] <= at[N]
<1> DEFINE S == {j \in 0 .. N : \A i \in 0 .. j : at[i] <= at[j]}
<1>1. 0 \in S
  OBVIOUS
<1>2. ASSUME NEW j \in 1 .. N, Back(N)[j] \in S PROVE j \in S
  <2>1. j - 1 \in S
    BY <1>2, BackIs
  <2>2. at[j - 1] <= at[j] /\ j - 1 \in 0 .. N
    OBVIOUS
  <2>3. ASSUME NEW i \in 0 .. j PROVE at[i] <= at[j]
    <3>1. CASE i = j
      BY <3>1
    <3>2. CASE i # j
      <4>1. i \in 0 .. j - 1 /\ i \in 0 .. N
        BY <3>2
      <4>2. at[i] <= at[j - 1]
        BY <2>1, <4>1
      <4>3. at[i] \in Nat /\ at[j - 1] \in Nat /\ at[j] \in Nat
        BY <2>2, <4>1
      <4> QED BY ONLY <2>2, <4>2, <4>3
    <3> QED BY <3>1, <3>2
  <2> QED BY <2>3
<1>3. \A j \in 0 .. N : j \in S
  <2>1. Earlier(Back(N), N)
    BY BackIs
  <2> HIDE DEF S
  <2> QED BY <1>1, <1>2, <2>1, EarlierInduction
<1> QED BY <1>3

-----------------------------------------------------------------------------
(* Cut: the writer only adds to the wire, ...                                *)
LEMMA CutGrows ==
  ASSUME Inv, Cut, Extends(wire', wire), UNCHANGED reader
  PROVE  Cut'
<1>0. UNCHANGED <<pos, reading, length, result, received>>
  BY DEF reader
<1>1. PICK r \in Nat : r = Len(received) /\ received \in Seq(Returned)
  BY Sorts
<1>2. PICK at \in [0 .. r -> 0 .. Len(wire)] : Sliced(wire, received, at) /\ Stands(at[r])
  BY <1>1 DEF Cut
<1>3. /\ wire \in Seq(Bytes) /\ Len(wire) \in Nat /\ Len(wire') \in Nat
      /\ Len(wire) <= Len(wire') /\ pos \in 0 .. Len(wire)
  BY Sorts DEF Extends
<1>4. at \in [0 .. r -> 0 .. Len(wire')] /\ at[r] \in Nat
  BY <1>2, <1>3
<1>5. ASSUME NEW i \in 1 .. r PROVE Framed(wire', at[i - 1], received[i])
  <2>1. PICK p \in Returned : p = received[i]
    BY <1>1, ElementOfSeq
  <2>2. PICK a \in Nat : a = at[i - 1] /\ at[i] \in 0 .. Len(wire)
    BY <1>2, <1>3
  <2>3. a + Size(p) <= Len(wire) /\ Framed(wire, a, p)
    <3>1. at[i] = a + Size(p) /\ Framed(wire, a, p)
      BY ONLY <1>1, <1>2, <2>1, <2>2, i \in 1 .. r DEF Sliced
    <3> QED BY ONLY <1>3, <2>2, <3>1
  <2>4. Framed(wire', a, p)
    BY <2>3, FramedStays
  <2> QED BY ONLY <2>1, <2>2, <2>4
<1>6. Sliced(wire', received', at)
  BY <1>0, <1>1, <1>2, <1>5 DEF Sliced
<1>7. Stands(at[r])'
  <2>1. reading = "payload" => Said(wire', at[r]) = Said(wire, at[r])
    <3>1. reading = "payload" => at[r] + 4 <= Len(wire)
      BY <1>2, <1>3, <1>4 DEF Stands
    <3> QED BY <1>4, <3>1, SaidStays
  <2> QED BY <1>0, <1>2, <2>1 DEF Stands
<1> QED BY <1>0, <1>1, <1>4, <1>6, <1>7 DEF Cut

(* ... Next stops, ...                                                       *)
LEMMA CutStops ==
  ASSUME Cut, UNCHANGED wire, NEW e, Fail(e),
         e = "nil" => reading = "prefix" /\ pos' = pos
  PROVE  Cut'
<1>1. reading' = "done" /\ result' = e /\ UNCHANGED <<wire, length, received>>
  BY DEF Fail
<1>2. PICK at \in [0 .. Len(received) -> 0 .. Len(wire)] :
        Sliced(wire, received, at) /\ Stands(at[Len(received)])
  BY DEF Cut
<1>3. Stands(at[Len(received)])'
  BY <1>1, <1>2 DEF Stands
<1> QED BY <1>1, <1>2, <1>3 DEF Cut

(* ... and every packet that it returns is a frame behind the others.        *)
LEMMA CutYields ==
  ASSUME Inv, UNCHANGED wire, pos' \in 0 .. Len(wire), NEW r \in Nat, r = Len(received),
         NEW at \in [0 .. r -> 0 .. Len(wire)], Sliced(wire, received, at),
         NEW t \in Markers \cup {"data"}, NEW b \in Seq(Bytes), Yield(t, b),
         pos' = at[r] + (4 + Len(b)), Framed(wire, at[r], Decoded(t, b, 4))
  PROVE  Cut'
<1>1. PICK p \in Returned : p = Decoded(t, b, 4) /\ Size(p) = 4 + Len(b) /\ p.consumed = 4
  <2>1. Decoded(t, b, 4) \in Returned
    BY DEF Decoded, Returned
  <2>2. Size(Decoded(t, b, 4)) = 4 + Len(b) /\ Decoded(t, b, 4).consumed = 4
    BY DEF Size, Decoded
  <2> QED BY <2>1, <2>2
<1>2. reading' = "prefix" /\ received' = Append(received, p) /\ wire' = wire
  BY <1>1 DEF Yield
<1>3. received \in Seq(Returned) /\ Len(wire) \in Nat
  BY Sorts
<1>4. PICK s : s = received'
  OBVIOUS
<1>5. Len(s) = r + 1 /\ s[r + 1] = p /\ \A i \in 1 .. r : s[i] = received[i]
  BY <1>2, <1>3, <1>4, AppendProperties
<1>6. PICK x \in 0 .. Len(wire) : x = pos'
  OBVIOUS
<1>7. PICK to \in [0 .. r + 1 -> 0 .. Len(wire)] :
        to = [i \in 0 .. r + 1 |-> IF i <= r THEN at[i] ELSE x]
  <2>1. [i \in 0 .. r + 1 |-> IF i <= r THEN at[i] ELSE x] \in [0 .. r + 1 -> 0 .. Len(wire)]
    OBVIOUS
  <2> QED BY <2>1
<1>8. to[r + 1] = x /\ \A i \in 0 .. r : to[i] = at[i]
  BY <1>7
<1>9. ASSUME NEW i \in 1 .. r + 1
      PROVE  /\ to[i] = to[i - 1] + Size(s[i])
             /\ Framed(wire, to[i - 1], s[i]) /\ s[i].consumed = 4
  <2>1. CASE i \in 1 .. r
    <3>1. i - 1 \in 0 .. r /\ i \in 0 .. r
      BY <2>1
    <3>2. /\ at[i] = at[i - 1] + Size(received[i])
          /\ Framed(wire, at[i - 1], received[i]) /\ received[i].consumed = 4
      BY <2>1 DEF Sliced
    <3> QED BY ONLY <1>5, <1>8, <2>1, <3>1, <3>2
  <2>2. CASE i = r + 1
    <3>1. i - 1 = r /\ r \in 0 .. r
      BY <2>2
    <3> QED BY <1>1, <1>5, <1>6, <1>8, <2>2, <3>1
  <2> QED BY <2>1, <2>2
<1>10. to[0] = 0
  BY <1>8 DEF Sliced
<1>11. Sliced(wire, s, to)
  BY ONLY <1>5, <1>9, <1>10 DEF Sliced
<1>12. Stands(x)'
  BY <1>2, <1>6 DEF Stands
<1> QED BY <1>2, <1>4, <1>5, <1>6, <1>8, <1>11, <1>12 DEF Cut

(* A Write of bytes, whole or broken off, adds to the wire.                  *)
LEMMA WriteExtends ==
  ASSUME wire \in Seq(Bytes), NEW f \in Seq(Bytes), NEW p, Write(f, p)
  PROVE  Extends(wire', wire)
BY WriteGrows DEF BrokenOff, Grown

(* Every step of the writer adds to the wire and leaves the reader alone.    *)
LEMMA WriterExtends ==
  ASSUME Inv, \/ \E n \in Lengths : WriteEncoded(n) \/ EncodeLine(n)
              \/ EncodeLineData
              \/ \E m \in Markers : EncodeFlush(m)
              \/ \E bytes \in Foreign : WriteForeign(bytes)
              \/ Close
  PROVE  Extends(wire', wire) /\ UNCHANGED reader
<1>0. wire \in Seq(Bytes) /\ Len(wire) \in Nat
  BY Sorts
<1>1. ASSUME NEW n \in Lengths
      PROVE  /\ Prefix(n + 4) \in Seq(Bytes) /\ Len(Prefix(n + 4)) = 4
             /\ Payload(n) \in Seq(Bytes) /\ Prefix(n + 4) \o Payload(n) \in Seq(Bytes)
  <2>1. n \in Nat /\ n + 4 \in Nat
    BY PktlineAssumption
  <2>2. Prefix(n + 4) \in Seq(Bytes) /\ Len(Prefix(n + 4)) = 4
    BY <2>1, PrefixDigits
  <2>3. Payload(n) \in Seq(Bytes)
    BY <2>1, PayloadBytes
  <2> QED BY <2>2, <2>3, ConcatProperties
<1>2. ASSUME NEW n \in Lengths, WriteEncoded(n) PROVE Extends(wire', wire) /\ UNCHANGED reader
  BY <1>0, <1>1, <1>2, WriteExtends DEF WriteEncoded
<1>3. ASSUME NEW n \in Lengths, EncodeLine(n) PROVE Extends(wire', wire) /\ UNCHANGED reader
  <2>1. PICK f \in Seq(Bytes) : f = Prefix(n + 4) /\ Len(f) = 4
    BY <1>1
  <2>2. ASSUME NEW k \in 0 .. 3 PROVE Extends(wire \o SubSeq(f, 1, k), wire)
    <3>1. k \in 0 .. 4
      BY ONLY k \in 0 .. 3
    <3>2. k \in 0 .. Len(f)
      BY ONLY <2>1, <3>1
    <3> QED BY <1>0, <3>2, PartWritten DEF Grown
  <2>3. Extends(wire \o f, wire)
    BY <1>0, Joined
  <2> QED BY <1>3, <2>1, <2>2, <2>3 DEF EncodeLine
<1>4. CASE EncodeLineData
  <2>1. PICK n \in Lengths : writing = <<Payload(n)>>
    BY <1>4, Sorts DEF EncodeLineData
  <2>2. PICK f \in Seq(Bytes) : f = writing[1]
    BY <1>1, <2>1
  <2> QED BY <1>0, <1>4, <2>2, WriteExtends DEF EncodeLineData
<1>5. ASSUME NEW m \in Markers, EncodeFlush(m) PROVE Extends(wire', wire) /\ UNCHANGED reader
  <2>1. PICK p \in Packets : Marker(m) = Prefix(Field(p))
    BY MarkerPrefix
  <2>2. Marker(m) \in Seq(Bytes)
    <3>1. Field(p) \in Nat
      BY PacketBytes
    <3> QED BY <2>1, <3>1, PrefixDigits
  <2> QED BY <1>0, <1>5, <2>2, WriteExtends DEF EncodeFlush
<1>6. ASSUME NEW bytes \in Foreign, WriteForeign(bytes)
      PROVE  Extends(wire', wire) /\ UNCHANGED reader
  <2>1. bytes \in Seq(Bytes)
    BY PktlineAssumption DEF Bytes
  <2> QED BY <1>0, <1>6, <2>1, Joined DEF WriteForeign
<1>7. CASE Close
  <2>1. UNCHANGED <<wire, reader>>
    BY <1>7 DEF Close
  <2> QED BY <1>0, <2>1 DEF Extends
<1> QED BY <1>2, <1>3, <1>4, <1>5, <1>6, <1>7

(* Every step keeps Cut.                                                     *)
LEMMA CutStep ==
  ASSUME Inv, Cut, [Next]_vars PROVE Cut'
<1>0. PICK r \in Nat : r = Len(received)
  BY Sorts
<1>1. PICK at \in [0 .. r -> 0 .. Len(wire)] : Sliced(wire, received, at) /\ Stands(at[r])
  BY <1>0 DEF Cut
<1>2. /\ wire \in Seq(Bytes) /\ Len(wire) \in Nat /\ pos \in 0 .. Len(wire) /\ at[r] \in Nat
  BY <1>1, Sorts
<1>3. CASE NextPrefix
  <2>1. reading = "prefix" /\ pos = at[r] /\ UNCHANGED wire
    BY <1>1, <1>3, NextPrefixReads DEF Stands, writer
  <2>2. PICK m : m = Said(wire, pos)
    OBVIOUS
  <2>3. pos' \in 0 .. Len(wire)
    BY <1>2, <1>3, <2>2, PrefixOutcomes
  <2>4. ASSUME NEW e \in {"nil", "panic"} \cup Errors, Fail(e), e = "nil" => pos' = pos
        PROVE  Cut'
    BY <2>1, <2>4, CutStops
  <2>5. ASSUME pos' = pos + 4, ~Invalid(m), Special(m) \in Markers, Yield(Special(m), <<>>)
        PROVE  Cut'
    <3>1. PICK t \in Markers \cup {"data"}, b \in Seq(Bytes) :
            t = Special(m) /\ b = <<>> /\ Len(b) = 0
      BY <2>5, EmptySeq
    <3>2. pos' = at[r] + (4 + Len(b)) /\ Yield(t, b)
      BY <1>2, <2>1, <2>5, <3>1
    <3>3. Framed(wire, at[r], Decoded(t, b, 4))
      <4>0. Decoded(t, b, 4).type = t /\ Decoded(t, b, 4).payload = b
        BY ONLY TRUE DEF Decoded
      <4>1. PICK p : p = Decoded(t, b, 4) /\ p.type = t /\ p.payload = <<>>
        BY ONLY <3>1, <4>0, Zenon
      <4>2. Framed(wire, at[r], p)
        BY <2>1, <2>2, <2>5, <3>1, <4>1 DEF Framed
      <4> QED BY ONLY <4>1, <4>2
    <3> QED BY <1>0, <1>1, <2>1, <2>3, <3>2, <3>3, CutYields
  <2>6. ASSUME pos' = pos + 4, ~Invalid(m), Special(m) = "none", reading' = "payload",
               length' = m, UNCHANGED <<result, received>>
        PROVE  Cut'
    <3>1. result # "nil"
      BY <2>1 DEF Inv, TypeOK
    <3>2. Stands(at[r])'
      BY <2>1, <2>2, <2>6, <3>1 DEF Stands
    <3> QED BY <1>0, <1>1, <2>1, <2>6, <3>2 DEF Cut
  <2> QED BY <1>2, <1>3, <2>2, <2>4, <2>5, <2>6, PrefixOutcomes, Zenon
<1>4. CASE NextPayload
  <2>1. /\ pos = at[r] + 4 /\ length = Said(wire, at[r]) /\ UNCHANGED wire
        /\ Special(length) = "none" /\ ~Invalid(length) /\ length \in Nat /\ length > 4
    <3>1. reading = "payload" /\ UNCHANGED wire
      BY <1>4 DEF NextPayload, writer
    <3>2. length \in Nat /\ length > 4
      BY <3>1, Sorts, PktlineAssumption DEF Inv
    <3> QED BY <1>1, <3>1, <3>2 DEF Stands
  <2>2. ASSUME NEW e \in {"EOF", "unexpected EOF"}, Fail(e) PROVE Cut'
    <3>1. e # "nil"
      OBVIOUS
    <3> QED BY <2>1, <2>2, <3>1, CutStops
  <2>3. ASSUME NEW b \in Seq(Bytes), b = SubSeq(wire, pos + 1, pos + (length - 4)),
               Len(b) = length - 4, pos' = pos + (length - 4), pos' \in 0 .. Len(wire),
               Yield("data", b)
        PROVE  Cut'
    <3>1. PICK t \in Markers \cup {"data"} : t = "data"
      OBVIOUS
    <3>2. /\ pos + 1 = at[r] + 5 /\ pos + (length - 4) = at[r] + length
          /\ 4 + Len(b) = length /\ pos' = at[r] + (4 + Len(b))
      <4>1. PICK a \in Nat, l \in Nat : a = at[r] /\ l = Len(b)
        BY <1>2, LenProperties
      <4>2. pos = a + 4 /\ l = length - 4 /\ length \in Nat /\ pos' = pos + (length - 4)
        BY <2>1, <2>3, <4>1
      <4>3. /\ pos + 1 = a + 5 /\ pos + (length - 4) = a + length
            /\ 4 + l = length /\ pos' = a + (4 + l)
        BY ONLY <4>2, a \in Nat, l \in Nat
      <4> QED BY ONLY <4>1, <4>3
    <3>3. Framed(wire, at[r], Decoded(t, b, 4))
      <4>0. Decoded(t, b, 4).type = t /\ Decoded(t, b, 4).payload = b
        BY ONLY TRUE DEF Decoded
      <4>1. PICK p : /\ p = Decoded(t, b, 4) /\ p.type = t /\ p.payload = b
                     /\ Size(p) = 4 + Len(b)
        BY ONLY <4>0, Zenon DEF Size
      <4>2. b = SubSeq(wire, at[r] + 5, at[r] + Size(p))
        BY ONLY <2>3, <3>2, <4>1
      <4>3. Framed(wire, at[r], p)
        BY ONLY <2>1, <3>1, <3>2, <4>1, <4>2 DEF Framed
      <4> QED BY ONLY <4>1, <4>3
    <3>4. Yield(t, b)
      BY <2>3, <3>1
    <3> QED BY <1>0, <1>1, <2>1, <2>3, <3>2, <3>3, <3>4, CutYields
  <2> QED BY <1>2, <1>4, <2>1, <2>2, <2>3, PayloadOutcomes, Zenon
<1>5. CASE UNCHANGED vars
  <2>1. UNCHANGED reader /\ Extends(wire', wire)
    BY <1>2, <1>5 DEF vars, writer, Extends
  <2> QED BY <2>1, CutGrows
<1>6. CASE Next /\ ~NextPrefix /\ ~NextPayload
  <2>1. Extends(wire', wire) /\ UNCHANGED reader
    BY <1>6, WriterExtends DEF Next
  <2> QED BY <2>1, CutGrows
<1> QED BY <1>3, <1>4, <1>5, <1>6

-----------------------------------------------------------------------------
(* What Decode finds and consumes at the place x of the first e bytes.       *)
Found(w, e, x) == Decode(SubSeq(w, x + 1, e))
Ate(w, e, x)   == Found(w, e, x).consumed

(* The offsets of DecodeAgrees, which add up what each call consumed, are    *)
(* the places at: the recursion has one solution.                            *)
LEMMA OffsetsAre ==
  ASSUME NEW N \in Nat, NEW at \in [0 .. N -> Nat], NEW w, NEW e, at[0] = 0,
         \A i \in 1 .. N : at[i] = at[i - 1] + Ate(w, e, at[i - 1])
  PROVE  (CHOOSE o : o = [i \in 0 .. N |->
                            IF i = 0 THEN 0 ELSE o[i - 1] + Ate(w, e, o[i - 1])]) = at
<1>0. Earlier(Back(N), N) /\ \A i \in 1 .. N : Back(N)[i] = i - 1
  BY BackIs
<1>1. ASSUME NEW h, h = [i \in 0 .. N |-> IF i = 0 THEN 0 ELSE h[i - 1] + Ate(w, e, h[i - 1])]
      PROVE  h = at
  <2>1. h = [i \in 0 .. N |-> h[i]] /\ h[0] = at[0]
    BY <1>1
  <2>2. ASSUME NEW i \in 1 .. N, h[Back(N)[i]] = at[Back(N)[i]] PROVE h[i] = at[i]
    <3>1. h[i] = h[i - 1] + Ate(w, e, h[i - 1]) /\ Back(N)[i] = i - 1
      BY <1>0, <1>1
    <3> QED BY <2>2, <3>1
  <2>3. Alike(h, at, N, Back(N))
    BY <2>1, <2>2 DEF Alike
  <2> QED BY <1>0, <2>3, Determined
<1>2. at = [i \in 0 .. N |-> IF i = 0 THEN 0 ELSE at[i - 1] + Ate(w, e, at[i - 1])]
  OBVIOUS
<1> QED BY ONLY <1>1, <1>2

(* Between two packets the frames of what was received are found again by    *)
(* calls of Decode that each start where the one before it ended.            *)
LEMMA FoundAgain ==
  ASSUME Inv, Cut, reading = "prefix" \/ result = "nil"
  PROVE  \E at \in [0 .. Len(received) -> Nat] :
           /\ at[0] = 0 /\ at[Len(received)] = pos
           /\ \A i \in 1 .. Len(received) :
                /\ at[i] = at[i - 1] + Ate(wire, pos, at[i - 1])
                /\ received[i] = Decoded(Found(wire, pos, at[i - 1]).type,
                                         Found(wire, pos, at[i - 1]).payload, 4)
<1>0. PICK r \in Nat : r = Len(received)
  BY Sorts
<1>1. PICK at \in [0 .. r -> 0 .. Len(wire)] : Sliced(wire, received, at) /\ Stands(at[r])
  BY <1>0 DEF Cut
<1>2. /\ wire \in Seq(Bytes) /\ Len(wire) \in Nat /\ received \in Seq(Returned)
      /\ pos \in Nat /\ pos <= Len(wire)
  BY Sorts
<1>3. at \in [0 .. r -> Nat] /\ at[r] = pos /\ at[0] = 0
  BY <1>1, <1>2 DEF Stands, Sliced
<1>4. ASSUME NEW i \in 1 .. r
      PROVE  /\ i - 1 \in 0 .. r /\ i \in 0 .. r /\ received[i] \in Returned
             /\ at[i] = at[i - 1] + Size(received[i]) /\ Framed(wire, at[i - 1], received[i])
             /\ received[i].consumed = 4 /\ Size(received[i]) \in Nat
  <2>1. PICK p \in Returned : p = received[i]
    BY <1>0, <1>2, ElementOfSeq
  <2>2. Size(p) \in Nat
    <3>1. Len(p.payload) \in Nat
      BY LenProperties DEF Returned
    <3> QED BY <3>1 DEF Size
  <2> QED BY <1>0, <1>1, <2>1, <2>2 DEF Sliced
<1>5. \A i \in 0 .. r : at[i] <= at[r]
  <2>1. ASSUME NEW i \in 1 .. r PROVE at[i - 1] <= at[i]
    <3>1. PICK x \in Nat, y \in Nat, z \in Nat :
            x = at[i - 1] /\ y = at[i] /\ z = Size(received[i])
      BY <1>3, <1>4
    <3>2. y = x + z
      BY ONLY <1>4, <3>1, i \in 1 .. r
    <3>3. x <= y
      BY ONLY <3>2, x \in Nat, z \in Nat
    <3> QED BY ONLY <3>1, <3>3
  <2> QED BY ONLY r \in Nat, <1>3, <2>1, FramesInOrder
<1>6. ASSUME NEW i \in 1 .. r
      PROVE  /\ at[i] = at[i - 1] + Ate(wire, pos, at[i - 1])
             /\ received[i] = Decoded(Found(wire, pos, at[i - 1]).type,
                                      Found(wire, pos, at[i - 1]).payload, 4)
  <2>1. PICK p \in Returned : p = received[i]
    BY <1>4
  <2>2. PICK a \in Nat : a = at[i - 1]
    BY <1>3, <1>4
  <2>3. Framed(wire, a, p) /\ at[i] = a + Size(p) /\ a + Size(p) <= pos /\ p.consumed = 4
    BY ONLY <1>3, <1>4, <1>5, <2>1, <2>2, i \in 1 .. r
  <2>4. Found(wire, pos, a) = Decoded(p.type, p.payload, Size(p))
    BY ONLY <1>2, <2>3, p \in Returned, a \in Nat, DecodesAt DEF Found
  <2>5. PICK f : f = Found(wire, pos, a)
    OBVIOUS
  <2>6. f.type = p.type /\ f.payload = p.payload /\ f.consumed = Size(p)
    BY ONLY <2>4, <2>5 DEF Decoded
  <2>7. Decoded(f.type, f.payload, 4) = p
    BY ONLY <2>3, <2>6, p \in Returned DEF Decoded, Returned
  <2>8. Ate(wire, pos, a) = Size(p)
    BY ONLY <2>5, <2>6 DEF Ate
  <2>9. /\ received[i] = Decoded(f.type, f.payload, 4)
        /\ at[i] = at[i - 1] + Ate(wire, pos, at[i - 1])
    BY ONLY <2>1, <2>2, <2>3, <2>7, <2>8
  <2>10. Found(wire, pos, at[i - 1]) = f
    BY ONLY <2>2, <2>5
  <2> QED BY ONLY <2>9, <2>10
<1> QED BY ONLY <1>0, <1>3, <1>6

(* So the calls of Decode return what Next has returned.                     *)
LEMMA DecodeAgreesGiven ==
  ASSUME Inv, Cut PROVE DecodeAgrees
<1> SUFFICES ASSUME reading = "prefix" \/ result = "nil" PROVE DecodeAgrees
  BY DEF DecodeAgrees
<1>1. PICK r \in Nat : r = Len(received)
  BY Sorts
<1>2. PICK at \in [0 .. r -> Nat] :
        /\ at[0] = 0 /\ at[r] = pos
        /\ \A i \in 1 .. r :
             /\ at[i] = at[i - 1] + Ate(wire, pos, at[i - 1])
             /\ received[i] = Decoded(Found(wire, pos, at[i - 1]).type,
                                      Found(wire, pos, at[i - 1]).payload, 4)
  BY <1>1, FoundAgain
<1>3. PICK o : o = CHOOSE h : h = [i \in 0 .. r |->
                         IF i = 0 THEN 0 ELSE h[i - 1] + Ate(wire, pos, h[i - 1])]
  OBVIOUS
<1>4. o = at
  BY ONLY <1>2, <1>3, r \in Nat, OffsetsAre
<1>5. /\ o[r] = pos
      /\ \A i \in 1 .. r :
           received[i] = Decoded(Found(wire, pos, o[i - 1]).type,
                                 Found(wire, pos, o[i - 1]).payload, 4)
  BY ONLY <1>2, <1>4
<1> QED BY ONLY <1>1, <1>3, <1>5 DEF DecodeAgrees, Found, Ate

(* Cut holds in every state.                                                 *)
LEMMA CutAlways == Spec => []Cut
<1>1. Init => Cut
  <2> SUFFICES ASSUME Init PROVE Cut
    OBVIOUS
  <2> DEFINE at == [i \in 0 .. 0 |-> 0]
  <2>1. at \in [0 .. 0 -> 0 .. 0] /\ at[0] = 0
    OBVIOUS
  <2> HIDE DEF at
  <2>2. Sliced(wire, received, at) /\ Stands(at[0])
    BY <2>1 DEF Init, Sliced, Stands
  <2> QED BY <2>1, <2>2 DEF Init, Cut
<1>2. Inv /\ Cut /\ [Next]_vars => Cut'
  BY CutStep
<1> QED BY <1>1, <1>2, Invariance, PTL DEF Spec

(* The two readers of package pktline agree on where each packet begins, on  *)
(* its type and on its payload, whoever wrote the bytes, for every base,     *)
(* limit and payload: Decode, continued behind what it consumed, finds what  *)
(* PktLineStream.Next has returned.  They differ in Consumed, which Next     *)
(* leaves at 4.                                                              *)
THEOREM DecodeAgreesHolds == Spec => []DecodeAgrees
<1>1. Inv /\ Cut => DecodeAgrees
  BY DecodeAgreesGiven
<1> QED BY <1>1, Invariance, CutAlways, PTL

-----------------------------------------------------------------------------
(* base58btc: numbers and their digits *)

(* g[i] is the number that the first i of the digits s make.                 *)
Sums(g, s, N, b) == g[0] = 0 /\ \A i \in 1 .. N : g[i] = g[i - 1] * b + s[i]

(* What Append makes of a sequence.                                          *)
LEMMA Appended ==
  ASSUME NEW S, NEW s \in Seq(S), NEW x \in S
  PROVE  /\ Len(s) \in Nat /\ Append(s, x) \in Seq(S) /\ Len(Append(s, x)) = Len(s) + 1
         /\ Append(s, x)[Len(s) + 1] = x /\ \A i \in 1 .. Len(s) : Append(s, x)[i] = s[i]
OBVIOUS

(* The number of a text is the last of the sums of its beginnings: the loop  *)
(* of Base58Decode over big.Int, and SetBytes in Base58Encode.               *)
LEMMA NumberDef ==
  ASSUME NEW s \in Seq(Nat), NEW b \in Nat
  PROVE \E g \in [0 .. Len(s) -> Nat] : Sums(g, s, Len(s), b) /\ Number(s, b) = g[Len(s)]
<1> SUFFICES ASSUME NEW N \in Nat, N = Len(s)
             PROVE \E g \in [0 .. N -> Nat] : Sums(g, s, N, b) /\ Number(s, b) = g[N]
  <2>1. Len(s) \in Nat
    OBVIOUS
  <2> QED BY <2>1
<1>0. Earlier(Back(N), N) /\ \A i \in 1 .. N : Back(N)[i] = i - 1
  BY BackIs
<1>1. PICK g \in [0 .. N -> Nat] : g[0] = 0 /\ \A i \in 1 .. N : g[i] = g[i - 1] * b + s[i]
  <2> DEFINE step == [i \in 1 .. N |-> [v \in Nat |-> v * b + s[i]]]
  <2>1. step \in [1 .. N -> [Nat -> Nat]]
    OBVIOUS
  <2>2. \A i \in 1 .. N, v \in Nat : step[i][v] = v * b + s[i]
    OBVIOUS
  <2> HIDE DEF step
  <2>3. PICK g \in [0 .. N -> Nat] : Follows(g, N, 0, Back(N), step)
    <3>1. 0 \in Nat
      OBVIOUS
    <3> QED BY <1>0, <2>1, <3>1, Recursion
  <2>4. ASSUME NEW i \in 1 .. N PROVE g[i] = g[i - 1] * b + s[i]
    <3>0. i - 1 \in 0 .. N
      OBVIOUS
    <3>1. Back(N)[i] = i - 1 /\ g[i - 1] \in Nat
      BY ONLY <1>0, <3>0, i \in 1 .. N, g \in [0 .. N -> Nat], Zenon
    <3>2. g[i] = step[i][g[i - 1]]
      BY <2>3, <3>1 DEF Follows
    <3> QED BY <2>2, <3>1, <3>2
  <2>5. g[0] = 0
    BY <2>3 DEF Follows
  <2> QED BY <2>4, <2>5
<1>2. ASSUME NEW h, h = [i \in 0 .. N |-> IF i = 0 THEN 0 ELSE h[i - 1] * b + s[i]]
      PROVE  h = g
  <2>1. h = [i \in 0 .. N |-> h[i]] /\ h[0] = g[0]
    BY <1>1, <1>2
  <2>2. ASSUME NEW i \in 1 .. N, h[Back(N)[i]] = g[Back(N)[i]] PROVE h[i] = g[i]
    <3>1. h[i] = h[i - 1] * b + s[i] /\ Back(N)[i] = i - 1
      BY <1>0, <1>2, SMTT(30)
    <3> QED BY <1>1, <2>2, <3>1
  <2>3. Alike(h, g, N, Back(N))
    BY <2>1, <2>2 DEF Alike
  <2> QED BY <1>0, <2>3, Determined
<1>3. g = [i \in 0 .. N |-> IF i = 0 THEN 0 ELSE g[i - 1] * b + s[i]]
  BY <1>1
<1>4. (CHOOSE n : n = [i \in 0 .. N |-> IF i = 0 THEN 0 ELSE n[i - 1] * b + s[i]]) = g
  BY ONLY <1>2, <1>3
<1>5. Number(s, b) = g[N]
  BY <1>4 DEF Number
<1>6. Sums(g, s, N, b)
  BY <1>1 DEF Sums
<1> QED BY <1>5, <1>6

(* A text without digits stands for 0.                                       *)
LEMMA NumberEmpty == ASSUME NEW b \in Nat PROVE Number(<<>>, b) = 0
<1>1. <<>> \in Seq(Nat) /\ Len(<<>>) = 0 /\ 0 \in Nat
  OBVIOUS
<1>2. PICK g \in [0 .. Len(<<>>) -> Nat] :
        Sums(g, <<>>, Len(<<>>), b) /\ Number(<<>>, b) = g[Len(<<>>)]
  BY <1>1, NumberDef, Zenon
<1> QED BY <1>1, <1>2 DEF Sums

(* The last digit of a text is worth itself, the others b times as much.     *)
LEMMA NumberAppend ==
  ASSUME NEW s \in Seq(Nat), NEW x \in Nat, NEW b \in Nat
  PROVE  Number(s, b) \in Nat /\ Number(Append(s, x), b) = Number(s, b) * b + x
<1>1. PICK t, N : t = Append(s, x) /\ N = Len(s)
  OBVIOUS
<1>2. /\ N \in Nat /\ N + 1 \in Nat /\ t \in Seq(Nat) /\ Len(t) = N + 1
      /\ t[N + 1] = x /\ \A i \in 1 .. N : t[i] = s[i]
  BY <1>1, Appended
<1>3. PICK g \in [0 .. N -> Nat] : Sums(g, s, N, b) /\ Number(s, b) = g[N]
  <2>1. \E g \in [0 .. Len(s) -> Nat] : Sums(g, s, Len(s), b) /\ Number(s, b) = g[Len(s)]
    BY NumberDef, Zenon
  <2> QED BY ONLY <1>1, <2>1
<1>4. PICK h \in [0 .. N + 1 -> Nat] : Sums(h, t, N + 1, b) /\ Number(t, b) = h[N + 1]
  <2>1. \E h \in [0 .. Len(t) -> Nat] : Sums(h, t, Len(t), b) /\ Number(t, b) = h[Len(t)]
    BY <1>2, NumberDef, Zenon
  <2> QED BY ONLY <1>2, <2>1
<1>5. g[N] = h[N]
  <2> DEFINE S == {i \in 0 .. N : g[i] = h[i]}
  <2>1. 0 \in S
    BY <1>2, <1>3, <1>4 DEF Sums
  <2>2. ASSUME NEW i \in 1 .. N, Back(N)[i] \in S PROVE i \in S
    <3>1. i - 1 \in S
      BY <1>2, <2>2, BackIs
    <3>2. g[i] = g[i - 1] * b + s[i]
      BY <1>3 DEF Sums
    <3>3. h[i] = h[i - 1] * b + t[i]
      BY <1>2, <1>4 DEF Sums
    <3> QED BY <1>2, <3>1, <3>2, <3>3
  <2>3. \A i \in 0 .. N : i \in S
    <3>1. Earlier(Back(N), N)
      BY <1>2, BackIs
    <3> HIDE DEF S
    <3> QED BY <1>2, <2>1, <2>2, <3>1, EarlierInduction
  <2> QED BY <1>2, <2>3
<1>6. h[N + 1] = h[N] * b + x
  BY <1>2, <1>4 DEF Sums
<1> QED BY <1>1, <1>2, <1>3, <1>4, <1>5, <1>6

-----------------------------------------------------------------------------
(* Digits *)

(* Division by a base of 2 or more, and that it makes a number smaller: the  *)
(* loop of Base58Encode ends.                                                *)
LEMMA Division ==
  ASSUME NEW n \in Nat, NEW b \in Nat, 1 < b
  PROVE  /\ n \div b \in Nat /\ n % b \in 0 .. b - 1 /\ n = (n \div b) * b + (n % b)
         /\ n > 0 => n \div b < n
         /\ n \div b = 0 => n % b = n
OBVIOUS

(* The quotient and the remainder of a number given by them.                 *)
LEMMA Divided ==
  ASSUME NEW b \in Nat, 1 < b, NEW m \in Nat, NEW x \in 0 .. b - 1
  PROVE  (m * b + x) \div b = m /\ (m * b + x) % b = x
OBVIOUS

(* d[i] is the text of the number i.                                         *)
Spells(d, n, b) == d[0] = <<>> /\ \A i \in 1 .. n : d[i] = Append(d[i \div b], i % b)

(* The digits of a number come from those of its quotient.                   *)
LEMMA DigitsDef ==
  ASSUME NEW n \in Nat, NEW b \in Nat, 1 < b
  PROVE  \E d \in [0 .. n -> Seq(0 .. b - 1)] : Spells(d, n, b) /\ Digits(n, b) = d[n]
<1> DEFINE T == Seq(0 .. b - 1)
           p == [i \in 1 .. n |-> i \div b]
           step == [i \in 1 .. n |-> [v \in T |-> Append(v, i % b)]]
<1>1. \A i \in 1 .. n : i \div b \in Nat /\ i \div b < i /\ i % b \in 0 .. b - 1
  BY Division
<1>2. Earlier(p, n) /\ \A i \in 1 .. n : p[i] = i \div b
  BY <1>1 DEF Earlier
<1>3. step \in [1 .. n -> [T -> T]] /\ <<>> \in T
  <2>1. \A i \in 1 .. n, v \in T : Append(v, i % b) \in T
    BY <1>1, Appended
  <2> HIDE DEF T
  <2>2. step \in [1 .. n -> [T -> T]]
    BY <2>1
  <2> QED BY <2>2 DEF T
<1>4. \A i \in 1 .. n, v \in T : step[i][v] = Append(v, i % b)
  <2> HIDE DEF T
  <2> QED OBVIOUS
<1> HIDE DEF T, p, step
<1>5. PICK d \in [0 .. n -> T] : Follows(d, n, <<>>, p, step)
  BY <1>2, <1>3, Recursion, Zenon
<1>6. ASSUME NEW i \in 1 .. n PROVE d[i] = Append(d[i \div b], i % b)
  <2>1. p[i] = i \div b /\ d[i] = step[i][d[p[i]]]
    BY <1>2, <1>5, Zenon DEF Follows
  <2>2. i \div b \in 0 .. n
    <3>1. i \div b \in Nat /\ i \div b < i
      BY <1>1
    <3> QED BY <3>1
  <2>3. d[i \div b] \in T
    BY <2>2
  <2> QED BY <1>4, <2>1, <2>3, Zenon
<1>7. d[0] = <<>>
  BY <1>5 DEF Follows
<1>8. ASSUME NEW h, h = [i \in 0 .. n |-> IF i = 0 THEN <<>> ELSE Append(h[i \div b], i % b)]
      PROVE  h = d
  <2>1. h = [i \in 0 .. n |-> h[i]] /\ h[0] = <<>>
    BY <1>8
  <2>2. ASSUME NEW i \in 1 .. n, h[p[i]] = d[p[i]] PROVE h[i] = d[i]
    <3>0. i \in 0 .. n /\ i # 0
      OBVIOUS
    <3>1. h[i] = Append(h[i \div b], i % b)
      BY ONLY <1>8, <3>0, Zenon
    <3> QED BY <1>2, <1>6, <2>2, <3>1, Zenon
  <2>3. d = [i \in 0 .. n |-> d[i]]
    OBVIOUS
  <2>4. Alike(h, d, n, p)
    BY <1>7, <2>1, <2>2, <2>3, Zenon DEF Alike
  <2> QED BY <1>2, <2>4, Determined, Zenon
<1>9. d = [i \in 0 .. n |-> IF i = 0 THEN <<>> ELSE Append(d[i \div b], i % b)]
  <2>1. \A i \in 0 .. n : i = 0 \/ i \in 1 .. n
    OBVIOUS
  <2>2. \A i \in 0 .. n : d[i] = IF i = 0 THEN <<>> ELSE Append(d[i \div b], i % b)
    BY <1>6, <1>7, <2>1, Zenon
  <2> QED BY ONLY <2>2, d \in [0 .. n -> T], Zenon
<1>10. (CHOOSE h : h = [i \in 0 .. n |-> IF i = 0 THEN <<>> ELSE Append(h[i \div b], i % b)]) = d
  BY ONLY <1>8, <1>9
<1>11. Digits(n, b) = d[n]
  BY <1>10 DEF Digits
<1>12. Spells(d, n, b)
  BY <1>6, <1>7, Zenon DEF Spells
<1> QED BY <1>11, <1>12 DEF T

(* The predecessor of a number in the recursion of Digits.                   *)
Quotients(n, b) == [i \in 1 .. n |-> i \div b]

(* The quotient of a number is an earlier one.                               *)
LEMMA QuotientsEarlier ==
  ASSUME NEW n \in Nat, NEW b \in Nat, 1 < b
  PROVE  Earlier(Quotients(n, b), n) /\ \A i \in 1 .. n : Quotients(n, b)[i] = i \div b
<1>1. \A i \in 1 .. n : i \div b \in Nat /\ i \div b < i
  BY Division
<1> QED BY <1>1 DEF Earlier, Quotients

(* 0 has no digits.                                                          *)
LEMMA DigitsZero == ASSUME NEW b \in Nat, 1 < b PROVE Digits(0, b) = <<>>
<1>1. PICK d \in [0 .. 0 -> Seq(0 .. b - 1)] : Spells(d, 0, b) /\ Digits(0, b) = d[0]
  BY DigitsDef, 0 \in Nat, Zenon
<1> QED BY <1>1, Zenon DEF Spells

(* The digits of another number are those of its quotient and its remainder. *)
LEMMA DigitsStep ==
  ASSUME NEW n \in Nat, NEW b \in Nat, 1 < b
  PROVE  /\ Digits(n, b) \in Seq(0 .. b - 1)
         /\ n > 0 => Digits(n, b) = Append(Digits(n \div b, b), n % b)
<1>1. PICK d \in [0 .. n -> Seq(0 .. b - 1)] : Spells(d, n, b) /\ Digits(n, b) = d[n]
  BY DigitsDef
<1>2. Digits(n, b) \in Seq(0 .. b - 1)
  <2>1. n \in 0 .. n
    OBVIOUS
  <2> QED BY <1>1, <2>1, Zenon
<1>3. ASSUME n > 0 PROVE Digits(n, b) = Append(Digits(n \div b, b), n % b)
  <2>1. PICK m \in Nat : m = n \div b /\ m < n
    BY <1>3, Division
  <2>2. PICK e \in [0 .. m -> Seq(0 .. b - 1)] : Spells(e, m, b) /\ Digits(m, b) = e[m]
    BY DigitsDef
  <2> DEFINE S == {i \in 0 .. m : d[i] = e[i]}
  <2>3. 0 \in S
    <3>1. d[0] = e[0] /\ 0 \in 0 .. m
      BY <1>1, <2>2 DEF Spells
    <3> QED BY <3>1
  <2>4. ASSUME NEW i \in 1 .. m, Quotients(m, b)[i] \in S PROVE i \in S
    <3>1. i \in 0 .. m /\ i \in 1 .. n
      BY <2>1
    <3>2. Quotients(m, b)[i] = i \div b
      BY QuotientsEarlier
    <3>3. d[i \div b] = e[i \div b]
      BY <2>4, <3>2
    <3>4. d[i] = Append(d[i \div b], i % b) /\ e[i] = Append(e[i \div b], i % b)
      BY <1>1, <2>2, <3>1, Zenon DEF Spells
    <3> QED BY <3>1, <3>3, <3>4, Zenon
  <2>5. \A i \in 0 .. m : i \in S
    <3>1. Earlier(Quotients(m, b), m)
      BY QuotientsEarlier
    <3> HIDE DEF S
    <3> QED BY <2>3, <2>4, <3>1, EarlierInduction
  <2>6. d[m] = e[m]
    BY <2>5
  <2>7. n \in 1 .. n
    BY <1>3
  <2>8. d[n] = Append(d[n \div b], n % b)
    BY <1>1, <2>7, Zenon DEF Spells
  <2> QED BY <1>1, <2>1, <2>2, <2>6, <2>8, Zenon
<1> QED BY <1>2, <1>3

(* A number, the one without its last digit, and that digit.                 *)
LEMMA DigitsLast ==
  ASSUME NEW n \in Nat, n > 0, NEW b \in Nat, 1 < b
  PROVE  \E m \in Nat, x \in 0 .. b - 1 :
           /\ m = n \div b /\ n = m * b + x /\ (m = 0 => x = n)
           /\ Digits(n, b) = Append(Digits(m, b), x) /\ Digits(m, b) \in Seq(0 .. b - 1)
<1>1. PICK m, x : m = n \div b /\ x = n % b
  OBVIOUS
<1>2. m \in Nat /\ x \in 0 .. b - 1 /\ n = m * b + x /\ (m = 0 => x = n)
  BY <1>1, Division
<1>3. Digits(n, b) = Append(Digits(m, b), x)
  BY <1>1, DigitsStep, Zenon
<1>4. Digits(m, b) \in Seq(0 .. b - 1)
  BY <1>2, DigitsStep, Zenon
<1> QED BY <1>1, <1>2, <1>3, <1>4, Zenon

(* The digits of a number stand for it.                                      *)
LEMMA NumberOfDigits ==
  ASSUME NEW n \in Nat, NEW b \in Nat, 1 < b
  PROVE  Number(Digits(n, b), b) = n
<1> DEFINE S == {i \in 0 .. n : Number(Digits(i, b), b) = i}
<1>1. 0 \in S
  BY DigitsZero, NumberEmpty
<1>2. ASSUME NEW i \in 1 .. n, Quotients(n, b)[i] \in S PROVE i \in S
  <2>1. Quotients(n, b)[i] = i \div b
    BY QuotientsEarlier
  <2>2. PICK m \in Nat, x \in 0 .. b - 1 :
          /\ m = i \div b /\ i = m * b + x /\ (m = 0 => x = i)
          /\ Digits(i, b) = Append(Digits(m, b), x) /\ Digits(m, b) \in Seq(0 .. b - 1)
    <3>1. i \in Nat /\ i > 0
      OBVIOUS
    <3> QED BY <3>1, DigitsLast, Zenon
  <2>3. Number(Digits(m, b), b) = m
    BY <1>2, <2>1, <2>2
  <2>4. Digits(i, b) = Append(Digits(m, b), x) /\ Digits(m, b) \in Seq(0 .. b - 1)
    BY <2>2
  <2>5. Digits(m, b) \in Seq(Nat) /\ x \in Nat
    BY <2>4
  <2>6. Number(Digits(i, b), b) = m * b + x
    BY <2>3, <2>4, <2>5, NumberAppend
  <2> QED BY <2>2, <2>6
<1>3. \A i \in 0 .. n : i \in S
  <2>1. Earlier(Quotients(n, b), n)
    BY QuotientsEarlier
  <2> HIDE DEF S
  <2> QED BY <1>1, <1>2, <2>1, EarlierInduction
<1> QED BY <1>3

(* They begin with another digit than 0.                                     *)
LEMMA DigitsBegin ==
  ASSUME NEW n \in Nat \ {0}, NEW b \in Nat, 1 < b
  PROVE  Digits(n, b) # <<>> /\ Digits(n, b)[1] # 0
<1> DEFINE Good(i) == Digits(i, b) # <<>> /\ Digits(i, b)[1] # 0
           S == {i \in 0 .. n : i = 0 \/ Good(i)}
<1>1. 0 \in S
  <2> HIDE DEF Good
  <2> QED OBVIOUS
<1>2. ASSUME NEW i \in 1 .. n, Quotients(n, b)[i] \in S PROVE i \in S
  <2>1. Quotients(n, b)[i] = i \div b
    BY QuotientsEarlier
  <2>2. PICK m \in Nat, x \in 0 .. b - 1 :
          /\ m = i \div b /\ i = m * b + x /\ (m = 0 => x = i)
          /\ Digits(i, b) = Append(Digits(m, b), x) /\ Digits(m, b) \in Seq(0 .. b - 1)
    <3>1. i \in Nat /\ i > 0
      OBVIOUS
    <3> QED BY <3>1, DigitsLast, Zenon
  <2>3. Digits(i, b) = Append(Digits(m, b), x) /\ Digits(m, b) \in Seq(0 .. b - 1)
    BY <2>2
  <2>4. m = 0 \/ Good(m)
    <3> HIDE DEF Good
    <3> QED BY <1>2, <2>1, <2>2
  <2>5. CASE m = 0
    <3>1. Digits(m, b) = <<>>
      BY <2>5, DigitsZero
    <3> QED BY <2>2, <2>3, <2>5, <3>1
  <2>6. CASE m # 0
    BY <2>3, <2>4, <2>6
  <2> QED BY <2>5, <2>6
<1>3. \A i \in 0 .. n : i \in S
  <2>1. Earlier(Quotients(n, b), n)
    BY QuotientsEarlier
  <2> HIDE DEF S
  <2> QED BY <1>1, <1>2, <2>1, EarlierInduction
<1> QED BY <1>3

(* The beginnings of a sequence grow by one element at a time.               *)
LEMMA Beginnings ==
  ASSUME NEW S, NEW s \in Seq(S)
  PROVE  /\ Len(s) \in Nat /\ SubSeq(s, 1, 0) = <<>> /\ SubSeq(s, 1, Len(s)) = s
         /\ \A k \in 0 .. Len(s) : SubSeq(s, 1, k) \in Seq(S)
         /\ \A k \in 1 .. Len(s) : SubSeq(s, 1, k) = Append(SubSeq(s, 1, k - 1), s[k])
<1>1. Len(s) \in Nat /\ SubSeq(s, 1, 0) = <<>> /\ SubSeq(s, 1, Len(s)) = s
  OBVIOUS
<1>2. \A k \in 0 .. Len(s) : SubSeq(s, 1, k) \in Seq(S) /\ Len(SubSeq(s, 1, k)) = k
  OBVIOUS
<1>3. ASSUME NEW k \in 1 .. Len(s) PROVE SubSeq(s, 1, k) = Append(SubSeq(s, 1, k - 1), s[k])
  OBVIOUS
<1> QED BY <1>1, <1>2, <1>3

(* A text that begins with another digit than 0 is the one of its number.    *)
LEMMA DigitsOfNumber ==
  ASSUME NEW b \in Nat, 1 < b, NEW s \in Seq(0 .. b - 1), s # <<>> => s[1] # 0
  PROVE  Digits(Number(s, b), b) = s
<1> DEFINE Good(u) == /\ Digits(Number(u, b), b) = u
                      /\ u # <<>> => Number(u, b) > 0
           S == {k \in 0 .. Len(s) : Good(SubSeq(s, 1, k))}
<1>0. Len(s) \in Nat /\ SubSeq(s, 1, 0) = <<>> /\ SubSeq(s, 1, Len(s)) = s
  BY Beginnings
<1>1. Good(SubSeq(s, 1, 0))
  BY <1>0, NumberEmpty, DigitsZero
<1>2. ASSUME NEW k \in 1 .. Len(s), Good(SubSeq(s, 1, k - 1)) PROVE Good(SubSeq(s, 1, k))
  <2>1. PICK u, x, v : u = SubSeq(s, 1, k - 1) /\ x = s[k] /\ v = SubSeq(s, 1, k)
    OBVIOUS
  <2>2. u \in Seq(0 .. b - 1) /\ x \in 0 .. b - 1 /\ v = Append(u, x) /\ Len(u) = k - 1
    <3>1. k - 1 \in 0 .. Len(s)
      OBVIOUS
    <3> QED BY <2>1, <3>1, Beginnings, SMTT(30)
  <2>3. u \in Seq(Nat) /\ x \in Nat /\ v # <<>>
    BY <2>2, SMTT(30)
  <2>4. PICK m \in Nat : m = Number(u, b)
    BY <2>3, NumberAppend
  <2>5. Number(v, b) = m * b + x
    BY <2>2, <2>3, <2>4, NumberAppend
  <2>6. m > 0 \/ x > 0
    <3>1. CASE k = 1
      BY <1>0, <2>1, <2>2, <3>1
    <3>2. CASE k > 1
      <4>1. u # <<>>
        BY <2>2, <3>2
      <4> QED BY <1>2, <2>1, <2>4, <4>1
    <3> QED BY <3>1, <3>2
  <2>7. m * b + x \in Nat /\ m * b + x > 0
    <3>1. m * b \in Nat /\ (m > 0 => m * b > 0)
      BY ONLY m \in Nat, b \in Nat, 1 < b
    <3> QED BY ONLY <2>3, <2>4, <2>6, <3>1, SMTT(30)
  <2>8. (m * b + x) \div b = m /\ (m * b + x) % b = x
    BY <2>2, <2>4, Divided
  <2>9. Digits(m * b + x, b) = Append(Digits(m, b), x)
    BY <2>7, <2>8, DigitsStep
  <2>10. Digits(m, b) = u
    BY <1>2, <2>1, <2>4
  <2>11. Digits(Number(v, b), b) = v /\ Number(v, b) > 0
    BY <2>2, <2>5, <2>7, <2>9, <2>10
  <2> QED BY <2>1, <2>11
<1>3. 0 \in S /\ \A k \in 1 .. Len(s) : Back(Len(s))[k] \in S => k \in S
  <2> HIDE DEF Good
  <2>1. \A k \in 1 .. Len(s) : Back(Len(s))[k] = k - 1
    BY <1>0, BackIs
  <2> QED BY <1>0, <1>1, <1>2, <2>1
<1>4. \A k \in 0 .. Len(s) : k \in S
  <2>1. Earlier(Back(Len(s)), Len(s))
    BY <1>0, BackIs
  <2> HIDE DEF S
  <2> QED BY <1>0, <1>3, <2>1, EarlierInduction
<1>5. Good(SubSeq(s, 1, Len(s)))
  <2> HIDE DEF Good
  <2> QED BY <1>0, <1>4
<1> QED BY <1>0, <1>5

-----------------------------------------------------------------------------
(* Leading zeros *)

(* Zeros are digits.                                                         *)
LEMMA ZerosIs ==
  ASSUME NEW z \in Nat, NEW b \in Nat, 1 < b
  PROVE  /\ Zeros(z) \in Seq(0 .. b - 1) /\ Len(Zeros(z)) = z
         /\ \A i \in 1 .. z : Zeros(z)[i] = 0
BY DEF Zeros

(* Zeros stand for 0.                                                        *)
LEMMA NumberZeros ==
  ASSUME NEW z \in Nat, NEW b \in Nat, 1 < b PROVE Number(Zeros(z), b) = 0
<1> DEFINE S == {k \in Nat : Number(Zeros(k), b) = 0}
<1>1. 0 \in S
  <2>1. Zeros(0) = <<>>
    BY DEF Zeros
  <2> QED BY <2>1, NumberEmpty
<1>2. ASSUME NEW k \in Nat, k \in S PROVE k + 1 \in S
  <2>1. Zeros(k) \in Seq(Nat) /\ Zeros(k + 1) = Append(Zeros(k), 0)
    BY DEF Zeros
  <2>2. Number(Zeros(k + 1), b) = Number(Zeros(k), b) * b + 0
    BY <2>1, NumberAppend, 0 \in Nat, Zenon
  <2> QED BY <1>2, <2>2
<1>3. z \in S
  <2> HIDE DEF S
  <2> QED BY <1>1, <1>2, Induction
<1> QED BY <1>3

(* Zeros in front of a text do not change its number: Base58Encode and       *)
(* Base58Decode have to carry them over on their own.                        *)
LEMMA NumberPadded ==
  ASSUME NEW z \in Nat, NEW b \in Nat, 1 < b, NEW s \in Seq(0 .. b - 1)
  PROVE  Number(Zeros(z) \o s, b) = Number(s, b)
<1> DEFINE Good(u) == Number(Zeros(z) \o u, b) = Number(u, b)
           S == {k \in 0 .. Len(s) : Good(SubSeq(s, 1, k))}
<1>0. Len(s) \in Nat /\ SubSeq(s, 1, 0) = <<>> /\ SubSeq(s, 1, Len(s)) = s
  BY Beginnings
<1>1. Good(SubSeq(s, 1, 0))
  <2>1. Zeros(z) \o <<>> = Zeros(z)
    BY ZerosIs
  <2> QED BY <1>0, <2>1, NumberEmpty, NumberZeros
<1>2. ASSUME NEW k \in 1 .. Len(s), Good(SubSeq(s, 1, k - 1)) PROVE Good(SubSeq(s, 1, k))
  <2>1. PICK u, x, v : u = SubSeq(s, 1, k - 1) /\ x = s[k] /\ v = SubSeq(s, 1, k)
    OBVIOUS
  <2>2. u \in Seq(0 .. b - 1) /\ x \in 0 .. b - 1 /\ v = Append(u, x)
    <3>1. k - 1 \in 0 .. Len(s)
      OBVIOUS
    <3> QED BY <2>1, <3>1, Beginnings
  <2>3. u \in Seq(Nat) /\ x \in Nat /\ Zeros(z) \in Seq(Nat)
    BY <2>2 DEF Zeros
  <2>4. Zeros(z) \o u \in Seq(Nat) /\ Zeros(z) \o v = Append(Zeros(z) \o u, x)
    <3>1. PICK o : o = Zeros(z)
      OBVIOUS
    <3>2. o \o u \in Seq(Nat) /\ o \o Append(u, x) = Append(o \o u, x)
      BY ONLY <2>3, <3>1, SMTT(30)
    <3> QED BY ONLY <2>2, <3>1, <3>2
  <2>5. Number(Zeros(z) \o v, b) = Number(Zeros(z) \o u, b) * b + x
    BY <2>3, <2>4, NumberAppend
  <2>6. Number(v, b) = Number(u, b) * b + x
    BY <2>2, <2>3, NumberAppend
  <2> QED BY <1>2, <2>1, <2>5, <2>6
<1>3. 0 \in S /\ \A k \in 1 .. Len(s) : Back(Len(s))[k] \in S => k \in S
  <2> HIDE DEF Good
  <2>1. \A k \in 1 .. Len(s) : Back(Len(s))[k] = k - 1
    BY <1>0, BackIs
  <2> QED BY <1>0, <1>1, <1>2, <2>1
<1>4. \A k \in 0 .. Len(s) : k \in S
  <2>1. Earlier(Back(Len(s)), Len(s))
    BY <1>0, BackIs
  <2> HIDE DEF S
  <2> QED BY <1>0, <1>3, <2>1, EarlierInduction
<1>5. Good(SubSeq(s, 1, Len(s)))
  <2> HIDE DEF Good
  <2> QED BY <1>0, <1>4
<1> QED BY <1>0, <1>5

(* Zeros up to z and another digit behind them are z leading zeros.          *)
LEMMA leadingZerosIs ==
  ASSUME NEW S, NEW s \in Seq(S), NEW z \in 0 .. Len(s),
         \A j \in 1 .. z : s[j] = 0, z < Len(s) => s[z + 1] # 0
  PROVE  leadingZeros(s) = z
<1>1. {i \in 1 .. Len(s) : \A j \in 1 .. i : s[j] = 0} = 1 .. z
  OBVIOUS
<1>2. Cardinality(1 .. z) = z
  BY FS_Interval
<1> QED BY ONLY <1>1, <1>2 DEF leadingZeros

(* Zeros in front of a text.                                                 *)
Pad(z, t) == Zeros(z) \o t

(* What is in a text with zeros in front of it.                              *)
LEMMA Padded ==
  ASSUME NEW b \in Nat, 1 < b, NEW z \in Nat, NEW t \in Seq(0 .. b - 1)
  PROVE  /\ Pad(z, t) \in Seq(0 .. b - 1) /\ Len(Pad(z, t)) = z + Len(t)
         /\ \A i \in 1 .. z : Pad(z, t)[i] = 0
         /\ \A i \in 1 .. Len(t) : Pad(z, t)[z + i] = t[i]
<1>1. PICK o, S : o = Zeros(z) /\ S = 0 .. b - 1
  OBVIOUS
<1>2. o \in Seq(S) /\ Len(o) = z /\ \A i \in 1 .. z : o[i] = 0
  BY <1>1 DEF Zeros
<1>3. t \in Seq(S)
  BY <1>1
<1>4. /\ o \o t \in Seq(S) /\ Len(o \o t) = z + Len(t)
      /\ \A i \in 1 .. z : (o \o t)[i] = 0
      /\ \A i \in 1 .. Len(t) : (o \o t)[z + i] = t[i]
  BY ONLY z \in Nat, <1>2, <1>3, SMTT(30)
<1>5. Pad(z, t) = o \o t
  BY <1>1 DEF Pad
<1> QED BY ONLY <1>1, <1>4, <1>5

(* A text is its zeros in front and a text that does not begin with one.     *)
LEMMA Stripped ==
  ASSUME NEW b \in Nat, 1 < b, NEW s \in Seq(0 .. b - 1)
  PROVE  \E z \in Nat, t \in Seq(0 .. b - 1) :
           /\ s = Zeros(z) \o t /\ leadingZeros(s) = z /\ (t # <<>> => t[1] # 0)
<1> DEFINE N == Len(s)
           T == {i \in 0 .. N : i = N \/ s[i + 1] # 0}
<1>1. N \in Nat /\ N \in T
  OBVIOUS
<1>2. PICK z \in T : \A i \in T : z <= i
  <2>1. T \subseteq Nat
    OBVIOUS
  <2> HIDE DEF T
  <2> QED BY <1>1, <2>1, Least
<1>3. z \in 0 .. N /\ (z < N => s[z + 1] # 0)
  BY <1>2
<1>4. ASSUME NEW j \in 1 .. z PROVE s[j] = 0
  <2>1. j - 1 \in 0 .. N /\ j - 1 \notin T
    BY <1>2
  <2> QED BY <2>1
<1>5. leadingZeros(s) = z
  BY <1>3, <1>4, leadingZerosIs
<1>6. PICK t : t = SubSeq(s, z + 1, N)
  OBVIOUS
<1>7. t \in Seq(0 .. b - 1) /\ Len(t) = N - z /\ \A i \in 1 .. N - z : t[i] = s[z + i]
  BY <1>3, <1>6
<1>8. s = Zeros(z) \o t
  <2>1. PICK e : e = Pad(z, t)
    OBVIOUS
  <2>2. /\ e \in Seq(0 .. b - 1) /\ Len(e) = z + Len(t)
        /\ \A i \in 1 .. z : e[i] = 0
        /\ \A i \in 1 .. Len(t) : e[z + i] = t[i]
    <3>1. z \in Nat /\ 0 \in 0 .. b - 1
      BY <1>3
    <3>2. /\ Pad(z, t) \in Seq(0 .. b - 1) /\ Len(Pad(z, t)) = z + Len(t)
          /\ \A i \in 1 .. z : Pad(z, t)[i] = 0
          /\ \A i \in 1 .. Len(t) : Pad(z, t)[z + i] = t[i]
      BY <1>3, <1>7, <3>1, Padded
    <3> QED BY ONLY <2>1, <3>2
  <2>3. Len(e) = Len(s)
    BY <1>3, <1>7, <2>2
  <2>4. ASSUME NEW i \in 1 .. Len(s) PROVE e[i] = s[i]
    <3>1. CASE i <= z
      BY <1>3, <1>4, <2>2, <3>1
    <3>2. CASE i > z
      <4>1. PICK j \in 1 .. Len(t) : i = z + j
        <5>1. i - z \in 1 .. Len(t) /\ i = z + (i - z)
          BY <1>3, <1>7, <3>2
        <5> QED BY <5>1
      <4> QED BY <1>7, <2>2, <4>1
    <3> QED BY <1>3, <3>1, <3>2
  <2>5. e = s
    BY <2>2, <2>3, <2>4, SeqEqual
  <2> QED BY ONLY <2>1, <2>5 DEF Pad
<1>9. t # <<>> => t[1] # 0
  BY <1>3, <1>7
<1>10. z \in Nat
  BY <1>3
<1> QED BY <1>5, <1>7, <1>8, <1>9, <1>10, Zenon

(* A text with as many zeros in front, in another base, of the same number,  *)
(* leads back to the first.                                                  *)
LEMMA ThereAndBack ==
  ASSUME NEW b \in Nat, 1 < b, NEW c \in Nat, 1 < c, NEW s \in Seq(0 .. b - 1)
  PROVE  LET e == Zeros(leadingZeros(s)) \o Digits(Number(s, b), c)
         IN  /\ e \in Seq(0 .. c - 1)
             /\ Zeros(leadingZeros(e)) \o Digits(Number(e, c), b) = s
<1>1. PICK z \in Nat, t \in Seq(0 .. b - 1) :
        /\ s = Zeros(z) \o t /\ leadingZeros(s) = z /\ (t # <<>> => t[1] # 0)
  BY Stripped, Zenon
<1>2. PICK n \in Nat : n = Number(t, b)
  <2>1. t \in Seq(Nat)
    OBVIOUS
  <2> QED BY <2>1, NumberAppend, 0 \in Nat
<1>3. Number(s, b) = n /\ Digits(n, b) = t
  BY <1>1, <1>2, NumberPadded, DigitsOfNumber
<1>4. PICK d \in Seq(0 .. c - 1) : d = Digits(n, c) /\ Number(d, c) = n
  BY DigitsStep, NumberOfDigits
<1>5. d # <<>> => d[1] # 0
  <2>1. CASE n = 0
    BY <1>4, <2>1, DigitsZero
  <2>2. CASE n # 0
    BY <1>4, <2>2, DigitsBegin
  <2> QED BY <2>1, <2>2
<1>6. PICK e : e = Pad(z, d)
  OBVIOUS
<1>7. /\ e \in Seq(0 .. c - 1) /\ z \in 0 .. Len(e)
      /\ \A j \in 1 .. z : e[j] = 0
      /\ z < Len(e) => e[z + 1] # 0
  <2>1. /\ e \in Seq(0 .. c - 1) /\ Len(e) = z + Len(d) /\ Len(d) \in Nat
        /\ \A i \in 1 .. z : e[i] = 0
        /\ \A i \in 1 .. Len(d) : e[z + i] = d[i]
    <3>1. 0 \in 0 .. c - 1 /\ Len(d) \in Nat
      OBVIOUS
    <3>2. /\ Pad(z, d) \in Seq(0 .. c - 1) /\ Len(Pad(z, d)) = z + Len(d)
          /\ \A i \in 1 .. z : Pad(z, d)[i] = 0
          /\ \A i \in 1 .. Len(d) : Pad(z, d)[z + i] = d[i]
      BY <1>4, <3>1, Padded
    <3> QED BY ONLY <1>6, <3>1, <3>2
  <2>2. ASSUME z < Len(e) PROVE e[z + 1] # 0
    <3>1. e[z + 1] = d[1] /\ d # <<>>
      BY <2>1, <2>2
    <3> QED BY <1>5, <3>1
  <2> QED BY <2>1, <2>2
<1>8. leadingZeros(e) = z
  BY <1>7, leadingZerosIs
<1>9. Number(e, c) = n
  BY <1>4, <1>6, NumberPadded DEF Pad
<1> QED BY <1>1, <1>3, <1>4, <1>6, <1>7, <1>8, <1>9 DEF Pad

(* Strings of a bounded length are sequences.                                *)
LEMMA StringsAre ==
  ASSUME NEW S, NEW n \in Nat, NEW s \in Strings(S, n)
  PROVE  s \in Seq(S)
<1>1. PICK k \in 0 .. n : s \in [1 .. k -> S]
  BY DEF Strings
<1> QED BY <1>1

(* What Base58Decode looks up in a text of one-byte characters.              *)
Looked(text) == [i \in 1 .. Len(text) |-> indexOf(text[i] % Codes)]

(* The bases, and that the alphabet has characters of one byte.              *)
LEMMA BasesAre ==
  /\ ByteBase \in Nat /\ 1 < ByteBase /\ CharBase \in Nat /\ 1 < CharBase
  /\ Codes \in Nat /\ CharBase < Codes /\ Runes \in Nat /\ Codes < Runes
BY MultibaseAssumption

(* A text of the alphabet has its own characters as digits.                  *)
LEMMA LookedUp ==
  ASSUME NEW text \in Seq(0 .. CharBase - 1)
  PROVE  Looked(text) = text /\ ~\E i \in 1 .. Len(text) : Looked(text)[i] < 0
<1>1. ASSUME NEW i \in 1 .. Len(text)
      PROVE  indexOf(text[i] % Codes) = text[i] /\ text[i] >= 0 /\ text[i] \in Int
  <2>1. PICK x \in 0 .. CharBase - 1 : x = text[i]
    BY BasesAre
  <2>2. x % Codes = x
    <3>1. x \in Nat /\ x < Codes /\ Codes \in Nat
      BY BasesAre
    <3> QED BY ONLY <3>1
  <2> QED BY BasesAre, <2>1, <2>2 DEF indexOf
<1>2. /\ Looked(text) \in Seq(Int) /\ Len(Looked(text)) = Len(text) /\ text \in Seq(Int)
      /\ \A i \in 1 .. Len(text) : Looked(text)[i] = text[i]
  BY <1>1, BasesAre DEF Looked
<1>3. Looked(text) = text
  BY <1>2, SeqEqual
<1>4. \A i \in 1 .. Len(text) : text[i] >= 0 /\ text[i] \in Int
  BY <1>1
<1> QED BY ONLY <1>3, <1>4

(* Base58Decode takes every text of the alphabet.                            *)
LEMMA DecodeValid ==
  ASSUME NEW text \in Seq(0 .. CharBase - 1)
  PROVE  Base58Decode(text)
           = Ok(Zeros(leadingZeros(text)) \o Digits(Number(text, CharBase), ByteBase))
BY LookedUp DEF Base58Decode, Looked

(* What Base58Encode makes of bytes is of the alphabet, and Base58Decode     *)
(* makes the same bytes of it.                                               *)
LEMMA EncodeThenDecode ==
  ASSUME NEW data \in Seq(0 .. ByteBase - 1)
  PROVE  /\ Base58Encode(data) \in Seq(0 .. CharBase - 1)
         /\ Base58Decode(Base58Encode(data)) = Ok(data)
<1>1. PICK b, c : b = ByteBase /\ c = CharBase
  OBVIOUS
<1>2. b \in Nat /\ 1 < b /\ c \in Nat /\ 1 < c /\ data \in Seq(0 .. b - 1)
  BY <1>1, MultibaseAssumption
<1>3. PICK e : e = Zeros(leadingZeros(data)) \o Digits(Number(data, b), c)
  OBVIOUS
<1>4. e \in Seq(0 .. c - 1) /\ Zeros(leadingZeros(e)) \o Digits(Number(e, c), b) = data
  BY ONLY <1>2, <1>3, ThereAndBack
<1>5. e = Base58Encode(data)
  BY <1>1, <1>3 DEF Base58Encode
<1>6. Base58Decode(e) = Ok(Zeros(leadingZeros(e)) \o Digits(Number(e, c), b))
  BY <1>1, <1>4, DecodeValid
<1> QED BY <1>1, <1>4, <1>5, <1>6

(* Base58Decode refuses a text only for a character that is not of the       *)
(* alphabet; if it takes a text, Base58Encode gives that text back, or it    *)
(* has a rune of more than one byte, of which byte(c) kept the last.         *)
LEMMA Accepted ==
  ASSUME NEW text \in Seq(0 .. Runes - 1), NEW r, r = Base58Decode(text)
  PROVE  /\ r.err # "none" => \E i \in 1 .. Len(text) : text[i] >= CharBase
         /\ r.err = "none" => \/ Base58Encode(r.data) = text
                              \/ \E i \in 1 .. Len(text) : text[i] >= Codes
<1>1. CASE \A i \in 1 .. Len(text) : text[i] < CharBase
  <2>1. text \in Seq(0 .. CharBase - 1)
    <3>1. \A i \in 1 .. Len(text) : text[i] \in 0 .. CharBase - 1
      BY <1>1, BasesAre
    <3> QED BY <3>1, BasesAre
  <2>2. PICK b, c : b = ByteBase /\ c = CharBase
    OBVIOUS
  <2>3. PICK d : d = Zeros(leadingZeros(text)) \o Digits(Number(text, c), b)
    OBVIOUS
  <2>4. r = Ok(d)
    BY <2>1, <2>2, <2>3, DecodeValid
  <2>5. b \in Nat /\ 1 < b /\ c \in Nat /\ 1 < c /\ text \in Seq(0 .. c - 1)
    BY <2>1, <2>2, BasesAre
  <2>6. Zeros(leadingZeros(d)) \o Digits(Number(d, b), c) = text
    BY ONLY <2>3, <2>5, ThereAndBack
  <2>7. Base58Encode(d) = text
    BY <2>2, <2>6 DEF Base58Encode
  <2>8. r.err = "none" /\ r.data = d
    BY ONLY <2>4 DEF Ok
  <2> QED BY ONLY <2>7, <2>8
<1>2. CASE \E i \in 1 .. Len(text) : text[i] >= CharBase /\ text[i] < Codes
  <2>1. PICK i \in 1 .. Len(text) : text[i] >= CharBase /\ text[i] < Codes
    BY <1>2
  <2>2. PICK x \in 0 .. Runes - 1 : x = text[i]
    BY BasesAre
  <2>3. x % Codes = x
    <3>1. x \in Nat /\ x < Codes /\ Codes \in Nat
      BY BasesAre, <2>1, <2>2
    <3> QED BY ONLY <3>1
  <2>4. Looked(text)[i] = -1
    BY BasesAre, <2>1, <2>2, <2>3 DEF Looked, indexOf
  <2>5. \E j \in 1 .. Len(text) : Looked(text)[j] < 0
    BY <2>4
  <2>6. r = Err("invalid base58 character")
    BY <2>5 DEF Base58Decode, Looked
  <2>7. r.err # "none"
    BY ONLY <2>6 DEF Err
  <2> QED BY ONLY <2>1, <2>7
<1>3. CASE \E i \in 1 .. Len(text) : text[i] >= Codes
  <2>1. PICK i \in 1 .. Len(text) : text[i] >= Codes
    BY <1>3
  <2>2. text[i] >= CharBase
    BY <2>1, BasesAre
  <2> QED BY <1>3, <2>2
<1>4. \A i \in 1 .. Len(text) : text[i] \in Int
  BY BasesAre
<1> QED
  <2>1. \/ \A i \in 1 .. Len(text) : text[i] < CharBase
        \/ \E i \in 1 .. Len(text) : text[i] >= CharBase /\ text[i] < Codes
        \/ \E i \in 1 .. Len(text) : text[i] >= Codes
    BY BasesAre, <1>4
  <2> QED BY ONLY <1>1, <1>2, <1>3, <2>1

-----------------------------------------------------------------------------
(* multibase texts and keys *)

(* What MultibaseDecode makes of the prefixes.                               *)
LEMMA Switch ==
  ASSUME NEW payload
  PROVE  /\ MultibaseDecode("", payload) = Result("none", Err("invalid input"))
         /\ MultibaseDecode("x", payload) = Result("none", Err("unsupported encoding"))
         /\ \E e : MultibaseDecode("z", payload) = Result(e, Base58Decode(payload))
         /\ \A p \in Library :
              IF payload = Malformed
              THEN MultibaseDecode(p, payload) = Result("none", Err("invalid input"))
              ELSE MultibaseDecode(p, payload) = Result(Encodings[p], Ok(payload))
<1>1. /\ "" # "z" /\ "x" # "" /\ "x" # "z"
      /\ "x" \notin Library /\ "z" \notin Library /\ "" \notin Library
  BY DEF Library
<1>2. MultibaseDecode("", payload) = Result("none", Err("invalid input"))
  BY <1>1, Zenon DEF MultibaseDecode
<1>3. MultibaseDecode("x", payload) = Result("none", Err("unsupported encoding"))
  BY <1>1, Zenon DEF MultibaseDecode
<1>4. \E e : MultibaseDecode("z", payload) = Result(e, Base58Decode(payload))
  BY <1>1, Zenon DEF MultibaseDecode
<1>5. ASSUME NEW p \in Library
      PROVE  MultibaseDecode(p, payload)
               = IF payload = Malformed THEN Result("none", Err("invalid input"))
                 ELSE Result(Encodings[p], Ok(payload))
  <2>1. p # "" /\ p # "z"
    BY DEF Library
  <2> QED BY <2>1, Zenon DEF MultibaseDecode
<1> QED BY ONLY <1>2, <1>3, <1>4, <1>5

(* The data of an Ed25519 public key.                                        *)
IsKey(data) == /\ Len(data) = 2 + KeySize
               /\ SubSeq(data, 1, 2) = KeyPrefix["Ed25519Pub"]

(* ExtractKeyType finds the key type by its two bytes, and by these only.    *)
LEMMA KeyTypeIs ==
  ASSUME NEW data \in Seq(Nat)
  PROVE  ExtractKeyType(data) = "Ed25519Pub" <=>
           Len(data) >= 2 /\ SubSeq(data, 1, 2) = KeyPrefix["Ed25519Pub"]
<1>1. PICK h, k : h = SubSeq(data, 1, 2) /\ k = KeyPrefix["Ed25519Pub"]
  OBVIOUS
<1>2. "Ed25519Pub" \in KeyTypes /\ "Unknown" # "Ed25519Pub" /\ "invalid input" # "Ed25519Pub"
  BY DEF KeyTypes
<1>3. \A t, u \in KeyTypes : KeyPrefix[t] = KeyPrefix[u] => t = u
  BY MultibaseAssumption
<1>4. PICK u : u = ExtractKeyType(data)
  OBVIOUS
<1>5. CASE Len(data) < 2
  <2>1. u = "invalid input"
    BY <1>4, <1>5 DEF ExtractKeyType
  <2>2. ~(Len(data) >= 2)
    BY <1>5
  <2> QED BY ONLY <1>2, <1>4, <2>1, <2>2
<1>6. CASE ~(Len(data) < 2) /\ \E t \in KeyTypes : KeyPrefix[t] = h
  <2>1. u = CHOOSE t \in KeyTypes : KeyPrefix[t] = h
    BY <1>1, <1>4, <1>6 DEF ExtractKeyType
  <2>2. u \in KeyTypes /\ KeyPrefix[u] = h
    BY <1>6, <2>1, Zenon
  <2>3. u = "Ed25519Pub" <=> h = k
    BY ONLY <1>1, <1>2, <1>3, <2>2
  <2>4. Len(data) >= 2
    BY <1>6
  <2> QED BY ONLY <1>1, <1>4, <2>3, <2>4
<1>7. CASE ~(Len(data) < 2) /\ ~\E t \in KeyTypes : KeyPrefix[t] = h
  <2>1. u = "Unknown"
    BY <1>1, <1>4, <1>7 DEF ExtractKeyType
  <2>2. h # KeyPrefix["Ed25519Pub"]
    BY ONLY <1>2, <1>7
  <2> QED BY ONLY <1>1, <1>2, <1>4, <2>1, <2>2
<1> QED BY <1>5, <1>6, <1>7

(* ExtractEd25519PubKey takes the data of a key and nothing else, and        *)
(* returns what follows the prefix.                                          *)
LEMMA Extracted ==
  ASSUME NEW data \in Seq(Nat), NEW r, r = ExtractEd25519PubKey(data)
  PROVE  /\ r.err = "none" <=> IsKey(data)
         /\ IsKey(data) => KeyPrefix["Ed25519Pub"] \o r.data = data
<1>1. KeySize \in Nat
  BY MultibaseAssumption
<1>2. PICK h, t, k : /\ h = SubSeq(data, 1, 2) /\ t = SubSeq(data, 3, 2 + KeySize)
                     /\ k = KeyPrefix["Ed25519Pub"]
  OBVIOUS
<1>3. Len(data) = 2 + KeySize => h \o t = data
  BY <1>1, <1>2
<1>4. r = IF Len(data) < 2 \/ h # k THEN Err("unsupported key type")
          ELSE IF Len(data) # 2 + KeySize THEN Err("invalid key length") ELSE Ok(t)
  BY <1>2 DEF ExtractEd25519PubKey
<1>5. Len(data) \in Nat /\ (Len(data) = 2 + KeySize => ~(Len(data) < 2))
  BY <1>1
<1>6. IsKey(data) <=> Len(data) = 2 + KeySize /\ h = k
  BY <1>2 DEF IsKey
<1>7. CASE IsKey(data)
  <2>1. r = Ok(t)
    BY ONLY <1>4, <1>5, <1>6, <1>7
  <2>2. r.err = "none" /\ r.data = t
    BY ONLY <2>1 DEF Ok
  <2>3. k \o t = data
    BY ONLY <1>3, <1>6, <1>7
  <2> QED BY ONLY <1>2, <1>7, <2>2, <2>3
<1>8. CASE ~IsKey(data)
  <2>1. r = Err("unsupported key type") \/ r = Err("invalid key length")
    BY ONLY <1>4, <1>6, <1>8
  <2>2. PICK e \in {"unsupported key type", "invalid key length"} : r = Err(e)
    BY ONLY <2>1
  <2>3. r.err = e
    BY ONLY <2>2 DEF Err
  <2> QED BY ONLY <1>8, <2>3
<1> QED BY ONLY <1>7, <1>8

(* Reading a field: DecodeEd25519PubKey gets the data of the payload if the  *)
(* encoding is one that MultibaseDecode knows.                               *)
LEMMA FieldRead ==
  ASSUME NEW data \in Seq(0 .. ByteBase - 1), NEW prefix \in Library \cup {"z", "x"},
         NEW payload, payload = IF prefix = "z" THEN Base58Encode(data) ELSE data,
         NEW r, r = DecodeEd25519PubKey(prefix, payload)
  PROVE  /\ prefix # "x" => r = ExtractEd25519PubKey(data)
         /\ prefix = "x" => r.err # "none"
<1>1. PICK m : m = MultibaseDecode(prefix, payload)
  OBVIOUS
<1>2. r = IF m.err # "none" THEN Err(m.err) ELSE ExtractEd25519PubKey(m.data)
  BY <1>1 DEF DecodeEd25519PubKey
<1>3. CASE prefix = "x"
  <2>1. m = Result("none", Err("unsupported encoding"))
    BY <1>1, <1>3, Switch
  <2>2. m.err = "unsupported encoding"
    BY ONLY <2>1 DEF Result, Err
  <2>3. r = Err("unsupported encoding")
    BY ONLY <1>2, <2>2
  <2>4. r.err = "unsupported encoding"
    BY ONLY <2>3 DEF Err
  <2> QED BY ONLY <1>3, <2>4
<1>4. CASE prefix = "z"
  <2>1. PICK e : m = Result(e, Base58Decode(payload))
    BY <1>1, <1>4, Switch
  <2>2. Base58Decode(payload) = Ok(data)
    BY <1>4, EncodeThenDecode
  <2>3. m = Result(e, Ok(data))
    BY ONLY <2>1, <2>2
  <2>4. m.err = "none" /\ m.data = data
    BY ONLY <2>3 DEF Result, Ok
  <2> QED BY ONLY <1>2, <1>4, <2>4
<1>5. CASE prefix \in Library
  <2>1. prefix # "z" /\ prefix # "x"
    BY <1>5 DEF Library
  <2>2. payload = data
    BY <2>1
  <2>3. data # Malformed
    <3>1. ASSUME data = <<-1>> PROVE FALSE
      <4>1. 1 \in 1 .. Len(data) /\ data[1] = -1
        BY ONLY <3>1
      <4>2. data[1] \in 0 .. ByteBase - 1
        BY ONLY data \in Seq(0 .. ByteBase - 1), <4>1, BasesAre
      <4> QED BY ONLY <4>1, <4>2, BasesAre
    <3> QED BY <3>1 DEF Malformed
  <2>4. m = Result(Encodings[prefix], Ok(data))
    BY <1>1, <1>5, <2>2, <2>3, Switch
  <2>5. m.err = "none" /\ m.data = data
    BY ONLY <2>4 DEF Result, Ok
  <2> QED BY ONLY <1>2, <2>1, <2>5
<1> QED BY <1>3, <1>4, <1>5

(* A text that is empty or malformed in its encoding gives no key.           *)
LEMMA NothingRead ==
  ASSUME NEW prefix \in Library \cup {""}, NEW r, r = DecodeEd25519PubKey(prefix, Malformed)
  PROVE  r.err # "none"
<1>1. PICK m : m = MultibaseDecode(prefix, Malformed)
  OBVIOUS
<1>2. m = Result("none", Err("invalid input"))
  BY <1>1, Switch
<1>3. m.err = "invalid input"
  BY ONLY <1>2 DEF Result, Err
<1>4. r = IF m.err # "none" THEN Err(m.err) ELSE ExtractEd25519PubKey(m.data)
  BY <1>1 DEF DecodeEd25519PubKey
<1>5. r = Err("invalid input")
  BY ONLY <1>3, <1>4
<1> QED BY ONLY <1>5 DEF Err

(* A call that is right: the properties of one call and its result.          *)
RightEncode(c) == c.op = "encode" => Base58Decode(c.out) = Ok(c.in)

(* The same for a call of Base58Decode.                                      *)
RightDecode(c) ==
  c.op = "decode" =>
    /\ c.out.err # "none" => \E i \in 1 .. Len(c.in) : c.in[i] >= CharBase
    /\ c.out.err = "none" => \/ Base58Encode(c.out.data) = c.in
                             \/ \E i \in 1 .. Len(c.in) : c.in[i] >= Codes

(* The same for a call of DecodeEd25519PubKey.                               *)
RightKey(c) ==
  c.op = "key" =>
    LET isKey == /\ ExtractKeyType(c.in.data) = "Ed25519Pub"
                 /\ Len(c.in.data) = 2 + KeySize
                 /\ c.in.prefix \in Library \cup {"z"}
    IN  /\ c.out.err = "none" <=> isKey
        /\ isKey => KeyPrefix["Ed25519Pub"] \o c.out.data = c.in.data

(* The three of them.                                                        *)
Right(c) == RightEncode(c) /\ RightDecode(c) /\ RightKey(c)

(* The inductive invariant: the last call, if there was one, was right.      *)
RightCalls == call = <<>> \/ \E c : call = <<c>> /\ Right(c)

(* Every call of Base58Encode is right.                                      *)
LEMMA EncodesRight ==
  ASSUME NEW data \in Seq(0 .. ByteBase - 1),
         NEW c, c = [op |-> "encode", in |-> data, out |-> Base58Encode(data)]
  PROVE  Right(c)
<1>1. c.op = "encode" /\ c.in = data /\ c.out = Base58Encode(data)
  OBVIOUS
<1>2. RightEncode(c)
  BY ONLY <1>1, EncodeThenDecode, data \in Seq(0 .. ByteBase - 1) DEF RightEncode
<1> QED BY ONLY <1>1, <1>2 DEF Right, RightDecode, RightKey

(* Every call of Base58Decode is right.                                      *)
LEMMA DecodesRight ==
  ASSUME NEW text \in Seq(0 .. Runes - 1),
         NEW c, c = [op |-> "decode", in |-> text, out |-> Base58Decode(text)]
  PROVE  Right(c)
<1>1. c.op = "decode" /\ c.in = text /\ c.out = Base58Decode(text)
  OBVIOUS
<1>2. PICK r : r = Base58Decode(text)
  OBVIOUS
<1>3. c.out = r
  BY ONLY <1>1, <1>2
<1>4. /\ r.err # "none" => \E i \in 1 .. Len(text) : text[i] >= CharBase
      /\ r.err = "none" => \/ Base58Encode(r.data) = text
                           \/ \E i \in 1 .. Len(text) : text[i] >= Codes
  BY <1>2, Accepted
<1>5. RightDecode(c)
  BY ONLY <1>1, <1>3, <1>4 DEF RightDecode
<1> QED BY ONLY <1>1, <1>5 DEF Right, RightEncode, RightKey

(* Every call of DecodeEd25519PubKey is right, if it read the data or failed *)
(* where it has to.                                                          *)
LEMMA ReadsRight ==
  ASSUME NEW data \in Seq(0 .. ByteBase - 1), NEW prefix, NEW r,
         \/ /\ prefix \in Library \cup {"z"}
            /\ r = ExtractEd25519PubKey(data)
         \/ r.err # "none" /\ (prefix \in {"x", ""} \/ data = <<>>),
         NEW c, c = [op |-> "key", in |-> [prefix |-> prefix, data |-> data], out |-> r]
  PROVE  Right(c)
<1>1. c.op = "key" /\ c.in.prefix = prefix /\ c.in.data = data /\ c.out = r
  OBVIOUS
<1>2. data \in Seq(Nat) /\ Len(data) \in Nat /\ KeySize \in Nat
  <2>1. KeySize \in Nat
    BY MultibaseAssumption
  <2> QED BY ONLY BasesAre, <2>1, data \in Seq(0 .. ByteBase - 1)
<1>3. PICK isKey : isKey = (/\ ExtractKeyType(data) = "Ed25519Pub"
                            /\ Len(data) = 2 + KeySize
                            /\ prefix \in Library \cup {"z"})
  OBVIOUS
<1>4. isKey <=> IsKey(data) /\ prefix \in Library \cup {"z"}
  <2>1. Len(data) = 2 + KeySize => Len(data) >= 2
    BY ONLY <1>2
  <2> QED BY ONLY <1>2, <1>3, <2>1, KeyTypeIs DEF IsKey
<1>5. (r.err = "none" <=> isKey) /\ (isKey => KeyPrefix["Ed25519Pub"] \o r.data = data)
  <2>1. CASE prefix \in Library \cup {"z"} /\ r = ExtractEd25519PubKey(data)
    BY ONLY <1>2, <1>4, <2>1, Extracted
  <2>2. CASE r.err # "none" /\ (prefix \in {"x", ""} \/ data = <<>>)
    <3>1. "x" \notin Library \cup {"z"} /\ "" \notin Library \cup {"z"}
      BY DEF Library
    <3>2. data = <<>> => ~IsKey(data)
      BY <1>2 DEF IsKey
    <3> QED BY ONLY <1>4, <2>2, <3>1, <3>2
  <2> QED BY <2>1, <2>2
<1>6. RightKey(c)
  BY ONLY <1>1, <1>3, <1>5 DEF RightKey
<1> QED BY ONLY <1>1, <1>6 DEF Right, RightEncode, RightDecode

(* Before the first call nothing is wrong.                                   *)
LEMMA RightInit == MultibaseInit => RightCalls
BY DEF MultibaseInit, RightCalls

(* Every call keeps the invariant.                                           *)
LEMMA RightStep == RightCalls /\ [MultibaseNext]_call => RightCalls'
<1> SUFFICES ASSUME RightCalls, [MultibaseNext]_call PROVE RightCalls'
  OBVIOUS
<1>1. ASSUME NEW data \in Buffers PROVE data \in Seq(0 .. ByteBase - 1)
  <2>1. MaxData \in Nat
    BY MultibaseAssumption
  <2> QED BY <2>1, StringsAre DEF Buffers
<1>2. ASSUME NEW text \in Texts PROVE text \in Seq(0 .. Runes - 1)
  <2>1. MaxText \in Nat
    BY MultibaseAssumption
  <2> QED BY <2>1, StringsAre DEF Texts
<1>3. ASSUME NEW c, call' = <<c>>, Right(c) PROVE RightCalls'
  BY ONLY <1>3 DEF RightCalls
<1>4. ASSUME NEW data \in Buffers, CallEncode(data) PROVE RightCalls'
  <2>1. PICK c : c = [op |-> "encode", in |-> data, out |-> Base58Encode(data)]
    OBVIOUS
  <2>2. call' = <<c>>
    BY ONLY <1>4, <2>1 DEF CallEncode, Called
  <2>3. Right(c)
    BY <1>1, <2>1, EncodesRight
  <2> QED BY ONLY <1>3, <2>2, <2>3
<1>5. ASSUME NEW text \in Texts, CallDecode(text) PROVE RightCalls'
  <2>1. PICK c : c = [op |-> "decode", in |-> text, out |-> Base58Decode(text)]
    OBVIOUS
  <2>2. call' = <<c>>
    BY ONLY <1>5, <2>1 DEF CallDecode, Called
  <2>3. Right(c)
    BY <1>2, <2>1, DecodesRight
  <2> QED BY ONLY <1>3, <2>2, <2>3
<1>6. ASSUME NEW data \in Buffers, NEW prefix \in Library \cup {"z", "x"},
             CallReadKey(prefix, data)
      PROVE  RightCalls'
  <2>1. PICK payload : payload = IF prefix = "z" THEN Base58Encode(data) ELSE data
    OBVIOUS
  <2>2. PICK r : r = DecodeEd25519PubKey(prefix, payload)
    OBVIOUS
  <2>3. PICK c : c = [op |-> "key", in |-> [prefix |-> prefix, data |-> data], out |-> r]
    OBVIOUS
  <2>4. call' = <<c>>
    BY ONLY <1>6, <2>1, <2>2, <2>3 DEF CallReadKey, Called
  <2>5. /\ prefix # "x" => r = ExtractEd25519PubKey(data)
        /\ prefix = "x" => r.err # "none"
    BY <1>1, <2>1, <2>2, FieldRead
  <2>6. Right(c)
    BY <1>1, <2>3, <2>5, ReadsRight
  <2> QED BY ONLY <1>3, <2>4, <2>6
<1>7. ASSUME NEW prefix \in Library \cup {""}, CallReadNoKey(prefix) PROVE RightCalls'
  <2>1. PICK r : r = DecodeEd25519PubKey(prefix, Malformed)
    OBVIOUS
  <2>2. PICK c : c = [op |-> "key", in |-> [prefix |-> prefix, data |-> <<>>], out |-> r]
    OBVIOUS
  <2>3. call' = <<c>>
    BY ONLY <1>7, <2>1, <2>2 DEF CallReadNoKey, Called
  <2>4. r.err # "none"
    BY <2>1, NothingRead
  <2>5. <<>> \in Seq(0 .. ByteBase - 1)
    BY EmptySeq
  <2>6. Right(c)
    BY ONLY <2>2, <2>4, <2>5, ReadsRight
  <2> QED BY ONLY <1>3, <2>3, <2>6
<1>8. CASE UNCHANGED call
  BY ONLY <1>8, RightCalls DEF RightCalls
<1> QED BY <1>4, <1>5, <1>6, <1>7, <1>8 DEF MultibaseNext

(* The invariant gives the three properties.                                 *)
LEMMA RightGives ==
  RightCalls => Base58RoundTrip /\ Base58Canonical /\ KeyReadExact
<1>1. CASE call = <<>>
  BY ONLY <1>1 DEF Base58RoundTrip, Base58Canonical, KeyReadExact, LastCall
<1>2. ASSUME NEW c, call = <<c>>, Right(c)
      PROVE  Base58RoundTrip /\ Base58Canonical /\ KeyReadExact
  <2>1. call[1] = c
    BY ONLY <1>2
  <2>2. Base58RoundTrip
    BY ONLY <1>2, <2>1 DEF Base58RoundTrip, LastCall, Right, RightEncode
  <2>3. Base58Canonical
    BY ONLY <1>2, <2>1 DEF Base58Canonical, LastCall, Right, RightDecode
  <2>4. KeyReadExact
    BY ONLY <1>2, <2>1 DEF KeyReadExact, LastCall, Right, RightKey
  <2> QED BY <2>2, <2>3, <2>4
<1> QED BY <1>1, <1>2 DEF RightCalls

(* The invariant of the specification.                                       *)
LEMMA RightAlways == MultibaseSpec => []RightCalls
BY RightInit, RightStep, PTL DEF MultibaseSpec

(* Base58Decode of what Base58Encode returns gives the bytes back, for       *)
(* buffers of every length, leading zeros included, and for every two bases. *)
THEOREM Base58RoundTripHolds == MultibaseSpec => []Base58RoundTrip
BY RightAlways, RightGives, PTL

(* Base58Decode refuses a text only for a character outside of the alphabet, *)
(* and two texts that it takes, without runes of more than one byte, are     *)
(* never of the same bytes.                                                  *)
THEOREM Base58CanonicalHolds == MultibaseSpec => []Base58Canonical
BY RightAlways, RightGives, PTL

(* A key is read from a field exactly if it has an encoding that             *)
(* MultibaseDecode knows, the prefix of an Ed25519 public key and its        *)
(* length, and what is read is the key.                                      *)
THEOREM KeyReadExactHolds == MultibaseSpec => []KeyReadExact
BY RightAlways, RightGives, PTL

-----------------------------------------------------------------------------
(* The git routes: filepath.Clean *)

(* How many of the numbers up to i are in X.                                 *)
Count(X, i) == Cardinality({j \in 1 .. i : j \in X})

(* Counting one number more.                                                 *)
LEMMA Counts ==
  ASSUME NEW X, NEW i \in Nat
  PROVE  /\ Count(X, i) \in Nat /\ Count(X, 0) = 0
         /\ i + 1 \in X => Count(X, i + 1) = Count(X, i) + 1
         /\ i + 1 \notin X => Count(X, i + 1) = Count(X, i)
<1>1. PICK S : S = {j \in 1 .. i : j \in X}
  OBVIOUS
<1>2. IsFiniteSet(S)
  <2>1. IsFiniteSet(1 .. i) /\ S \subseteq 1 .. i
    BY <1>1, FS_Interval
  <2> QED BY <2>1, FS_Subset
<1>3. Cardinality(S) \in Nat
  BY <1>2, FS_CardinalityType
<1>4. Count(X, 0) = 0
  <2>1. {j \in 1 .. 0 : j \in X} = {}
    OBVIOUS
  <2> QED BY <2>1, FS_EmptySet DEF Count
<1>5. ASSUME i + 1 \in X PROVE Count(X, i + 1) = Count(X, i) + 1
  <2>1. {j \in 1 .. i + 1 : j \in X} = S \cup {i + 1} /\ i + 1 \notin S
    BY <1>1, <1>5
  <2>2. Cardinality(S \cup {i + 1}) = Cardinality(S) + 1
    BY <1>2, <2>1, FS_AddElement
  <2> QED BY ONLY <1>1, <2>1, <2>2 DEF Count
<1>6. ASSUME i + 1 \notin X PROVE Count(X, i + 1) = Count(X, i)
  <2>1. {j \in 1 .. i + 1 : j \in X} = S
    BY <1>1, <1>6
  <2> QED BY ONLY <1>1, <2>1 DEF Count
<1> QED BY <1>1, <1>3, <1>4, <1>5, <1>6 DEF Count

(* The parts of paths.  (That the literals are in STRING, the provers do not *)
(* know.)                                                                    *)
Parts == STRING \cup {"info", "refs", "git-upload-pack", "git-receive-pack"}

(* One part more of a path.                                                  *)
Cleaned(v, x) ==
  IF x \in {"", "."} THEN v
  ELSE IF x = ".." /\ v # <<>> /\ v[Len(v)] # ".." THEN Front(v) ELSE Append(v, x)

(* What one part more does: nothing, take off the last part, or add one.     *)
LEMMA CleanedIs ==
  ASSUME NEW v \in Seq(Parts), NEW x \in Parts
  PROVE  /\ Cleaned(v, x) \in Seq(Parts)
         /\ x \in {"", "."} => Cleaned(v, x) = v
         /\ x = ".." /\ v # <<>> /\ v[Len(v)] # ".." =>
              /\ Len(Cleaned(v, x)) = Len(v) - 1
              /\ \A k \in 1 .. Len(v) - 1 : Cleaned(v, x)[k] = v[k]
         /\ x \notin {"", "."} /\ (x # ".." \/ v = <<>> \/ v[Len(v)] = "..") =>
              /\ Len(Cleaned(v, x)) = Len(v) + 1 /\ Cleaned(v, x)[Len(v) + 1] = x
              /\ \A k \in 1 .. Len(v) : Cleaned(v, x)[k] = v[k]
<1>1. CASE x \in {"", "."}
  BY <1>1 DEF Cleaned
<1>2. CASE x = ".." /\ v # <<>> /\ v[Len(v)] # ".."
  <2>1. Cleaned(v, x) = SubSeq(v, 1, Len(v) - 1)
    BY <1>2 DEF Cleaned, Front
  <2>2. Len(v) - 1 \in Nat
    BY <1>2
  <2>3. PICK u : u = SubSeq(v, 1, Len(v) - 1)
    OBVIOUS
  <2>4. u \in Seq(Parts) /\ Len(u) = Len(v) - 1 /\ \A k \in 1 .. Len(v) - 1 : u[k] = v[k]
    <3>1. PICK n \in Nat : n = Len(v) - 1 /\ n + 1 = Len(v)
      BY <2>2
    <3>2. u = SubSeq(v, 1, n)
      BY ONLY <2>3, <3>1
    <3>3. u \in Seq(Parts) /\ Len(u) = n /\ \A k \in 1 .. n : u[k] = v[k]
      BY ONLY v \in Seq(Parts), n \in Nat, <3>1, <3>2
    <3> QED BY ONLY <3>1, <3>3
  <2> QED BY ONLY <1>2, <2>1, <2>3, <2>4
<1>3. CASE x \notin {"", "."} /\ (x # ".." \/ v = <<>> \/ v[Len(v)] = "..")
  <2>1. Cleaned(v, x) = Append(v, x)
    BY <1>3 DEF Cleaned
  <2>2. PICK u : u = Append(v, x)
    OBVIOUS
  <2>3. /\ u \in Seq(Parts) /\ Len(u) = Len(v) + 1 /\ u[Len(v) + 1] = x
        /\ \A k \in 1 .. Len(v) : u[k] = v[k]
    BY <2>2, AppendProperties
  <2> QED BY ONLY <1>3, <2>1, <2>2, <2>3
<1> QED BY <1>1, <1>2, <1>3

(* g[i] is what Clean has made of the first i parts.                         *)
Cleans(g, path, N) == g[0] = <<>> /\ \A i \in 1 .. N : g[i] = Cleaned(g[i - 1], path[i])

(* Clean goes through the parts of a path with Cleaned.                      *)
LEMMA CleanDef ==
  ASSUME NEW path \in Seq(Parts)
  PROVE  \E g \in [0 .. Len(path) -> Seq(Parts)] :
           Cleans(g, path, Len(path)) /\ Clean(path) = g[Len(path)]
<1> SUFFICES ASSUME NEW N \in Nat, N = Len(path)
             PROVE  \E g \in [0 .. N -> Seq(Parts)] :
                      Cleans(g, path, N) /\ Clean(path) = g[N]
  <2>1. Len(path) \in Nat
    OBVIOUS
  <2> QED BY <2>1
<1>0. Earlier(Back(N), N) /\ \A i \in 1 .. N : Back(N)[i] = i - 1
  BY BackIs
<1>1. PICK g \in [0 .. N -> Seq(Parts)] :
        g[0] = <<>> /\ \A i \in 1 .. N : g[i] = Cleaned(g[i - 1], path[i])
  <2> DEFINE V == Seq(Parts)
             step == [i \in 1 .. N |-> [v \in V |-> Cleaned(v, path[i])]]
  <2>1. step \in [1 .. N -> [V -> V]]
    <3>0. \A i \in 1 .. N : path[i] \in Parts
      BY ElementOfSeq
    <3>1. \A i \in 1 .. N, v \in V : Cleaned(v, path[i]) \in V
      BY ONLY <3>0, CleanedIs
    <3> QED BY ONLY <3>1
  <2>2. \A i \in 1 .. N, v \in V : step[i][v] = Cleaned(v, path[i])
    BY ONLY TRUE
  <2>3. <<>> \in V
    BY EmptySeq
  <2> HIDE DEF step, V
  <2>4. PICK g \in [0 .. N -> V] : Follows(g, N, <<>>, Back(N), step)
    BY ONLY N \in Nat, <1>0, <2>1, <2>3, Recursion
  <2>5. ASSUME NEW i \in 1 .. N PROVE g[i] = Cleaned(g[i - 1], path[i])
    <3>0. i - 1 \in 0 .. N
      OBVIOUS
    <3>1. Back(N)[i] = i - 1 /\ g[i - 1] \in V
      BY ONLY <1>0, <3>0, i \in 1 .. N, g \in [0 .. N -> V], Zenon
    <3>2. g[i] = step[i][g[i - 1]]
      BY ONLY <2>4, <3>1, i \in 1 .. N DEF Follows
    <3> QED BY ONLY <2>2, <3>1, <3>2, i \in 1 .. N
  <2>6. g[0] = <<>>
    BY ONLY <2>4 DEF Follows
  <2> QED BY <2>5, <2>6 DEF V
<1>2. ASSUME NEW h, h = [i \in 0 .. N |-> IF i = 0 THEN <<>> ELSE Cleaned(h[i - 1], path[i])]
      PROVE  h = g
  <2>1. h = [i \in 0 .. N |-> h[i]] /\ h[0] = g[0]
    BY ONLY N \in Nat, <1>1, <1>2
  <2>2. ASSUME NEW i \in 1 .. N, h[Back(N)[i]] = g[Back(N)[i]] PROVE h[i] = g[i]
    <3>1. h[i] = Cleaned(h[i - 1], path[i]) /\ Back(N)[i] = i - 1
      BY ONLY N \in Nat, i \in 1 .. N, <1>0, <1>2
    <3> QED BY ONLY <1>1, <2>2, <3>1
  <2>3. Alike(h, g, N, Back(N))
    BY ONLY N \in Nat, g \in [0 .. N -> Seq(Parts)], <2>1, <2>2 DEF Alike
  <2> QED BY ONLY N \in Nat, <1>0, <2>3, Determined
<1>3. g = [i \in 0 .. N |-> IF i = 0 THEN <<>> ELSE Cleaned(g[i - 1], path[i])]
  BY ONLY N \in Nat, g \in [0 .. N -> Seq(Parts)], <1>1
<1>4. (CHOOSE c : c = [i \in 0 .. N |->
                         IF i = 0 THEN <<>> ELSE Cleaned(c[i - 1], path[i])]) = g
  BY ONLY <1>2, <1>3
<1>5. Clean(path) = g[N]
  BY ONLY N = Len(path), <1>4 DEF Clean, Cleaned
<1>6. Cleans(g, path, N)
  BY <1>1 DEF Cleans
<1> QED BY <1>5, <1>6

-----------------------------------------------------------------------------
(* Up and down in a path *)

(* The places of a path that go down and those that go up.                   *)
Names(path) == {j \in 1 .. Len(path) : path[j] \notin {"", ".", ".."}}
Ups(path)   == {j \in 1 .. Len(path) : path[j] = ".."}

(* The path is below where it starts, v being what Clean made of it.         *)
Below(path, i, v) ==
  /\ \A j \in 1 .. i : Count(Ups(path), j) <= Count(Names(path), j)
  /\ \A k \in 1 .. Len(v) : v[k] # ".."
  /\ Count(Names(path), i) = Count(Ups(path), i) + Len(v)

(* It has been above.                                                        *)
Above(path, i, v) ==
  /\ \E j \in 1 .. i : Count(Ups(path), j) > Count(Names(path), j)
  /\ Len(v) > 0 /\ v[1] = ".."

(* One part more leaves a path below where it starts, or above since some    *)
(* part on.                                                                  *)
LEMMA CleanStep ==
  ASSUME NEW path \in Seq(Parts), NEW i \in 1 .. Len(path), NEW v \in Seq(Parts),
         Below(path, i - 1, v) \/ Above(path, i - 1, v), NEW w, w = Cleaned(v, path[i])
  PROVE  Below(path, i, w) \/ Above(path, i, w)
<1>1. PICK x \in Parts : x = path[i]
  BY ElementOfSeq
<1>2. PICK n \in Nat, m \in Nat : n = i - 1 /\ i = n + 1 /\ m = Len(v)
  <2>1. i - 1 \in Nat /\ i = (i - 1) + 1 /\ Len(v) \in Nat
    OBVIOUS
  <2> QED BY <2>1
<1>3. PICK U, N : U = Ups(path) /\ N = Names(path)
  OBVIOUS
<1>4. /\ w \in Seq(Parts)
      /\ x \in {"", "."} => w = v
      /\ x = ".." /\ v # <<>> /\ v[m] # ".." =>
           Len(w) = m - 1 /\ \A k \in 1 .. m - 1 : w[k] = v[k]
      /\ x \notin {"", "."} /\ (x # ".." \/ v = <<>> \/ v[m] = "..") =>
           /\ Len(w) = m + 1 /\ w[m + 1] = x
           /\ \A k \in 1 .. m : w[k] = v[k]
  BY ONLY v \in Seq(Parts), x \in Parts, w = Cleaned(v, path[i]), <1>1, <1>2, CleanedIs,
          ZenonT(60)
<1>5. v = <<>> <=> m = 0
  BY <1>2
<1>6. /\ i \in U <=> x = ".."
      /\ i \in N <=> x \notin {"", ".", ".."}
  BY <1>1, <1>3 DEF Ups, Names
<1>7. PICK a \in Nat, b \in Nat, c \in Nat, d \in Nat :
        /\ a = Count(U, n) /\ b = Count(N, n) /\ c = Count(U, i) /\ d = Count(N, i)
        /\ IF x = ".." THEN c = a + 1 ELSE c = a
        /\ IF x \notin {"", ".", ".."} THEN d = b + 1 ELSE d = b
  <2>1. Count(U, n) \in Nat /\ Count(N, n) \in Nat
    BY ONLY n \in Nat, Counts
  <2>2. /\ IF x = ".." THEN Count(U, i) = Count(U, n) + 1 ELSE Count(U, i) = Count(U, n)
        /\ IF x \notin {"", ".", ".."} THEN Count(N, i) = Count(N, n) + 1
           ELSE Count(N, i) = Count(N, n)
    <3>1. /\ n + 1 \in U => Count(U, n + 1) = Count(U, n) + 1
          /\ n + 1 \notin U => Count(U, n + 1) = Count(U, n)
          /\ n + 1 \in N => Count(N, n + 1) = Count(N, n) + 1
          /\ n + 1 \notin N => Count(N, n + 1) = Count(N, n)
      BY ONLY n \in Nat, Counts
    <3>2. i = n + 1
      BY <1>2
    <3>3. /\ i \in U => Count(U, i) = Count(U, n) + 1
          /\ i \notin U => Count(U, i) = Count(U, n)
          /\ i \in N => Count(N, i) = Count(N, n) + 1
          /\ i \notin N => Count(N, i) = Count(N, n)
      BY ONLY <3>1, <3>2
    <3> QED BY ONLY <1>6, <3>3, Zenon
  <2>3. Count(U, i) \in Nat /\ Count(N, i) \in Nat
    BY Counts
  <2> QED BY ONLY <2>1, <2>2, <2>3, Zenon
<1>8. ASSUME \A j \in 1 .. n : Count(U, j) <= Count(N, j), c <= d
      PROVE  \A j \in 1 .. i : Count(U, j) <= Count(N, j)
  <2>1. \A j \in 1 .. i : j \in 1 .. n \/ j = i
    BY ONLY n \in Nat, <1>2
  <2> QED BY ONLY <1>7, <1>8, <2>1
<1>9. CASE Below(path, i - 1, v)
  <2>1. /\ \A j \in 1 .. n : Count(U, j) <= Count(N, j)
        /\ \A k \in 1 .. m : v[k] # ".." 
        /\ b = a + m
    BY ONLY <1>2, <1>3, <1>7, <1>9 DEF Below
  <2>2. CASE x \in {"", "."}
    <3>1. w = v /\ c = a /\ d = b
      BY ONLY <1>4, <1>7, <2>2
    <3>2. \A j \in 1 .. i : Count(U, j) <= Count(N, j)
      BY ONLY m \in Nat, a \in Nat, b \in Nat, <1>8, <2>1, <3>1
    <3> QED BY ONLY <1>2, <1>3, <1>7, <2>1, <3>1, <3>2 DEF Below
  <2>3. CASE x \notin {"", ".", ".."}
    <3>1. /\ Len(w) = m + 1 /\ w[m + 1] = x /\ \A k \in 1 .. m : w[k] = v[k]
          /\ c = a /\ d = b + 1 /\ x # ".."
      BY ONLY <1>4, <1>7, <2>3
    <3>2. \A j \in 1 .. i : Count(U, j) <= Count(N, j)
      BY ONLY m \in Nat, a \in Nat, b \in Nat, <1>8, <2>1, <3>1
    <3>3. \A k \in 1 .. m + 1 : w[k] # ".."
      BY ONLY m \in Nat, <2>1, <3>1
    <3>4. d = c + Len(w)
      BY ONLY m \in Nat, a \in Nat, b \in Nat, <2>1, <3>1
    <3> QED BY ONLY <1>2, <1>3, <1>7, <3>1, <3>2, <3>3, <3>4 DEF Below
  <2>4. CASE x = ".." /\ m > 0
    <3>1. v[m] # ".." /\ v # <<>>
      BY ONLY m \in Nat, <1>5, <2>1, <2>4
    <3>2. /\ Len(w) = m - 1 /\ \A k \in 1 .. m - 1 : w[k] = v[k]
          /\ c = a + 1 /\ d = b
      BY ONLY <1>4, <1>7, <2>4, <3>1
    <3>3. \A j \in 1 .. i : Count(U, j) <= Count(N, j)
      BY ONLY m \in Nat, a \in Nat, b \in Nat, <1>8, <2>1, <2>4, <3>2
    <3>4. \A k \in 1 .. m - 1 : w[k] # ".."
      BY ONLY m \in Nat, <2>1, <3>2
    <3>5. d = c + Len(w)
      BY ONLY m \in Nat, a \in Nat, b \in Nat, <2>1, <3>2
    <3> QED BY ONLY <1>2, <1>3, <1>7, <3>2, <3>3, <3>4, <3>5 DEF Below
  <2>5. CASE x = ".." /\ m = 0
    <3>1. Len(w) = 1 /\ w[1] = ".." /\ c = a + 1 /\ d = b
      BY ONLY <1>4, <1>5, <1>7, <2>5
    <3>2. i \in 1 .. i /\ Count(U, i) > Count(N, i)
      BY ONLY n \in Nat, a \in Nat, b \in Nat, <1>2, <1>7, <2>1, <2>5, <3>1
    <3> QED BY ONLY <1>2, <1>3, <3>1, <3>2 DEF Above
  <2>6. m > 0 \/ m = 0
    BY ONLY m \in Nat
  <2> QED BY ONLY <2>2, <2>3, <2>4, <2>5, <2>6
<1>10. CASE Above(path, i - 1, v)
  <2>1. PICK j \in 1 .. n : Count(U, j) > Count(N, j)
    BY ONLY <1>2, <1>3, <1>10 DEF Above
  <2>2. m > 0 /\ v[1] = ".." /\ j \in 1 .. i
    BY ONLY <1>2, <1>3, <1>10, n \in Nat, j \in 1 .. n DEF Above
  <2>3. Len(w) > 0 /\ w[1] = ".."
    <3>1. CASE x \in {"", "."}
      BY ONLY <1>2, <1>3, <1>4, <2>2, <3>1
    <3>2. CASE x = ".." /\ v # <<>> /\ v[m] # ".."
      <4>1. m # 1 /\ m - 1 > 0 /\ 1 \in 1 .. m - 1
        BY ONLY m \in Nat, <2>2, <3>2
      <4> QED BY ONLY <1>4, <2>2, <3>2, <4>1
    <3>3. CASE x \notin {"", "."} /\ (x # ".." \/ v = <<>> \/ v[m] = "..")
      <4>1. m + 1 > 0 /\ 1 \in 1 .. m
        BY ONLY m \in Nat, <2>2
      <4> QED BY ONLY <1>4, <2>2, <3>3, <4>1
    <3> QED BY ONLY <3>1, <3>2, <3>3
  <2> QED BY ONLY <1>2, <1>3, <2>1, <2>2, <2>3 DEF Above
<1> QED BY <1>9, <1>10

(* The check that secureRepoPath makes of the cleaned path, that it is not   *)
(* absolute, not "." and does not begin with "..", is the one of Stays: no   *)
(* beginning of the path goes up more often than down.                       *)
LEMMA StaysIs ==
  ASSUME NEW path \in Seq(Parts)
  PROVE  Stays(path) <=> ~IsAbs(path) /\ Clean(path) # <<>> /\ Clean(path)[1] # ".."
<1>1. PICK n \in Nat : n = Len(path)
  OBVIOUS
<1>2. PICK g \in [0 .. n -> Seq(Parts)] : Cleans(g, path, n) /\ Clean(path) = g[n]
  <2>1. \E g \in [0 .. Len(path) -> Seq(Parts)] :
          Cleans(g, path, Len(path)) /\ Clean(path) = g[Len(path)]
    BY ONLY path \in Seq(Parts), CleanDef
  <2> QED BY ONLY <1>1, <2>1
<1> DEFINE S == {i \in 0 .. n : Below(path, i, g[i]) \/ Above(path, i, g[i])}
<1>3. 0 \in S
  <2>1. g[0] = <<>> /\ 0 \in 0 .. n
    BY <1>2 DEF Cleans
  <2>2. Count(Names(path), 0) = 0 /\ Count(Ups(path), 0) = 0
    BY ONLY 0 \in Nat, Counts
  <2>3. Below(path, 0, <<>>)
    BY ONLY <2>2 DEF Below
  <2> QED BY ONLY <2>1, <2>3
<1>4. ASSUME NEW i \in 1 .. n, Back(n)[i] \in S PROVE i \in S
  <2>1. i - 1 \in S /\ i \in 0 .. n /\ i - 1 \in 0 .. n
    BY ONLY n \in Nat, i \in 1 .. n, <1>4, BackIs
  <2>2. PICK v \in Seq(Parts) : v = g[i - 1]
    BY <2>1
  <2>3. Below(path, i - 1, v) \/ Above(path, i - 1, v)
    BY ONLY <2>1, <2>2
  <2>4. g[i] = Cleaned(v, path[i])
    BY ONLY i \in 1 .. n, <1>2, <2>2 DEF Cleans
  <2>5. i \in 1 .. Len(path)
    BY <1>1
  <2>6. Below(path, i, g[i]) \/ Above(path, i, g[i])
    BY ONLY path \in Seq(Parts), v \in Seq(Parts), <2>3, <2>4, <2>5, CleanStep
  <2> QED BY ONLY <2>1, <2>6
<1>5. n \in S
  <2>1. Earlier(Back(n), n)
    BY BackIs
  <2>2. n \in 0 .. n
    OBVIOUS
  <2> HIDE DEF S
  <2> QED BY ONLY n \in Nat, <1>3, <1>4, <2>1, <2>2, EarlierInduction
<1>6. PICK c \in Seq(Parts) : c = Clean(path) /\ (Below(path, n, c) \/ Above(path, n, c))
  <2>1. g[n] \in Seq(Parts)
    OBVIOUS
  <2> QED BY ONLY <1>2, <1>5, <2>1
<1>7. PICK U, N : U = Ups(path) /\ N = Names(path)
  OBVIOUS
<1>8. ASSUME NEW i \in 0 .. n
      PROVE  /\ Count(U, i) \in Nat /\ Count(N, i) \in Nat
             /\ Cardinality({j \in 1 .. i : path[j] \notin {"", ".", ".."}}) = Count(N, i)
             /\ Cardinality({j \in 1 .. i : path[j] = ".."}) = Count(U, i)
  <2>1. /\ {j \in 1 .. i : path[j] \notin {"", ".", ".."}} = {j \in 1 .. i : j \in N}
        /\ {j \in 1 .. i : path[j] = ".."} = {j \in 1 .. i : j \in U}
    <3>1. ASSUME NEW j \in 1 .. i
          PROVE  /\ path[j] \notin {"", ".", ".."} <=> j \in N
                 /\ path[j] = ".." <=> j \in U
      <4>1. j \in 1 .. Len(path)
        BY <1>1
      <4> QED BY ONLY <1>7, <4>1 DEF Names, Ups
    <3> QED BY ONLY <3>1
  <2>2. Count(U, i) \in Nat /\ Count(N, i) \in Nat
    BY Counts
  <2> QED BY ONLY <2>1, <2>2 DEF Count
<1>9. Stays(path) <=> /\ ~IsAbs(path)
                      /\ \A i \in 1 .. n : Count(U, i) <= Count(N, i)
                      /\ Count(U, n) < Count(N, n)
  <2>1. \A i \in 1 .. n : i \in 0 .. n
    OBVIOUS
  <2>2. n \in 0 .. n
    OBVIOUS
  <2>3. Stays(path) <=>
          /\ ~IsAbs(path)
          /\ \A i \in 1 .. n : Cardinality({j \in 1 .. i : path[j] = ".."})
                                 <= Cardinality({j \in 1 .. i : path[j] \notin {"", ".", ".."}})
          /\ Cardinality({j \in 1 .. n : path[j] = ".."})
               < Cardinality({j \in 1 .. n : path[j] \notin {"", ".", ".."}})
    BY ONLY <1>1 DEF Stays
  <2> QED BY ONLY <1>8, <2>1, <2>2, <2>3
<1>10. CASE Below(path, n, c)
  <2>1. /\ \A i \in 1 .. n : Count(U, i) <= Count(N, i)
        /\ \A k \in 1 .. Len(c) : c[k] # ".."
        /\ Count(N, n) = Count(U, n) + Len(c)
    BY ONLY <1>7, <1>10 DEF Below
  <2>2. Len(c) \in Nat /\ (c = <<>> <=> Len(c) = 0)
    OBVIOUS
  <2>3. PICK a \in Nat, b \in Nat, l \in Nat : a = Count(U, n) /\ b = Count(N, n) /\ l = Len(c)
    <3>1. n \in 0 .. n
      OBVIOUS
    <3> QED BY ONLY <1>8, <2>2, <3>1
  <2>4. a < b <=> l # 0
    BY ONLY <2>1, <2>3, a \in Nat, b \in Nat, l \in Nat
  <2>5. l # 0 => c[1] # ".."
    BY ONLY <2>1, <2>3, l \in Nat
  <2> QED BY ONLY <1>6, <1>9, <2>1, <2>2, <2>3, <2>4, <2>5
<1>11. CASE Above(path, n, c)
  <2>1. PICK j \in 1 .. n : Count(U, j) > Count(N, j)
    BY ONLY <1>7, <1>11 DEF Above
  <2>2. ~(Count(U, j) <= Count(N, j))
    <3>1. j \in 0 .. n
      OBVIOUS
    <3>2. PICK a \in Nat, b \in Nat : a = Count(U, j) /\ b = Count(N, j)
      BY ONLY <1>8, <3>1
    <3>3. a > b
      BY ONLY <2>1, <3>2
    <3>4. ~(a <= b)
      BY ONLY <3>3, a \in Nat, b \in Nat
    <3> QED BY ONLY <3>2, <3>4
  <2>3. c[1] = ".."
    BY ONLY <1>11 DEF Above
  <2> QED BY ONLY <1>6, <1>9, <2>2, <2>3, j \in 1 .. n
<1> QED BY ONLY <1>6, <1>10, <1>11

-----------------------------------------------------------------------------
(* The handlers *)

(* The empty path is one empty part.                                         *)
LEMMA EmptyPath == ASSUME NEW path, path = <<"">> PROVE Len(path) = 1 /\ path[1] = ""
OBVIOUS

(* Nothing is left of it by Clean.                                           *)
LEMMA CleanNothing ==
  ASSUME NEW repo \in Seq(Parts), IsEmpty(repo) \/ Len(repo) = 0
  PROVE  Clean(repo) = <<>>
<1>1. PICK g \in [0 .. Len(repo) -> Seq(Parts)] :
        Cleans(g, repo, Len(repo)) /\ Clean(repo) = g[Len(repo)]
  BY ONLY repo \in Seq(Parts), CleanDef
<1>2. CASE IsEmpty(repo)
  <2>1. repo = <<"">>
    BY <1>2 DEF IsEmpty
  <2>2. Len(repo) = 1 /\ repo[1] = ""
    BY ONLY <2>1, EmptyPath, Zenon
  <2>3. Len(repo) = 1 /\ 1 \in 1 .. 1 /\ 1 - 1 = 0
    <3>1. Len(repo) = 1
      BY ONLY <2>2, Zenon
    <3> QED BY ONLY <3>1
  <2>4. g[0] = <<>> /\ \A i \in 1 .. 1 : g[i] = Cleaned(g[i - 1], repo[i])
    BY ONLY <1>1, <2>3 DEF Cleans
  <2>5. g[1] = Cleaned(<<>>, repo[1])
    BY ONLY <2>3, <2>4
  <2>6. Cleaned(<<>>, repo[1]) = <<>>
    BY ONLY <2>2, Zenon DEF Cleaned
  <2> QED BY ONLY <1>1, <2>3, <2>5, <2>6
<1>3. CASE Len(repo) = 0
  BY ONLY <1>1, <1>3 DEF Cleans
<1> QED BY <1>2, <1>3

(* The places that secureRepoPath lets through.                              *)
Seen(path) ==
  LET base == EvalSymlinks(ReposDir)
      real == EvalSymlinks(path)
  IN  /\ base.err = "none" /\ real.err = "none" /\ ReposDir # <<>>
      /\ Within(base.real, real.real)

(* They are inside of ReposDir, and are all that is, unless this is the root. *)
LEMMA SeenInside ==
  ASSUME NEW path
  PROVE  /\ Seen(path) => Inside(path)
         /\ Inside(path) /\ ~Rooted => Seen(path)
<1>1. PICK base, real : base = EvalSymlinks(ReposDir) /\ real = EvalSymlinks(path)
  OBVIOUS
<1>2. PICK P : P = IsPrefix(base.real, real.real)
  OBVIOUS
<1>3. Inside(path) <=> base.err = "none" /\ real.err = "none" /\ P
  BY ONLY <1>1, <1>2 DEF Inside
<1>4. Seen(path) <=> /\ base.err = "none" /\ real.err = "none" /\ ReposDir # <<>>
                     /\ P /\ (base.real # <<>> \/ real.real = base.real)
  BY ONLY <1>1, <1>2 DEF Seen, Within
<1>5. Rooted <=> ReposDir = <<>> \/ base.real = <<>>
  BY ONLY <1>1 DEF Rooted
<1> QED BY ONLY <1>3, <1>4, <1>5

(* serveGit hands a repository to the git backend exactly if its path stays  *)
(* below the directory and leads to such a place.                            *)
LEMMA Served ==
  ASSUME NEW repo \in Seq(Parts)
  PROVE  serveGit(repo) \in {"git", "404"} /\
         (serveGit(repo) = "git" <=> Stays(repo) /\ Seen(ReposDir \o Clean(repo)))
<1>1. PICK c, p, base, real : /\ c = Clean(repo) /\ p = ReposDir \o c
                              /\ base = EvalSymlinks(ReposDir) /\ real = EvalSymlinks(p)
  OBVIOUS
<1>2. PICK P : P = Within(base.real, real.real)
  OBVIOUS
<1>3. Stays(repo) <=> ~IsAbs(repo) /\ c # <<>> /\ c[1] # ".."
  BY ONLY <1>1, StaysIs, repo \in Seq(Parts)
<1>4. Seen(p) <=> base.err = "none" /\ real.err = "none" /\ ReposDir # <<>> /\ P
  BY ONLY <1>1, <1>2 DEF Seen
<1>5. StatIsNotExist(p) <=> real.err = "not exist"
  BY ONLY <1>1 DEF StatIsNotExist
<1>6. secureRepoPath(repo)
        = IF \/ IsEmpty(repo) \/ IsAbs(repo)
             \/ c = <<>> \/ c[1] = ".."
             \/ base.err # "none"
             \/ ReposDir = <<>>
             \/ real.err = "none" /\ ~P
             \/ real.err \notin {"none", "not exist"}
          THEN <<>> ELSE <<p>>
  BY ONLY <1>1, <1>2 DEF secureRepoPath, Refused, Secure
<1>7. IsEmpty(repo) => c = <<>>
  BY ONLY <1>1, CleanNothing, repo \in Seq(Parts)
<1>8. serveGit(repo) = IF secureRepoPath(repo) = <<>> \/ StatIsNotExist(secureRepoPath(repo)[1])
                       THEN "404" ELSE "git"
  BY ONLY DEF serveGit, Refused
<1>9. <<p>> # <<>> /\ <<p>>[1] = p
  BY ONLY TRUE
<1>10. CASE Stays(repo) /\ Seen(p)
  <2>1. secureRepoPath(repo) = <<p>> /\ ~StatIsNotExist(p)
    BY ONLY <1>3, <1>4, <1>5, <1>6, <1>7, <1>10
  <2>2. serveGit(repo) = "git"
    BY ONLY <1>8, <1>9, <2>1
  <2> QED BY ONLY <1>1, <1>10, <2>2
<1>11. CASE ~(Stays(repo) /\ Seen(p))
  <2>1. secureRepoPath(repo) = <<>> \/ (secureRepoPath(repo) = <<p>> /\ StatIsNotExist(p))
    BY ONLY <1>3, <1>4, <1>5, <1>6, <1>11
  <2>2. serveGit(repo) = "404"
    BY ONLY <1>8, <1>9, <2>1
  <2> QED BY ONLY <1>1, <1>11, <2>2
<1> QED BY ONLY <1>10, <1>11

(* The path with s behind the repository.                                    *)
Ends(path, repo, s) == path = repo \o s

(* CutSuffix takes off the suffix that was put behind a repository; with     *)
(* another one of the same length, or with nothing in front of it, it finds  *)
(* none.                                                                     *)
LEMMA SuffixCut ==
  ASSUME NEW repo \in Seq(Parts), NEW s \in Seq(Parts), NEW t \in Seq(Parts),
         Len(t) = Len(s), NEW path, Ends(path, repo, s)
  PROVE  /\ Len(repo) > 0 /\ s = t => CutSuffix(path, t) = <<repo>>
         /\ ~(Len(repo) > 0 /\ s = t) => CutSuffix(path, t) = <<>>
<1>1. PICK n \in Nat, m \in Nat : n = Len(repo) /\ m = Len(s)
  OBVIOUS
<1>0. path = repo \o s
  BY DEF Ends
<1>2. Len(path) = n + m /\ (n + m) - m = n
  BY <1>0, <1>1
<1>3. SubSeq(path, 1, n) = repo
  BY <1>0, <1>1
<1>4. SubSeq(path, n + 1, n + m) = s
  <2>1. PICK u : u = SubSeq(path, n + 1, n + m)
    OBVIOUS
  <2>2. path \in Seq(Parts) /\ Len(path) = n + m /\ \A k \in 1 .. m : path[n + k] = s[k]
    BY <1>0, <1>1
  <2>3. u \in Seq(Parts) /\ Len(u) = m /\ \A k \in 1 .. m : u[k] = path[n + k]
    <3>1. n + m <= Len(path)
      BY ONLY n \in Nat, m \in Nat, <2>2
    <3>2. path \in Seq(Parts)
      BY <2>2
    <3> QED BY ONLY n \in Nat, m \in Nat, <2>1, <3>1, <3>2, PartIs
  <2>4. u = s
    BY ONLY s \in Seq(Parts), <1>1, <2>2, <2>3, SeqEqual
  <2> QED BY ONLY <2>1, <2>4
<1>5. CutSuffix(path, t) = IF n >= 1 /\ SubSeq(path, n + 1, n + m) = t
                           THEN <<SubSeq(path, 1, n)>> ELSE <<>>
  <2>1. Len(path) - Len(t) = n
    BY ONLY <1>1, <1>2, Len(t) = Len(s)
  <2> QED BY ONLY <1>2, <2>1 DEF CutSuffix, Secure, Refused
<1>6. n >= 1 <=> Len(repo) > 0
  BY <1>1
<1> QED BY ONLY <1>3, <1>4, <1>5, <1>6

(* handleGitGet answers with the backend exactly for these repositories, if  *)
(* a service is asked for.                                                   *)
LEMMA Got ==
  ASSUME NEW repo \in Seq(Parts), NEW service \in BOOLEAN
  PROVE  handleGitGet(repo \o <<"info", "refs">>, service) = "git" <=>
           service /\ Stays(repo) /\ Seen(ReposDir \o Clean(repo))
<1>1. PICK s, path, cut : /\ s = <<"info", "refs">> /\ path = repo \o s
                          /\ cut = CutSuffix(path, s)
  OBVIOUS
<1>2. s \in Seq(Parts)
  <2>1. "info" \in Parts /\ "refs" \in Parts
    BY DEF Parts
  <2> QED BY ONLY <1>1, <2>1
<1>3. /\ Len(repo) > 0 => cut = <<repo>>
      /\ ~(Len(repo) > 0) => cut = <<>>
  <2>1. Ends(path, repo, s)
    BY ONLY <1>1 DEF Ends
  <2>2. /\ Len(repo) > 0 /\ s = s => CutSuffix(path, s) = <<repo>>
        /\ ~(Len(repo) > 0 /\ s = s) => CutSuffix(path, s) = <<>>
    BY ONLY repo \in Seq(Parts), <1>2, <2>1, SuffixCut, Zenon
  <2> QED BY ONLY <1>1, <2>2
<1>4. handleGitGet(path, service) = IF cut = <<>> \/ IsEmpty(cut[1]) \/ ~service
                                    THEN "404" ELSE serveGit(cut[1])
  BY ONLY <1>1 DEF handleGitGet, Refused
<1>5. IsEmpty(repo) \/ ~(Len(repo) > 0) => ~Stays(repo)
  <2>1. ~(Len(repo) > 0) => Len(repo) = 0
    OBVIOUS
  <2> QED BY ONLY <2>1, CleanNothing, StaysIs, repo \in Seq(Parts)
<1>6. serveGit(repo) = "git" <=> Stays(repo) /\ Seen(ReposDir \o Clean(repo))
  BY ONLY Served, repo \in Seq(Parts)
<1>7. <<repo>> # <<>> /\ <<repo>>[1] = repo
  BY ONLY TRUE
<1>8. CASE Len(repo) > 0
  <2>1. handleGitGet(path, service) = IF IsEmpty(repo) \/ ~service THEN "404" ELSE serveGit(repo)
    BY ONLY <1>3, <1>4, <1>7, <1>8
  <2> QED BY ONLY <1>1, <1>5, <1>6, <2>1
<1>9. CASE ~(Len(repo) > 0)
  <2>1. handleGitGet(path, service) = "404"
    BY ONLY <1>3, <1>4, <1>9
  <2> QED BY ONLY <1>1, <1>5, <1>9, <2>1
<1> QED BY ONLY <1>8, <1>9

(* handleGitPost does, if the last part is one of the packs.                 *)
LEMMA Posted ==
  ASSUME NEW repo \in Seq(Parts), NEW pack \in Packs \cup {"info"}
  PROVE  handleGitPost(Append(repo, pack)) = "git" <=>
           pack \in Packs /\ Stays(repo) /\ Seen(ReposDir \o Clean(repo))
<1>1. PICK s, path, up, down, upload, receive :
        /\ s = <<pack>> /\ path = Append(repo, pack)
        /\ up = <<"git-upload-pack">> /\ down = <<"git-receive-pack">>
        /\ upload = CutSuffix(path, up) /\ receive = CutSuffix(path, down)
  OBVIOUS
<1>2. pack \in Parts /\ "git-upload-pack" \in Parts /\ "git-receive-pack" \in Parts
  BY DEF Packs, Parts
<1>3. /\ s \in Seq(Parts) /\ up \in Seq(Parts) /\ down \in Seq(Parts)
      /\ Len(up) = Len(s) /\ Len(down) = Len(s)
      /\ s = up <=> pack = "git-upload-pack"
      /\ s = down <=> pack = "git-receive-pack"
  BY ONLY <1>1, <1>2
<1>4. Ends(path, repo, s)
  BY ONLY <1>1, <1>2, repo \in Seq(Parts) DEF Ends
<1>5. /\ (Len(repo) > 0 /\ s = up) => upload = <<repo>>
      /\ ~(Len(repo) > 0 /\ s = up) => upload = <<>>
      /\ (Len(repo) > 0 /\ s = down) => receive = <<repo>>
      /\ ~(Len(repo) > 0 /\ s = down) => receive = <<>>
  <2>0. s \in Seq(Parts)
    BY <1>3
  <2>1. /\ (Len(repo) > 0 /\ s = up) => CutSuffix(path, up) = <<repo>>
        /\ ~(Len(repo) > 0 /\ s = up) => CutSuffix(path, up) = <<>>
    <3>1. up \in Seq(Parts) /\ Len(up) = Len(s)
      BY <1>3
    <3> QED BY ONLY repo \in Seq(Parts), <1>4, <2>0, <3>1, SuffixCut, ZenonT(60)
  <2>2. /\ (Len(repo) > 0 /\ s = down) => CutSuffix(path, down) = <<repo>>
        /\ ~(Len(repo) > 0 /\ s = down) => CutSuffix(path, down) = <<>>
    <3>1. down \in Seq(Parts) /\ Len(down) = Len(s)
      BY <1>3
    <3> QED BY ONLY repo \in Seq(Parts), <1>4, <2>0, <3>1, SuffixCut, ZenonT(60)
  <2> QED BY ONLY <1>1, <2>1, <2>2
<1>6. PICK cut : cut = IF upload # <<>> THEN upload ELSE receive
  OBVIOUS
<1>7. handleGitPost(path) = IF cut = <<>> \/ IsEmpty(cut[1]) THEN "404" ELSE serveGit(cut[1])
  BY ONLY <1>1, <1>6 DEF handleGitPost, Refused
<1>8. pack \in Packs <=> s = up \/ s = down
  BY ONLY <1>3 DEF Packs
<1>9. <<repo>> # <<>> /\ <<repo>>[1] = repo
  BY ONLY TRUE
<1>10. IsEmpty(repo) \/ ~(Len(repo) > 0) => ~Stays(repo)
  <2>1. ~(Len(repo) > 0) => Len(repo) = 0
    OBVIOUS
  <2> QED BY ONLY <2>1, CleanNothing, StaysIs, repo \in Seq(Parts)
<1>11. serveGit(repo) = "git" <=> Stays(repo) /\ Seen(ReposDir \o Clean(repo))
  BY ONLY Served, repo \in Seq(Parts)
<1>12. CASE Len(repo) > 0 /\ pack \in Packs
  <2>1. cut = <<repo>>
    BY ONLY <1>5, <1>6, <1>8, <1>9, <1>12
  <2>2. handleGitPost(path) = IF IsEmpty(repo) THEN "404" ELSE serveGit(repo)
    BY ONLY <1>7, <1>9, <2>1
  <2> QED BY ONLY <1>1, <1>10, <1>11, <1>12, <2>2
<1>13. CASE ~(Len(repo) > 0 /\ pack \in Packs)
  <2>1. cut = <<>>
    BY ONLY <1>5, <1>6, <1>8, <1>13
  <2>2. handleGitPost(path) = "404"
    BY ONLY <1>7, <2>1
  <2> QED BY ONLY <1>1, <1>10, <1>13, <2>2
<1> QED BY ONLY <1>12, <1>13

(* A request that was answered so keeps ServesInside: the file system is as  *)
(* it was when the path was looked at.                                       *)
LEMMA AnsweredRight ==
  ASSUME NEW repo, NEW git, NEW status, Asked(repo, git, status),
         status = "git" <=> git /\ Stays(repo) /\ Seen(ReposDir \o Clean(repo))
  PROVE  ServesInside'
<1>1. PICK r : r = [repo |-> repo, git |-> git, status |-> status]
  OBVIOUS
<1>2. r.repo = repo /\ r.git = git /\ r.status = status
  BY <1>1
<1>3. request' = <<r>> /\ fs' = fs
  BY <1>1 DEF Asked
<1>4. request'[1] = r
  BY ONLY <1>3
<1>5. PICK p : p = ReposDir \o Clean(repo)
  OBVIOUS
<1>6. (Inside(p)' <=> Inside(p)) /\ (Rooted' <=> Rooted)
  BY ONLY <1>3 DEF Inside, Rooted, EvalSymlinks
<1>7. /\ Seen(p) => Inside(p)
      /\ Inside(p) /\ ~Rooted => Seen(p)
  BY ONLY SeenInside
<1>8. status = "git" <=> git /\ Stays(repo) /\ Seen(p)
  BY <1>5
<1>9. /\ r.status = "git" => r.git /\ Stays(r.repo) /\ Inside(p)'
      /\ r.git /\ Stays(r.repo) /\ Inside(p)' /\ ~Rooted' => r.status = "git"
  BY ONLY <1>2, <1>6, <1>7, <1>8
<1> QED BY ONLY <1>2, <1>4, <1>5, <1>9 DEF ServesInside

(* ServesInside holds of no request and of every answer.                     *)
LEMMA ServesStep == ServesInside /\ [GitRoutesNext]_<<fs, request>> => ServesInside'
<1> SUFFICES ASSUME ServesInside, [GitRoutesNext]_<<fs, request>> PROVE ServesInside'
  OBVIOUS
<1>1. ASSUME NEW repo \in Repos PROVE repo \in Seq(Parts)
  <2>1. repo \in Seq(STRING) /\ STRING \subseteq Parts
    BY GitRoutesAssumption DEF Parts
  <2>2. Len(repo) \in Nat /\ repo = [i \in 1 .. Len(repo) |-> repo[i]]
    BY ONLY <2>1
  <2>3. \A i \in 1 .. Len(repo) : repo[i] \in Parts
    BY ONLY <2>1, ElementOfSeq
  <2> QED BY ONLY <2>2, <2>3
<1>2. ASSUME NEW repo \in Repos, NEW service \in BOOLEAN, Get(repo, service)
      PROVE  ServesInside'
  <2>1. PICK status : status = handleGitGet(repo \o <<"info", "refs">>, service)
    OBVIOUS
  <2>2. Asked(repo, service, status)
    BY ONLY <1>2, <2>1 DEF Get
  <2>3. status = "git" <=> service /\ Stays(repo) /\ Seen(ReposDir \o Clean(repo))
    BY ONLY service \in BOOLEAN, repo \in Repos, <1>1, <2>1, Got
  <2> QED BY ONLY <2>2, <2>3, AnsweredRight
<1>3. ASSUME NEW repo \in Repos, NEW pack \in Packs \cup {"info"}, Post(repo, pack)
      PROVE  ServesInside'
  <2>1. PICK status, git : status = handleGitPost(Append(repo, pack)) /\ git = (pack \in Packs)
    OBVIOUS
  <2>2. Asked(repo, git, status)
    BY ONLY <1>3, <2>1 DEF Post
  <2>3. status = "git" <=> git /\ Stays(repo) /\ Seen(ReposDir \o Clean(repo))
    BY ONLY pack \in Packs \cup {"info"}, repo \in Repos, <1>1, <2>1, Posted
  <2> QED BY ONLY <2>2, <2>3, AnsweredRight
<1>4. CASE UNCHANGED <<fs, request>>
  <2>1. fs' = fs /\ request' = request
    BY <1>4
  <2>2. PICK r, p : r = request[1] /\ p = ReposDir \o Clean(r.repo)
    OBVIOUS
  <2>3. (Inside(p)' <=> Inside(p)) /\ (Rooted' <=> Rooted)
    BY ONLY <2>1 DEF Inside, Rooted, EvalSymlinks
  <2>4. request # <<>> =>
          /\ r.status = "git" => r.git /\ Stays(r.repo) /\ Inside(p)
          /\ r.git /\ Stays(r.repo) /\ Inside(p) /\ ~Rooted => r.status = "git"
    BY ONLY <2>2, ServesInside DEF ServesInside
  <2>5. request'[1] = r
    BY ONLY <2>1, <2>2
  <2> QED BY ONLY <2>1, <2>2, <2>3, <2>4, <2>5 DEF ServesInside
<1> QED BY <1>2, <1>3, <1>4 DEF GitRoutesNext

(* The git backend serves a repository exactly if its path stays below       *)
(* ReposDir and, with all links followed, is inside of it, for every path,   *)
(* every tree of files and every directory but the root.                     *)
THEOREM ServesInsideHolds == GitRoutesSpec => []ServesInside
<1>1. GitRoutesInit => ServesInside
  BY DEF GitRoutesInit, ServesInside
<1> QED BY <1>1, ServesStep, PTL DEF GitRoutesSpec
=============================================================================
