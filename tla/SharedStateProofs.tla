-------------------------- MODULE SharedStateProofs -------------------------
(***************************************************************************)
(* Proofs about the components that keep a table of their own: the relay's *)
(* buffers, the inspector's ring and its lock-free readers, the SSH proxy  *)
(* pool, the table of names and addresses, and the engine of TLS           *)
(* interception with its CA files and its cache of certificates.  Each is  *)
(* proved by itself, for any number of threads, slots, names and           *)
(* addresses.                                                              *)
(***************************************************************************)
EXTENDS Inspector, Relay, MitmEngine, DnsCache, SshPool, FiniteSetTheorems,
        SequenceTheorems, WellFoundedInduction, TLAPS

InspectorSpec == InspectorInit /\ [][InspectorNext]_inspectorVars
RelaySpec == RelayInit /\ [][RelayNext]_relayVars
SshSpec == SshInit /\ [][SshNext]_sshVars
DnsSpec == DnsInit /\ [][DnsNext]_dnsVars
MitmSpec == MitmInit /\ [][MitmNext]_mitmVars

-----------------------------------------------------------------------------
(* Numbers. *)

\* A set of numbers has a least one.
LEMMA HasLeast ==
    ASSUME NEW S, S \subseteq Nat, S # {}
    PROVE  \E x \in S : \A y \in S : x <= y
<1> DEFINE R == OpToRel(<, Nat)
<1>1. IsWellFoundedOn(R, Nat)  BY NatLessThanWellFounded
<1>2. \A x, y \in Nat : x < y => <<x, y>> \in R  BY DEF OpToRel
<1> HIDE DEF R
<1>3. PICK x \in S : \A y \in S : ~ (<<y, x>> \in R)  BY <1>1, WFMin
<1>4. ASSUME NEW y \in S PROVE x <= y
  <2>1. ~(y < x)  BY <1>2, <1>3
  <2> QED  BY <2>1
<1> QED  BY <1>4

\* x % n for an x that wraps around at most once.
LEMMA WrapsOnce ==
    \A n \in Nat \ {0} : \A x \in 0..(2 * n - 1) : x % n = IF x < n THEN x ELSE x - n
<1> SUFFICES ASSUME NEW n \in Nat \ {0}, NEW x \in 0..(2 * n - 1)
             PROVE  x % n = IF x < n THEN x ELSE x - n
  OBVIOUS
<1> QED  OBVIOUS

-----------------------------------------------------------------------------
(* Sequences of numbers in increasing order. *)

Inc(s) == \A i, j \in 1..Len(s) : i < j => s[i] < s[j]
UpTo(s, n) == \A i \in 1..Len(s) : s[i] <= n
From(s, n) == \A i \in 1..Len(s) : n < s[i]
Precedes(s, t) == \A i \in 1..Len(s), j \in 1..Len(t) : s[i] < t[j]

\* One increasing sequence after another.
LEMMA IncConcat ==
    ASSUME NEW s \in Seq(Nat), NEW t \in Seq(Nat), Inc(s), Inc(t), Precedes(s, t)
    PROVE  s \o t \in Seq(Nat) /\ Inc(s \o t)
<1>1. /\ s \o t \in Seq(Nat) /\ Len(s \o t) = Len(s) + Len(t)
      /\ \A i \in 1..(Len(s) + Len(t)) :
            (s \o t)[i] = IF i <= Len(s) THEN s[i] ELSE t[i - Len(s)]
  BY ConcatProperties
<1>2. Len(s) \in Nat /\ Len(t) \in Nat  BY LenProperties
<1>3. ASSUME NEW i \in 1..Len(s \o t), NEW j \in 1..Len(s \o t), i < j
      PROVE  (s \o t)[i] < (s \o t)[j]
  <2>1. CASE j <= Len(s)
    <3>1. i \in 1..Len(s) /\ j \in 1..Len(s)  BY <1>1, <1>2, <1>3, <2>1
    <3> QED  BY <1>1, <1>3, <2>1, <3>1 DEF Inc
  <2>2. CASE ~(j <= Len(s)) /\ i <= Len(s)
    <3>1. i \in 1..Len(s) /\ j - Len(s) \in 1..Len(t)  BY <1>1, <1>2, <1>3, <2>2
    <3> QED  BY <1>1, <1>3, <2>2, <3>1 DEF Precedes
  <2>3. CASE ~(i <= Len(s))
    <3>1. /\ i - Len(s) \in 1..Len(t) /\ j - Len(s) \in 1..Len(t)
          /\ i - Len(s) < j - Len(s) /\ ~(j <= Len(s))
      BY <1>1, <1>2, <1>3, <2>3
    <3> QED  BY <1>1, <1>3, <2>3, <3>1 DEF Inc
  <2> QED  BY <2>1, <2>2, <2>3
<1> QED  BY <1>1, <1>3 DEF Inc

\* Where the elements of s \o t come from.
LEMMA ConcatElements ==
    ASSUME NEW s \in Seq(Nat), NEW t \in Seq(Nat), NEW i \in 1..Len(s \o t)
    PROVE  \/ \E j \in 1..Len(s) : (s \o t)[i] = s[j]
           \/ \E j \in 1..Len(t) : (s \o t)[i] = t[j]
<1>1. /\ Len(s \o t) = Len(s) + Len(t)
      /\ (s \o t)[i] = IF i <= Len(s) THEN s[i] ELSE t[i - Len(s)]
  BY ConcatProperties
<1>2. Len(s) \in Nat /\ Len(t) \in Nat  BY LenProperties
<1>3. CASE i <= Len(s)
  <2>1. i \in 1..Len(s)  BY <1>2, <1>3
  <2> QED  BY <1>1, <1>3, <2>1
<1>4. CASE ~(i <= Len(s))
  <2>1. i - Len(s) \in 1..Len(t)  BY <1>1, <1>2, <1>4
  <2> QED  BY <1>1, <1>4, <2>1
<1> QED  BY <1>3, <1>4

\* The consecutive numbers after n.
Numbers(n, k) == [i \in 1..k |-> n + i]

LEMMA NumbersFacts ==
    ASSUME NEW n \in Nat, NEW k \in Nat
    PROVE  /\ Numbers(n, k) \in Seq(Nat) /\ Len(Numbers(n, k)) = k
           /\ Inc(Numbers(n, k)) /\ From(Numbers(n, k), n) /\ UpTo(Numbers(n, k), n + k)
<1>1. Numbers(n, k) \in [1..k -> Nat]  BY DEF Numbers
<1>2. Numbers(n, k) \in Seq(Nat) /\ Len(Numbers(n, k)) = k  BY <1>1
<1>3. \A i \in 1..k : Numbers(n, k)[i] = n + i  BY DEF Numbers
<1> HIDE DEF Numbers
<1> QED  BY <1>2, <1>3 DEF Inc, From, UpTo

\* A stretch of them.
LEMMA NumbersPart ==
    \A n, k, a, b \in Nat : a <= b /\ b <= k =>
        SubSeq(Numbers(n, k), a + 1, b) = Numbers(n + a, b - a)
<1> SUFFICES ASSUME NEW n \in Nat, NEW k \in Nat, NEW a \in Nat, NEW b \in Nat, a <= b /\ b <= k
             PROVE  SubSeq(Numbers(n, k), a + 1, b) = Numbers(n + a, b - a)
  BY Zenon
<1> DEFINE c == Numbers(n, k)
<1>1. c \in Seq(Nat) /\ Len(c) = k  BY NumbersFacts
<1>2. \A i \in 1..(b - a) : c[i + a] = (n + a) + i  BY DEF Numbers
<1> HIDE DEF c
<1>3. SubSeq(c, a + 1, b) = [i \in 1..(b - a) |-> c[i + a]]  BY <1>1
<1>4. SubSeq(c, a + 1, b) = Numbers(n + a, b - a)  BY <1>2, <1>3 DEF Numbers
<1> QED  BY <1>4 DEF c

LEMMA NumbersFront ==
    \A n, k, b \in Nat : b <= k => SubSeq(Numbers(n, k), 1, b) = Numbers(n, b)
<1> SUFFICES ASSUME NEW n \in Nat, NEW k \in Nat, NEW b \in Nat, b <= k
             PROVE  SubSeq(Numbers(n, k), 1, b) = Numbers(n, b)
  OBVIOUS
<1> DEFINE c == Numbers(n, k)
<1>1. c \in Seq(Nat) /\ Len(c) = k  BY NumbersFacts
<1>2. \A i \in 1..b : c[i] = n + i  BY DEF Numbers
<1> HIDE DEF c
<1>3. SubSeq(c, 1, b) = [i \in 1..b |-> c[i]]  BY <1>1
<1>4. SubSeq(c, 1, b) = Numbers(n, b)  BY <1>2, <1>3 DEF Numbers
<1> QED  BY <1>4 DEF c

\* And two stretches in a row.
LEMMA NumbersConcat ==
    ASSUME NEW k \in Nat, NEW m \in Nat
    PROVE  Numbers(0, k) \o Numbers(k, m) = Numbers(0, k + m)
<1> DEFINE s == Numbers(0, k)
           t == Numbers(k, m)
<1>1. /\ s \in Seq(Nat) /\ t \in Seq(Nat) /\ Len(s) = k /\ Len(t) = m
  BY NumbersFacts
<1>20. /\ \A i \in 1..k : s[i] = i
       /\ \A i \in 1..m : t[i] = k + i
       /\ \A i \in 1..(k + m) : Numbers(0, k + m)[i] = i
  BY DEF Numbers
<1> HIDE DEF s, t
<1>2. /\ s \o t \in Seq(Nat) /\ Len(s \o t) = k + m
      /\ \A i \in 1..(k + m) : (s \o t)[i] = IF i <= k THEN s[i] ELSE t[i - k]
  BY <1>1, ConcatProperties
<1>3. ASSUME NEW i \in 1..(k + m) PROVE (s \o t)[i] = Numbers(0, k + m)[i]
  <2>1. CASE i <= k
    <3>1. i \in 1..k  BY <2>1
    <3>2. (s \o t)[i] = s[i]  BY <1>2, <2>1
    <3>3. s[i] = i /\ Numbers(0, k + m)[i] = i  BY <1>20, <3>1
    <3> QED  BY <3>2, <3>3
  <2>2. CASE ~(i <= k)
    <3>1. i - k \in 1..m  BY <2>2
    <3> QED  BY <1>2, <1>20, <2>2, <3>1
  <2> QED  BY <2>1, <2>2
<1>4. Numbers(0, k + m) \in Seq(Nat) /\ Len(Numbers(0, k + m)) = k + m
  BY NumbersFacts
<1>5. s \o t = Numbers(0, k + m)  BY <1>2, <1>3, <1>4, SeqEqual
<1> QED  BY <1>5 DEF s, t

-----------------------------------------------------------------------------
(* The relay. *)

RecordsKept == [bytes : Seq(Nat), moved : BOOLEAN]

\* Types, without the bound on the bytes sent.
RelayTypes ==
    /\ tls \in BOOLEAN /\ inspect \in BOOLEAN
    /\ socket \in [Dirs -> Seq(Nat)] /\ inside \in [Dirs -> Nat]
    /\ readBytes \in [Dirs -> Nat] /\ counted \in [Dirs -> Nat]
    /\ delivered \in [Dirs -> Seq(Nat)] /\ captured \in [Dirs -> Seq(Nat)]
    /\ unsent \in [Dirs -> RecordsKept] /\ refused \in [Dirs -> BOOLEAN]
    /\ step \in {"wait", "tx", "rx", "closed"}

\* What was delivered precedes what a TLS session keeps, and both were read;
\* before the first refusal all that was read was delivered and nothing kept.
StreamInOrder(d) ==
    LET r == readBytes[d]
        kept == unsent[d].bytes
    IN /\ UpTo(delivered[d], r)
       /\ Inc(kept) /\ UpTo(kept, r) /\ Precedes(delivered[d], kept)
       /\ ~refused[d] => delivered[d] = Numbers(0, r) /\ kept = <<>>
       /\ counted[d] = r
       /\ inspect => captured[d] = Numbers(0, r)

RelayInv ==
    /\ RelayTypes
    /\ \A d \in Dirs : Inc(delivered[d])
    /\ step # "closed" => \A d \in Dirs : StreamInOrder(d)

\* A read returns some bytes, and what it leaves behind is what it did not take.
LEMMA ReadFacts ==
    ASSUME RelayTypes, NEW d \in Dirs
    PROVE  /\ Available(d) \in Nat /\ Got(d) \in Nat /\ Got(d) <= Available(d)
           /\ Chunk(d) = Numbers(readBytes[d], Got(d))
           /\ ~tls => Available(d) = Len(socket[d]) \/ inside[d] > 0
<1>1. inside[d] \in Nat /\ socket[d] \in Seq(Nat) /\ readBytes[d] \in Nat
  BY DEF RelayTypes
<1>2. socket[d] # <<>> => Head(socket[d]) \in Nat  BY <1>1
<1>3. Len(socket[d]) \in Nat /\ (socket[d] = <<>> => Len(socket[d]) = 0)  BY <1>1
<1>4. Available(d) \in Nat  BY <1>1, <1>2, <1>3 DEF Available
<1>5. Got(d) \in Nat /\ Got(d) <= Available(d)  BY <1>4, RelayAssumption DEF Got
<1>6. Chunk(d) = Numbers(readBytes[d], Got(d))  BY DEF Chunk, Numbers
<1>7. ~tls => Available(d) = Len(socket[d]) \/ inside[d] > 0
  BY <1>1, <1>3 DEF Available
<1> QED  BY <1>4, <1>5, <1>6, <1>7

LEMMA ConsumeTypes ==
    ASSUME RelayTypes, NEW d \in Dirs, Got(d) > 0, Consume(d)
    PROVE  socket' \in [Dirs -> Seq(Nat)] /\ inside' \in [Dirs -> Nat]
<1>1. Available(d) \in Nat /\ Got(d) \in Nat /\ Got(d) <= Available(d)  BY ReadFacts
<1>2. /\ inside[d] \in Nat /\ socket[d] \in Seq(Nat)
      /\ socket \in [Dirs -> Seq(Nat)] /\ inside \in [Dirs -> Nat]
  BY DEF RelayTypes
<1>3. CASE ~tls
  <2>1. SubSeq(socket[d], Got(d) + 1, Len(socket[d])) \in Seq(Nat)
    <3>1. \A i \in (Got(d) + 1)..Len(socket[d]) : socket[d][i] \in Nat  BY <1>1, <1>2
    <3>2. Len(socket[d]) \in Nat  BY <1>2
    <3> QED  BY <1>1, <1>2, <3>1, <3>2, SubSeqProperties
  <2> QED  BY <1>2, <1>3, <2>1 DEF Consume
<1>4. CASE tls
  <2>1. Available(d) - Got(d) \in Nat  BY <1>1
  <2>2. inside' \in [Dirs -> Nat]  BY <1>2, <1>4, <2>1 DEF Consume
  <2>3. inside[d] > 0 \/ socket[d] # <<>>  BY <1>1, <1>2 DEF Available
  <2>4. socket[d] # <<>> => Tail(socket[d]) \in Seq(Nat)  BY <1>2
  <2>5. socket' \in [Dirs -> Seq(Nat)]  BY <1>2, <1>4, <2>3, <2>4 DEF Consume
  <2> QED  BY <2>2, <2>5
<1> QED  BY <1>3, <1>4

\* What a write may do to the stream, for a chunk of g bytes after the first r.
WriteIsSound(d, w) ==
    LET r == readBytes[d]
        g == Got(d)
    IN /\ w.out \in Seq(Nat) /\ Inc(w.out) /\ UpTo(w.out, r + g)
       /\ w.left \in RecordsKept /\ Inc(w.left.bytes) /\ UpTo(w.left.bytes, r + g)
       /\ Precedes(delivered[d], w.out) /\ Precedes(delivered[d], w.left.bytes)
       /\ Precedes(w.out, w.left.bytes) /\ w.short \in BOOLEAN
       /\ ~w.short /\ unsent[d].bytes = <<>> =>
             w.out = Numbers(r, g) /\ w.left.bytes = <<>>

LEMMA WritesAreSound ==
    ASSUME RelayInv, step # "closed", NEW d \in Dirs, NEW w \in Writes(d)
    PROVE  WriteIsSound(d, w)
<1> DEFINE r == readBytes[d]
           g == Got(d)
           c == Chunk(d)
           old == unsent[d]
           n == Len(old.bytes)
           rest == SubSeq(c, n + 1, Len(c))
<1>1. r \in Nat /\ g \in Nat /\ c = Numbers(r, g)
  BY ReadFacts DEF RelayInv, RelayTypes
<1>2. delivered[d] \in Seq(Nat) /\ old \in RecordsKept /\ old.bytes \in Seq(Nat) /\ n \in Nat
  BY DEF RelayInv, RelayTypes, RecordsKept
<1>3. /\ UpTo(delivered[d], r) /\ Inc(old.bytes) /\ UpTo(old.bytes, r)
      /\ Precedes(delivered[d], old.bytes)
  BY DEF RelayInv, StreamInOrder
<1>4. /\ c \in Seq(Nat) /\ Len(c) = g /\ Inc(c) /\ From(c, r) /\ UpTo(c, r + g)
  BY ZenonT(30), <1>1, NumbersFacts
<1>40. \A x, y \in Nat : /\ Numbers(x, y) \in Seq(Nat) /\ Inc(Numbers(x, y))
                         /\ From(Numbers(x, y), x) /\ UpTo(Numbers(x, y), x + y)
  BY NumbersFacts
<1>5. NoRecord \in RecordsKept /\ NoRecord.bytes = <<>>  BY DEF NoRecord, RecordsKept
<1>6. ASSUME NEW s \in Seq(Nat), From(s, r) PROVE Precedes(delivered[d], s)
  <2>1. \A i \in 1..Len(delivered[d]) : delivered[d][i] <= r /\ delivered[d][i] \in Nat
    BY <1>2, <1>3 DEF UpTo
  <2>2. \A i \in 1..Len(s) : r < s[i] /\ s[i] \in Nat  BY <1>6 DEF From
  <2> QED  BY <1>1, <2>1, <2>2 DEF Precedes
<1>7. ASSUME NEW s PROVE Precedes(s, <<>>) /\ Precedes(<<>>, s) /\ Inc(<<>>) /\ UpTo(<<>>, r + g)
  BY DEF Precedes, Inc, UpTo
<1>8. UpTo(old.bytes, r + g)
  <2>1. \A i \in 1..n : old.bytes[i] \in Nat  BY <1>2
  <2> QED  BY <1>1, <1>3, <2>1 DEF UpTo
<1>9. ASSUME n <= g
      PROVE  /\ rest \in Seq(Nat) /\ Inc(rest) /\ From(rest, r) /\ UpTo(rest, r + g)
             /\ Precedes(old.bytes, rest)
  <2>1. rest = Numbers(r + n, g - n)
    <3>1. rest = SubSeq(c, n + 1, g)  BY <1>4 DEF rest
    <3> HIDE DEF r, g, c, n, rest
    <3>2. r \in Nat /\ g \in Nat /\ n \in Nat /\ n <= g /\ g <= g  BY <1>1, <1>2, <1>9
    <3> QED  BY ZenonT(30), <1>1, <3>1, <3>2, NumbersPart
  <2> HIDE DEF r, g, c, n, rest
  <2>2. r + n \in Nat /\ g - n \in Nat /\ (r + n) + (g - n) = r + g  BY <1>1, <1>2, <1>9
  <2>3. /\ rest \in Seq(Nat) /\ Inc(rest) /\ From(rest, r + n) /\ UpTo(rest, r + g)
    BY <2>1, <2>2, NumbersFacts
  <2>4. From(rest, r)
    <3>1. \A i \in 1..Len(rest) : rest[i] \in Nat  BY <2>3
    <3> QED  BY <1>1, <1>2, <2>3, <3>1 DEF From
  <2>5. Precedes(old.bytes, rest)
    <3>1. \A i \in 1..Len(rest) : rest[i] \in Nat /\ r < rest[i]  BY <2>3, <2>4 DEF From
    <3>2. \A i \in 1..n : old.bytes[i] \in Nat  BY <1>2 DEF n
    <3>3. \A i \in 1..n : old.bytes[i] <= r  BY <1>3 DEF UpTo, n
    <3> QED  BY <1>1, <3>1, <3>2, <3>3 DEF Precedes, n
  <2> QED  BY <2>3, <2>4, <2>5
<1> HIDE DEF r, g, c, n, rest
<1>10. CASE ~tls
  <2>1. PICK k \in 0..g : w = [out |-> SubSeq(c, 1, k), left |-> NoRecord, short |-> k < g]
    BY <1>10 DEF Writes, PlainWrites, c, g
  <2>20. k \in Nat /\ k <= g /\ 0 \in Nat /\ 0 <= k  BY <1>1
  <2>2. SubSeq(c, 1, k) = Numbers(r, k)  BY <1>1, <2>20, NumbersFront
  <2>3. w.out = Numbers(r, k)  BY <2>1, <2>2
  <2>4. /\ w.out \in Seq(Nat) /\ Inc(w.out) /\ From(w.out, r) /\ UpTo(w.out, r + k)
    BY <1>1, <1>40, <2>20, <2>3
  <2>5. UpTo(w.out, r + g)
    <3>1. \A i \in 1..Len(w.out) : w.out[i] \in Nat  BY <2>4
    <3> QED  BY SMTT(30), <1>1, <2>20, <2>4, <3>1 DEF UpTo
  <2>6. w.left = NoRecord /\ w.short = (k < g)  BY <2>1
  <2>70. k # g => k < g  BY <1>1, <2>20
  <2>7. ~w.short => k = g  BY <2>6, <2>70, Zenon
  <2> QED  BY <1>5, <1>6, <1>7, <2>3, <2>4, <2>5, <2>6, <2>7 DEF WriteIsSound, r, g
<1>11. CASE tls /\ n = 0
  <2>1. \/ w = [out |-> c, left |-> NoRecord, short |-> FALSE]
        \/ w = [out |-> <<>>, left |-> [bytes |-> c, moved |-> FALSE], short |-> TRUE]
    BY <1>11 DEF Writes, TlsWrites, c, n
  <2>2. CASE w = [out |-> c, left |-> NoRecord, short |-> FALSE]
    BY <1>1, <1>4, <1>5, <1>6, <1>7, <2>2 DEF WriteIsSound, r, g
  <2>3. CASE w = [out |-> <<>>, left |-> [bytes |-> c, moved |-> FALSE], short |-> TRUE]
    <3>1. w.left \in RecordsKept /\ w.left.bytes = c /\ w.out = <<>> /\ w.short = TRUE
      BY <1>4, <2>3 DEF RecordsKept
    <3>2. <<>> \in Seq(Nat)  OBVIOUS
    <3> QED  BY <1>4, <1>6, <1>7, <3>1, <3>2 DEF WriteIsSound, r, g
  <2> QED  BY <2>1, <2>2, <2>3
<1>12. CASE tls /\ n # 0
  <2>1. old.bytes # <<>>  BY <1>12 DEF n
  <2>2. \/ w = [out |-> <<>>, left |-> old, short |-> TRUE]
        \/ n <= g /\ w = [out |-> old.bytes \o rest, left |-> NoRecord, short |-> FALSE]
        \/ n <= g /\ w = [out |-> old.bytes, left |-> [bytes |-> rest, moved |-> TRUE],
                           short |-> TRUE]
    <3>1. ~(n > Len(c)) => n <= g  BY <1>1, <1>2, <1>4 DEF n
    <3> QED  BY <1>12, <3>1 DEF Writes, TlsWrites, c, n, rest
  <2>3. CASE w = [out |-> <<>>, left |-> old, short |-> TRUE]
    <3>1. w.left = old /\ w.out = <<>> /\ w.short = TRUE /\ <<>> \in Seq(Nat)  BY <2>3
    <3> QED  BY <1>2, <1>3, <1>7, <1>8, <3>1 DEF WriteIsSound, r, g
  <2>4. CASE n <= g /\ w = [out |-> old.bytes \o rest, left |-> NoRecord, short |-> FALSE]
    <3>1. w.out = old.bytes \o rest /\ w.left = NoRecord /\ w.short = FALSE  BY <2>4
    <3>2. w.out \in Seq(Nat) /\ Inc(w.out)  BY <1>2, <1>3, <1>9, <2>4, <3>1, IncConcat
    <3>3. ASSUME NEW i \in 1..Len(w.out)
          PROVE  \/ \E j \in 1..Len(old.bytes) : w.out[i] = old.bytes[j]
                 \/ \E j \in 1..Len(rest) : w.out[i] = rest[j]
      BY <1>2, <1>9, <2>4, <3>1, ConcatElements
    <3>4. UpTo(w.out, r + g)  BY ZenonT(30), <1>8, <1>9, <2>4, <3>3 DEF UpTo
    <3>5. Precedes(delivered[d], rest)  BY <1>6, <1>9, <2>4
    <3>6. Precedes(delivered[d], w.out)  BY <1>3, <3>3, <3>5 DEF Precedes
    <3> QED  BY <1>5, <1>7, <2>1, <3>1, <3>2, <3>4, <3>6 DEF WriteIsSound, r, g
  <2>5. CASE n <= g /\ w = [out |-> old.bytes, left |-> [bytes |-> rest, moved |-> TRUE],
                            short |-> TRUE]
    <3>1. w.left \in RecordsKept /\ w.left.bytes = rest /\ w.out = old.bytes /\ w.short = TRUE
      BY <1>9, <2>5 DEF RecordsKept
    <3>2. Precedes(delivered[d], rest)  BY <1>6, <1>9, <2>5
    <3> QED  BY <1>2, <1>3, <1>8, <1>9, <2>5, <3>1, <3>2 DEF WriteIsSound, r, g
  <2> QED  BY <2>2, <2>3, <2>4, <2>5
<1> QED  BY <1>10, <1>11, <1>12 DEF RelayInv, RelayTypes

\* Appending a sound write keeps what was delivered in order.
LEMMA DeliveredGrows ==
    ASSUME RelayInv, step # "closed", NEW d \in Dirs, NEW w, WriteIsSound(d, w),
           delivered' = [delivered EXCEPT ![d] = @ \o w.out]
    PROVE  /\ delivered' \in [Dirs -> Seq(Nat)] /\ \A e \in Dirs : Inc(delivered[e])'
           /\ UpTo(delivered[d] \o w.out, readBytes[d] + Got(d))
           /\ Precedes(delivered[d] \o w.out, w.left.bytes)
<1> DEFINE s == delivered[d]
           t == w.out
<1>1. /\ s \in Seq(Nat) /\ t \in Seq(Nat) /\ Inc(s) /\ Inc(t) /\ Precedes(s, t)
      /\ UpTo(s, readBytes[d]) /\ readBytes[d] \in Nat /\ Got(d) \in Nat
      /\ delivered \in [Dirs -> Seq(Nat)]
  BY ReadFacts DEF RelayInv, RelayTypes, StreamInOrder, WriteIsSound
<1>2. /\ UpTo(t, readBytes[d] + Got(d)) /\ Precedes(s, w.left.bytes)
      /\ Precedes(t, w.left.bytes)
  BY DEF WriteIsSound
<1>3. delivered'[d] = s \o t /\ \A e \in Dirs : e # d => delivered'[e] = delivered[e]
  BY <1>1
<1> HIDE DEF s, t
<1>4. s \o t \in Seq(Nat) /\ Inc(s \o t)  BY <1>1, IncConcat
<1>5. ASSUME NEW i \in 1..Len(s \o t)
      PROVE  \/ \E j \in 1..Len(s) : (s \o t)[i] = s[j]
             \/ \E j \in 1..Len(t) : (s \o t)[i] = t[j]
  BY <1>1, ConcatElements
<1>6. \A j \in 1..Len(s) : s[j] <= readBytes[d] + Got(d)
  <2>1. \A j \in 1..Len(s) : s[j] \in Nat  BY <1>1
  <2> QED  BY <1>1, <2>1 DEF UpTo
<1>7. UpTo(s \o t, readBytes[d] + Got(d))  BY <1>2, <1>5, <1>6 DEF UpTo
<1>8. Precedes(s \o t, w.left.bytes)  BY <1>2, <1>5 DEF Precedes, s
<1>9. delivered' \in [Dirs -> Seq(Nat)]  BY <1>1, <1>4 DEF s, t
<1>10. ASSUME NEW e \in Dirs PROVE Inc(delivered[e])'
  <2>1. CASE e = d  BY <1>3, <1>4, <2>1
  <2>2. CASE e # d
    <3>1. Inc(delivered[e])  BY DEF RelayInv
    <3> QED  BY <1>3, <2>2, <3>1 DEF Inc
  <2> QED  BY <2>1, <2>2
<1> QED  BY <1>7, <1>8, <1>9, <1>10 DEF s, t

LEMMA TransferKeepsOrder ==
    ASSUME RelayInv, NEW d \in Dirs, Transfer(d)
    PROVE  RelayInv'
<1>1. step # "closed" /\ step = d /\ Got(d) > 0 /\ Consume(d)  BY DEF Transfer, Dirs
<1>2. PICK w \in Writes(d) :
          /\ delivered' = [delivered EXCEPT ![d] = @ \o w.out]
          /\ unsent' = [unsent EXCEPT ![d] = w.left]
          /\ refused' = [refused EXCEPT ![d] = @ \/ w.short]
  BY DEF Transfer
<1>3. WriteIsSound(d, w)  BY <1>1, WritesAreSound
<1>4. /\ delivered' \in [Dirs -> Seq(Nat)] /\ \A e \in Dirs : Inc(delivered[e])'
      /\ UpTo(delivered[d] \o w.out, readBytes[d] + Got(d))
      /\ Precedes(delivered[d] \o w.out, w.left.bytes)
  BY <1>1, <1>2, <1>3, DeliveredGrows
<1>5. RelayTypes  BY DEF RelayInv
<1>6. socket' \in [Dirs -> Seq(Nat)] /\ inside' \in [Dirs -> Nat]
  BY <1>1, <1>5, ConsumeTypes
<1>7. Got(d) \in Nat /\ Chunk(d) = Numbers(readBytes[d], Got(d)) /\ readBytes[d] \in Nat
  BY <1>5, ReadFacts DEF RelayTypes
<1>8. Chunk(d) \in Seq(Nat)  BY <1>7, NumbersFacts
<1>9. readBytes' \in [Dirs -> Nat] /\ counted' \in [Dirs -> Nat]
  BY SMTT(30), <1>5, <1>7 DEF RelayTypes, Transfer
<1>10. unsent' \in [Dirs -> RecordsKept] /\ refused' \in [Dirs -> BOOLEAN]
  <2>1. w.left \in RecordsKept /\ w.short \in BOOLEAN  BY <1>3 DEF WriteIsSound
  <2>2. unsent' \in [Dirs -> RecordsKept]  BY <1>2, <1>5, <2>1 DEF RelayTypes
  <2>3. (refused[d] \/ w.short) \in BOOLEAN  OBVIOUS
  <2>4. refused' \in [Dirs -> BOOLEAN]  BY <1>2, <1>5, <2>3 DEF RelayTypes
  <2> QED  BY <2>2, <2>4
<1>11. captured' \in [Dirs -> Seq(Nat)]
  <2>1. captured[d] \o Chunk(d) \in Seq(Nat)  BY <1>5, <1>8, ConcatProperties DEF RelayTypes
  <2> QED  BY <1>5, <2>1 DEF RelayTypes, Transfer
<1>12. RelayTypes'
  BY <1>4, <1>5, <1>6, <1>9, <1>10, <1>11 DEF RelayTypes, Transfer, AfterDir
<1>13. ASSUME NEW e \in Dirs PROVE StreamInOrder(e)'
  <2>1. CASE e # d
    <3>1. StreamInOrder(e)  BY <1>1 DEF RelayInv
    <3>2. /\ readBytes'[e] = readBytes[e] /\ counted'[e] = counted[e]
          /\ delivered'[e] = delivered[e] /\ unsent'[e] = unsent[e]
          /\ refused'[e] = refused[e] /\ captured'[e] = captured[e] /\ inspect' = inspect
      BY <1>2, <1>5, <2>1 DEF Transfer, RelayTypes
    <3> QED  BY <3>1, <3>2 DEF StreamInOrder, UpTo, Inc, Precedes, Numbers
  <2>2. CASE e = d
    <3> DEFINE r == readBytes[d]
               g == Got(d)
    <3>1. StreamInOrder(d)  BY <1>1 DEF RelayInv
    <3>2. /\ readBytes'[d] = r + g /\ counted'[d] = counted[d] + g
          /\ delivered'[d] = delivered[d] \o w.out /\ unsent'[d] = w.left
          /\ captured'[d] = (IF inspect THEN captured[d] \o Chunk(d) ELSE captured[d])
          /\ inspect' = inspect
      BY <1>2, <1>5 DEF Transfer, RelayTypes
    <3>20. refused'[d] = (refused[d] \/ w.short)  BY <1>2, <1>5 DEF RelayTypes
    <3>3. UpTo(delivered'[d], r + g) /\ Precedes(delivered'[d], w.left.bytes)  BY <1>4, <3>2
    <3>4. Inc(w.left.bytes) /\ UpTo(w.left.bytes, r + g)  BY <1>3 DEF WriteIsSound
    <3>5. Numbers(0, r) \o Numbers(r, g) = Numbers(0, r + g)  BY <1>7, NumbersConcat
    <3>6. ~refused'[d] => delivered'[d] = Numbers(0, r + g) /\ w.left.bytes = <<>>
      <4>1. SUFFICES ASSUME ~refused'[d]
                     PROVE  delivered'[d] = Numbers(0, r + g) /\ w.left.bytes = <<>>
        OBVIOUS
      <4>2. ~refused[d] /\ ~w.short  BY <3>20, <4>1
      <4>3. delivered[d] = Numbers(0, r) /\ unsent[d].bytes = <<>>
        BY <3>1, <4>2 DEF StreamInOrder
      <4>4. w.out = Numbers(r, g) /\ w.left.bytes = <<>>
        BY <1>3, <4>2, <4>3 DEF WriteIsSound
      <4> QED  BY <3>2, <3>5, <4>3, <4>4
    <3>7. counted'[d] = r + g  BY <3>1, <3>2 DEF StreamInOrder
    <3>8. inspect => captured'[d] = Numbers(0, r + g)
      BY <1>7, <3>1, <3>2, <3>5 DEF StreamInOrder
    <3> HIDE DEF r, g
    <3> QED  BY <2>2, <3>2, <3>3, <3>4, <3>6, <3>7, <3>8 DEF StreamInOrder
  <2> QED  BY <2>1, <2>2
<1> QED  BY <1>4, <1>12, <1>13 DEF RelayInv

LEMMA FailureKeepsOrder ==
    ASSUME RelayInv, NEW d \in Dirs, WriteFails(d)
    PROVE  RelayInv'
<1>1. step # "closed" /\ Got(d) > 0 /\ Consume(d)  BY DEF WriteFails, Dirs
<1>2. PICK w \in Writes(d) : delivered' = [delivered EXCEPT ![d] = @ \o w.out]
  BY DEF WriteFails
<1>3. delivered' \in [Dirs -> Seq(Nat)] /\ \A e \in Dirs : Inc(delivered[e])'
  BY <1>1, <1>2, WritesAreSound, DeliveredGrows
<1>4. RelayTypes  BY DEF RelayInv
<1>5. socket' \in [Dirs -> Seq(Nat)] /\ inside' \in [Dirs -> Nat]
  BY <1>1, <1>4, ConsumeTypes
<1>6. Got(d) \in Nat  BY <1>4, ReadFacts
<1>7. readBytes' \in [Dirs -> Nat]  BY <1>4, <1>6 DEF RelayTypes, WriteFails
<1>8. RelayTypes'  BY <1>3, <1>4, <1>5, <1>7 DEF RelayTypes, WriteFails
<1> QED  BY <1>3, <1>8 DEF RelayInv, WriteFails

\* The other steps move no byte to a destination.
LEMMA RestKeepsOrder ==
    ASSUME RelayInv, RelayTypes',
           UNCHANGED <<inspect, readBytes, counted, delivered, unsent, refused, captured>>,
           step = "closed" => step' = "closed"
    PROVE  RelayInv'
<1>1. \A d \in Dirs : StreamInOrder(d) => StreamInOrder(d)'
  BY DEF StreamInOrder, UpTo, Inc, Precedes, Numbers
<1>2. \A d \in Dirs : Inc(delivered[d])'  BY DEF RelayInv, Inc
<1> QED  BY <1>1, <1>2 DEF RelayInv

LEMMA RelayStepKeepsOrder == RelayInv /\ [RelayNext]_relayVars => RelayInv'
<1> SUFFICES ASSUME RelayInv, [RelayNext]_relayVars PROVE RelayInv'
  OBVIOUS
<1>1. ASSUME NEW d \in Dirs, SourceSends(d) PROVE RelayInv'
  <2>1. PICK n \in 1..(IF tls THEN RecordBytes ELSE 1) :
            socket' = [socket EXCEPT ![d] = Append(@, n)]
    BY <1>1 DEF SourceSends
  <2>2. n \in Nat  BY RelayAssumption
  <2>3. Append(socket[d], n) \in Seq(Nat)  BY <2>2 DEF RelayInv, RelayTypes
  <2>4. socket' \in [Dirs -> Seq(Nat)]  BY <2>1, <2>3 DEF RelayInv, RelayTypes
  <2>5. RelayTypes'  BY <1>1, <2>4 DEF RelayInv, RelayTypes, SourceSends
  <2> QED  BY <1>1, <2>5, RestKeepsOrder DEF SourceSends
<1>2. ASSUME NEW d \in Dirs, SourceEnds(d) PROVE RelayInv'
  <2>1. RelayTypes'  BY <1>2 DEF RelayInv, RelayTypes, SourceEnds
  <2> QED  BY <1>2, <2>1, RestKeepsOrder DEF SourceEnds
<1>3. CASE RelayStart
  <2>1. RelayTypes'  BY <1>3 DEF RelayInv, RelayTypes, RelayStart
  <2> QED  BY <1>3, <2>1, RestKeepsOrder DEF RelayStart
<1>4. ASSUME NEW d \in Dirs, ReadNothing(d) PROVE RelayInv'
  <2>1. RelayTypes'  BY <1>4 DEF RelayInv, RelayTypes, ReadNothing, AfterDir
  <2> QED  BY <1>4, <2>1, RestKeepsOrder DEF ReadNothing, Dirs
<1>5. ASSUME NEW d \in Dirs, ReadEnd(d) PROVE RelayInv'
  <2>1. RelayTypes'  BY <1>5 DEF RelayInv, RelayTypes, ReadEnd
  <2> QED  BY <1>5, <2>1, RestKeepsOrder DEF ReadEnd
<1>6. CASE UNCHANGED relayVars
  <2>1. RelayTypes'  BY <1>6 DEF RelayInv, RelayTypes, relayVars
  <2> QED  BY <1>6, <2>1, RestKeepsOrder DEF relayVars
<1> QED
  BY <1>1, <1>2, <1>3, <1>4, <1>5, <1>6, TransferKeepsOrder, FailureKeepsOrder
  DEF RelayNext, RelayDir

LEMMA RelayStarts == RelayInit => RelayInv
<1> SUFFICES ASSUME RelayInit PROVE RelayInv
  OBVIOUS
<1>1. <<>> \in Seq(Nat) /\ NoRecord \in RecordsKept /\ NoRecord.bytes = <<>>
  BY DEF NoRecord, RecordsKept
<1>2. RelayTypes
  BY <1>1 DEF RelayInit, RelayTypes, Zero, Nothing, Never
<1>3. Numbers(0, 0) = <<>>
  <2>1. Numbers(0, 0) \in Seq(Nat) /\ Len(Numbers(0, 0)) = 0  BY NumbersFacts
  <2> QED  BY <2>1, EmptySeq
<1>4. ASSUME NEW d \in Dirs PROVE Inc(delivered[d]) /\ StreamInOrder(d)
  <2>1. /\ delivered[d] = <<>> /\ unsent[d].bytes = <<>> /\ readBytes[d] = 0
        /\ counted[d] = 0 /\ captured[d] = <<>>
    BY <1>1 DEF RelayInit, Zero, Nothing
  <2> QED  BY <1>3, <2>1 DEF StreamInOrder, Inc, UpTo, Precedes
<1> QED  BY <1>2, <1>4 DEF RelayInv

\* However the stream is cut into records, reads and writes, the destination
\* gets its bytes in order and none twice, misses none before a refused write,
\* and the counters and the inspector are told of all (pf_tproxy_relay).
THEOREM RelayInOrder == RelaySpec => []RelayKeepsOrder
<1>1. RelayInv => RelayKeepsOrder
  <2> SUFFICES ASSUME RelayInv, NEW d \in Dirs
               PROVE  /\ \A k \in 1..Len(delivered[d])-1 :
                              delivered[d][k] < delivered[d][k + 1]
                      /\ step # "closed" =>
                            /\ ~refused[d] => delivered[d] = [k \in 1..readBytes[d] |-> k]
                            /\ counted[d] = readBytes[d]
                            /\ inspect => captured[d] = [k \in 1..counted[d] |-> k]
    BY DEF RelayKeepsOrder
  <2>1. \A k \in 1..Len(delivered[d])-1 : delivered[d][k] < delivered[d][k + 1]
    <3>1. Inc(delivered[d]) /\ Len(delivered[d]) \in Nat  BY DEF RelayInv, RelayTypes
    <3>2. \A k \in 1..Len(delivered[d])-1 :
              k \in 1..Len(delivered[d]) /\ k + 1 \in 1..Len(delivered[d]) /\ k < k + 1
      BY <3>1
    <3> QED  BY <3>1, <3>2 DEF Inc
  <2>2. ASSUME NEW n \in Nat PROVE Numbers(0, n) = [k \in 1..n |-> k]
    BY DEF Numbers
  <2>3. readBytes[d] \in Nat  BY DEF RelayInv, RelayTypes
  <2> QED  BY <2>1, <2>2, <2>3 DEF RelayInv, StreamInOrder
<1> QED  BY <1>1, RelayStarts, RelayStepKeepsOrder, PTL DEF RelaySpec

-----------------------------------------------------------------------------
(* The inspector: its queue. *)

\* Messages are in order, and those handled are behind.
QueueInv ==
    /\ offered \in Nat /\ pending \in Seq(Nat) /\ taken \in Seq(Nat)
    /\ handled \in SUBSET Nat /\ IsFiniteSet(handled)
    /\ Inc(taken) /\ Inc(pending) /\ Precedes(taken, pending)
    /\ UpTo(taken, offered) /\ UpTo(pending, offered)
    /\ \A m \in handled : m <= offered /\ From(taken, m) /\ From(pending, m)

\* The front of a sequence goes, the end grows by a number above all others.
LEMMA OfferSound ==
    ASSUME QueueInv, Queue!Offer
    PROVE  QueueInv' /\ handled' = handled
<1>1. /\ offered \in Nat /\ pending \in Seq(Nat) /\ taken \in Seq(Nat) /\ offered' = offered + 1
      /\ taken' = taken /\ handled' = handled
      /\ Len(pending) \in Nat /\ Len(taken) \in Nat
  BY DEF QueueInv, Queue!Offer
<1>2. PICK n \in Nat : n = offered + 1  BY <1>1
<1>3. PICK o \in {0, 1} :
        /\ pending' \in Seq(Nat) /\ Len(pending') \in Nat
        /\ \A i \in 1..Len(pending') :
              \/ pending'[i] = n /\ i = Len(pending')
              \/ i + o \in 1..Len(pending) /\ pending'[i] = pending[i + o] /\ i < Len(pending')
  <2>1. CASE pending' = Append(pending, n)
    <3>1. /\ pending' \in Seq(Nat) /\ Len(pending') = Len(pending) + 1
          /\ pending'[Len(pending) + 1] = n
          /\ \A i \in 1..Len(pending) : pending'[i] = pending[i]
      BY <1>1, <2>1, AppendProperties
    <3>2. \A i \in 1..Len(pending') : i + 0 = i /\ (i \in 1..Len(pending) \/ i = Len(pending) + 1)
      BY <1>1, <3>1
    <3>3. 0 \in {0, 1}  OBVIOUS
    <3>4. \A i \in 1..Len(pending) : i < Len(pending) + 1  BY <1>1
    <3> QED  BY SMTT(30), <1>1, <3>1, <3>2, <3>3, <3>4
  <2>2. CASE pending # <<>> /\ pending' = Append(Tail(pending), n)
    <3>1. /\ Tail(pending) \in Seq(Nat) /\ Len(Tail(pending)) = Len(pending) - 1
          /\ \A i \in 1..(Len(pending) - 1) : Tail(pending)[i] = pending[i + 1]
          /\ Len(Tail(pending)) \in Nat
      BY <1>1, <2>2
    <3>2. /\ pending' \in Seq(Nat) /\ Len(pending') = Len(pending)
          /\ pending'[Len(pending)] = n
          /\ \A i \in 1..(Len(pending) - 1) : pending'[i] = Tail(pending)[i]
      BY <1>1, <2>2, <3>1, AppendProperties
    <3>3. \A i \in 1..Len(pending') : i \in 1..(Len(pending) - 1) \/ i = Len(pending)
      BY <1>1, <3>2
    <3>4. \A i \in 1..(Len(pending) - 1) : i + 1 \in 1..Len(pending) /\ i < Len(pending)  BY <1>1
    <3>5. 1 \in {0, 1}  OBVIOUS
    <3> QED  BY <1>1, <3>1, <3>2, <3>3, <3>4, <3>5
  <2>3. \/ pending' = Append(pending, n)
        \/ pending' = Append(Tail(pending), n) /\ Len(pending) = QueueSize
    <3>1. \/ pending' = Append(pending, offered + 1)
          \/ pending' = Append(Tail(pending), offered + 1) /\ Len(pending) = QueueSize
      BY Zenon DEF Queue!Offer
    <3> QED  BY <1>2, <3>1
  <2>4. Len(pending) = QueueSize => pending # <<>>
    BY <1>1, InspectorAssumption
  <2> QED  BY <2>1, <2>2, <2>3, <2>4
<1>4. \A i \in 1..Len(pending) : pending[i] \in Nat /\ pending[i] < n
  <2>1. \A i \in 1..Len(pending) : pending[i] \in Nat  BY <1>1
  <2> QED  BY <1>1, <1>2, <2>1 DEF QueueInv, UpTo
<1>5. \A i \in 1..Len(taken) : taken[i] \in Nat /\ taken[i] < n
  <2>1. \A i \in 1..Len(taken) : taken[i] \in Nat  BY <1>1
  <2> QED  BY <1>1, <1>2, <2>1 DEF QueueInv, UpTo
<1>6. \A i \in 1..Len(pending') : pending'[i] \in Nat  BY <1>3
<1>7. Inc(pending')
  <2>1. ASSUME NEW i \in 1..Len(pending'), NEW j \in 1..Len(pending'), i < j
        PROVE  pending'[i] < pending'[j]
    <3>1. i < Len(pending')  BY <1>3, <2>1
    <3>2. i + o \in 1..Len(pending) /\ pending'[i] = pending[i + o]  BY <1>3, <3>1
    <3>3. CASE pending'[j] = n  BY <1>4, <3>2, <3>3
    <3>4. CASE j + o \in 1..Len(pending) /\ pending'[j] = pending[j + o]
      <4>1. i + o < j + o  BY <2>1
      <4> QED  BY <3>2, <3>4, <4>1 DEF QueueInv, Inc
    <3> QED  BY <1>3, <3>3, <3>4
  <2> QED  BY <2>1 DEF Inc
<1>8. UpTo(pending', n) /\ UpTo(taken, n)
  <2>1. ASSUME NEW i \in 1..Len(pending') PROVE pending'[i] <= n
    <3>1. CASE pending'[i] = n  BY <3>1
    <3>2. CASE i + o \in 1..Len(pending) /\ pending'[i] = pending[i + o]  BY <1>4, <3>2
    <3> QED  BY <1>3, <3>1, <3>2
  <2> QED  BY <1>5, <2>1 DEF UpTo
<1>9. Precedes(taken, pending')  BY <1>3, <1>5 DEF QueueInv, Precedes
<1>10. ASSUME NEW m \in handled PROVE m <= n /\ From(pending', m)
  <2>1. m \in Nat /\ m <= offered /\ From(pending, m)  BY <1>10 DEF QueueInv
  <2>2. m < n  BY <1>1, <1>2, <2>1
  <2> QED  BY <1>3, <2>1, <2>2 DEF From
<1> QED  BY <1>1, <1>2, <1>3, <1>7, <1>8, <1>9, <1>10 DEF QueueInv

\* What is left of a sequence after its first k elements.
LEMMA RestFacts ==
    ASSUME NEW q \in Seq(Nat), NEW k \in Nat, k <= Len(q)
    PROVE  /\ SubSeq(q, k + 1, Len(q)) \in Seq(Nat) /\ Len(SubSeq(q, k + 1, Len(q))) = Len(q) - k
           /\ \A i \in 1..(Len(q) - k) :
                 i + k \in 1..Len(q) /\ SubSeq(q, k + 1, Len(q))[i] = q[i + k]
<1>1. PICK n \in Nat : n = Len(q)  OBVIOUS
<1>2. PICK t : t = SubSeq(q, k + 1, n)  OBVIOUS
<1>3. t = [i \in 1..(n - k) |-> q[i + k]]  BY <1>1, <1>2
<1>4. \A i \in 1..(n - k) : i + k \in 1..n  BY <1>1
<1>5. t \in [1..(n - k) -> Nat] /\ n - k \in Nat  BY <1>1, <1>3, <1>4
<1>6. t \in Seq(Nat) /\ Len(t) = n - k  BY <1>5
<1> QED  BY <1>1, <1>2, <1>3, <1>4, <1>6

LEMMA TakeSound ==
    ASSUME QueueInv, Queue!Take
    PROVE  QueueInv' /\ handled' = handled
<1>1. /\ offered \in Nat /\ pending \in Seq(Nat) /\ taken = <<>> /\ Len(pending) \in Nat
      /\ UNCHANGED <<offered, handled>>
      /\ \E k \in 1..QueueBatch : /\ k <= Len(pending) /\ taken' = SubSeq(pending, 1, k)
                                  /\ pending' = SubSeq(pending, k + 1, Len(pending))
  BY DEF QueueInv, Queue!Take
<1>2. PICK k \in Nat : /\ k <= Len(pending) /\ taken' = SubSeq(pending, 1, k)
                       /\ pending' = SubSeq(pending, k + 1, Len(pending))
  BY <1>1
<1>3. /\ taken' \in Seq(Nat) /\ Len(taken') = k
      /\ \A i \in 1..k : i \in 1..Len(pending) /\ taken'[i] = pending[i]
  BY <1>1, <1>2
<1>4. /\ pending' \in Seq(Nat) /\ Len(pending') = Len(pending) - k
      /\ \A i \in 1..(Len(pending) - k) : i + k \in 1..Len(pending) /\ pending'[i] = pending[i + k]
  BY <1>1, <1>2, RestFacts
<1>5. Inc(taken') /\ Inc(pending')
  <2>1. Inc(taken')  BY <1>3 DEF QueueInv, Inc
  <2>2. ASSUME NEW i \in 1..Len(pending'), NEW j \in 1..Len(pending'), i < j
        PROVE  pending'[i] < pending'[j]
    <3>1. i + k < j + k  BY <1>4, <2>2
    <3> QED  BY <1>4, <3>1 DEF QueueInv, Inc
  <2> QED  BY <2>1, <2>2 DEF Inc
<1>6. Precedes(taken', pending')
  <2>1. ASSUME NEW i \in 1..Len(taken'), NEW j \in 1..Len(pending') PROVE taken'[i] < pending'[j]
    <3>1. i < j + k  BY <1>1, <1>3, <1>4
    <3> QED  BY <1>3, <1>4, <3>1 DEF QueueInv, Inc
  <2> QED  BY <2>1 DEF Precedes
<1>7. UpTo(taken', offered) /\ UpTo(pending', offered)  BY <1>3, <1>4 DEF QueueInv, UpTo
<1>8. \A m \in handled : From(taken', m) /\ From(pending', m)  BY <1>3, <1>4 DEF QueueInv, From
<1> QED  BY <1>1, <1>3, <1>4, <1>5, <1>6, <1>7, <1>8 DEF QueueInv

LEMMA HandleSound ==
    ASSUME QueueInv, Queue!Handle
    PROVE  /\ QueueInv' /\ Cardinality(handled) \in Nat
           /\ Cardinality(handled') = Cardinality(handled) + 1
<1>1. /\ taken \in Seq(Nat) /\ taken # <<>> /\ handled' = handled \cup {Head(taken)}
      /\ taken' = Tail(taken) /\ UNCHANGED <<offered, pending>> /\ offered \in Nat
      /\ pending \in Seq(Nat) /\ IsFiniteSet(handled) /\ handled \in SUBSET Nat
  BY DEF QueueInv, Queue!Handle
<1>2. PICK h : h = Head(taken)  OBVIOUS
<1>3. /\ Len(taken) \in Nat /\ Len(taken) > 0 /\ 1 \in 1..Len(taken) /\ h = taken[1] /\ h \in Nat
      /\ taken' \in Seq(Nat) /\ Len(taken') = Len(taken) - 1
      /\ \A i \in 1..(Len(taken) - 1) : i + 1 \in 1..Len(taken) /\ taken'[i] = taken[i + 1]
  BY <1>1, <1>2
<1>4. h \notin handled
  <2>1. \A m \in handled : m < taken[1] /\ m \in Nat  BY <1>1, <1>3 DEF QueueInv, From
  <2> QED  BY <1>3, <2>1
<1>5. IsFiniteSet(handled') /\ Cardinality(handled') = Cardinality(handled) + 1
  BY <1>1, <1>2, <1>4, FS_AddElement
<1>6. Cardinality(handled) \in Nat  BY <1>1, FS_CardinalityType
<1>7. Inc(taken')
  <2>1. ASSUME NEW i \in 1..Len(taken'), NEW j \in 1..Len(taken'), i < j PROVE taken'[i] < taken'[j]
    <3>1. i + 1 < j + 1  BY <2>1
    <3> QED  BY <1>3, <3>1 DEF QueueInv, Inc
  <2> QED  BY <2>1 DEF Inc
<1>8. Precedes(taken', pending) /\ UpTo(taken', offered)
  BY <1>3 DEF QueueInv, Precedes, UpTo
<1>9. h <= offered /\ From(pending, h)  BY <1>3 DEF QueueInv, UpTo, Precedes, From
<1>10. From(taken', h)
  <2>1. ASSUME NEW i \in 1..Len(taken') PROVE h < taken'[i]
    <3>1. 1 < i + 1  BY <1>3
    <3> QED  BY <1>3, <3>1 DEF QueueInv, Inc
  <2> QED  BY <2>1 DEF From
<1>11. \A m \in handled : m <= offered /\ From(taken', m) /\ From(pending, m)
  BY <1>3 DEF QueueInv, From
<1>12. handled' \in SUBSET Nat  BY <1>1, <1>2, <1>3
<1>13. \A m \in handled' : m <= offered /\ From(taken', m) /\ From(pending, m)
  BY <1>1, <1>2, <1>9, <1>10, <1>11
<1> QED  BY <1>1, <1>3, <1>5, <1>6, <1>7, <1>8, <1>12, <1>13 DEF QueueInv

-----------------------------------------------------------------------------
(* The inspector: its ring. *)

Cells == 0..RingSize-1
Capped(n) == IF n < RingSize THEN n ELSE RingSize

\* How many entries ago a cell was written, with the head at h.
Age(h, j) == IF j < h THEN h - j ELSE h - j + RingSize
After(h) == IF h + 1 < RingSize THEN h + 1 ELSE 0

\* The ring after n entries, its head at h.
Holds(r, h, n) == \A j \in Cells : r[j] = IF Age(h, j) <= n THEN n + 1 - Age(h, j) ELSE 0

RingTypes ==
    /\ ring \in [Cells -> Nat] /\ ringHead \in Cells /\ ringCount \in 0..RingSize
    /\ seq \in Nat /\ skippedH2 \in Nat /\ parseFail \in Nat /\ assets \in Nat

Counted == IF insert = "idle" THEN seq ELSE seq - 1
Deleted == IF insert = "delete" THEN seq - 1 ELSE seq

RingInv ==
    /\ RingTypes
    /\ insert \in {"idle", "delete", "store", "advance", "count"}
    /\ insert # "idle" => seq > 0
    /\ insert \in {"idle", "count"} => Holds(ring, ringHead, seq)
    /\ insert \in {"delete", "store"} => Holds(ring, ringHead, seq - 1)
    /\ insert = "advance" => Holds(ring, After(ringHead), seq)
    /\ ringCount = Capped(Counted)
    /\ freed = 1..(Deleted - Capped(Deleted))
    /\ Counted + skippedH2 + parseFail + assets = Cardinality(handled)

LEMMA RingSizeFacts == RingSize \in Nat /\ RingSize > 0
BY InspectorAssumption

\* An entry is written where the oldest one was.
LEMMA StoreHolds ==
    ASSUME NEW r \in [Cells -> Nat], NEW h \in Cells, NEW n \in Nat, n > 0, Holds(r, h, n - 1),
           NEW q, q = [r EXCEPT ![h] = n]
    PROVE  q \in [Cells -> Nat] /\ Holds(q, After(h), n)
<1>1. q \in [Cells -> Nat] /\ q[h] = n /\ \A j \in Cells : j # h => q[j] = r[j]  OBVIOUS
<1>2. Age(After(h), h) = 1  BY RingSizeFacts DEF Age, After, Cells
<1>3. ASSUME NEW j \in Cells, j # h PROVE Age(After(h), j) = Age(h, j) + 1 /\ Age(h, j) \in Nat
  BY <1>3, RingSizeFacts DEF Age, After, Cells
<1>4. ASSUME NEW j \in Cells
      PROVE  q[j] = IF Age(After(h), j) <= n THEN n + 1 - Age(After(h), j) ELSE 0
  <2>1. CASE j = h  BY <1>1, <1>2, <2>1
  <2>2. CASE j # h
    <3>1. PICK a \in Nat : a = Age(h, j) /\ Age(After(h), j) = a + 1  BY <1>3, <2>2
    <3>2. q[j] = IF a <= n - 1 THEN (n - 1) + 1 - a ELSE 0  BY <1>1, <2>2, <3>1 DEF Holds
    <3> QED  BY <3>1, <3>2
  <2> QED  BY <2>1, <2>2
<1> QED  BY <1>1, <1>4 DEF Holds

\* The entry the next one is written over.
LEMMA HeadCell ==
    ASSUME NEW r, NEW h \in Cells, NEW n \in Nat, Holds(r, h, n)
    PROVE  r[h] = IF RingSize <= n THEN n + 1 - RingSize ELSE 0
<1>1. Age(h, h) = RingSize  BY RingSizeFacts DEF Age, Cells
<1> QED  BY <1>1 DEF Holds

\* The at-th oldest of c entries.
LEMMA CellOf ==
    ASSUME RingTypes, NEW n \in Nat, Holds(ring, ringHead, n), ringCount = Capped(n),
           NEW at \in 0..(ringCount - 1)
    PROVE  ring[IndexOf(at)] = n - ringCount + at + 1
<1>1. /\ RingSize \in Nat \ {0} /\ ringHead \in 0..RingSize-1 /\ ringCount \in 0..RingSize
      /\ ringCount <= n
  BY RingSizeFacts DEF RingTypes, Cells, Capped
<1>2. PICK x \in Int : x = ringHead - ringCount + at + RingSize  BY <1>1
<1>3. x \in 0..(2 * RingSize - 1)  BY <1>1, <1>2
<1>4. IndexOf(at) = IF x < RingSize THEN x ELSE x - RingSize
  <2>1. IndexOf(at) = x % RingSize  BY <1>2 DEF IndexOf
  <2> QED  BY <1>1, <1>3, <2>1, WrapsOnce
<1>5. PICK i : i = IndexOf(at)  OBVIOUS
<1>6. i \in Cells /\ i \in Int  BY <1>1, <1>3, <1>4, <1>5 DEF Cells
<1>7. Age(ringHead, i) = ringCount - at
  <2>1. CASE x < RingSize
    <3>1. i = ringHead - ringCount + at + RingSize  BY <1>2, <1>4, <1>5, <1>6, <2>1
    <3>2. ~(i < ringHead)  BY <1>1, <3>1
    <3> QED  BY <1>1, <3>1, <3>2 DEF Age
  <2>2. CASE ~(x < RingSize)
    <3>1. i = ringHead - ringCount + at  BY <1>1, <1>2, <1>4, <1>5, <1>6, <2>2
    <3>2. i < ringHead  BY <1>1, <3>1
    <3> QED  BY <1>1, <3>1, <3>2 DEF Age
  <2> QED  BY <2>1, <2>2
<1>8. Age(ringHead, i) <= n  BY <1>1, <1>7
<1>9. ring[i] = n + 1 - (ringCount - at)  BY <1>6, <1>7, <1>8 DEF Holds
<1> QED  BY <1>1, <1>5, <1>9

\* Steps of the worker that make and store an entry.
LEMMA InsertKeepsRing ==
    ASSUME RingInv, BuildEntry \/ DeleteOld \/ StoreEntry \/ AdvanceHead
    PROVE  RingInv'
<1>1. /\ ring \in [Cells -> Nat] /\ ringHead \in Cells /\ ringCount \in 0..RingSize
      /\ seq \in Nat /\ seq \in Int
      /\ skippedH2 \in Nat /\ parseFail \in Nat /\ assets \in Nat
  BY DEF RingInv, RingTypes
<1>2. CASE BuildEntry
  <2>1. /\ insert = "idle" /\ insert' = "delete" /\ seq' = seq + 1
        /\ UNCHANGED <<ring, ringHead, ringCount, freed, skippedH2, parseFail, assets, handled>>
    BY <1>2 DEF BuildEntry, ringVars, queueVars
  <2>2. seq' \in Nat /\ seq' - 1 = seq /\ seq' > 0  BY <1>1, <2>1
  <2>3. Counted' = Counted /\ Deleted' = Deleted /\ Counted = seq /\ Deleted = seq
    BY <2>1, <2>2 DEF Counted, Deleted
  <2>4. Holds(ring, ringHead, seq)  BY <2>1 DEF RingInv
  <2>5. Capped(Counted)' = Capped(Counted) /\ Capped(Deleted)' = Capped(Deleted)
    BY <2>3 DEF Capped
  <2>6. RingTypes'  BY <1>1, <2>1, <2>2 DEF RingInv, RingTypes
  <2>7. Holds(ring, ringHead, seq - 1)'  BY <2>1, <2>2, <2>4
  <2> QED  BY <2>1, <2>2, <2>3, <2>5, <2>6, <2>7 DEF RingInv
<1>3. CASE DeleteOld
  <2>1. /\ insert = "delete" /\ insert' = "store" /\ freed' = freed \cup ({ring[ringHead]} \ {0})
        /\ UNCHANGED <<ring, ringHead, ringCount, seq, skippedH2, parseFail, assets, handled>>
    BY <1>3 DEF DeleteOld, queueVars, counters
  <2>2. PICK n \in Nat : n = seq - 1 /\ n + 1 = seq  BY <1>1, <2>1 DEF RingInv
  <2>3. /\ ring[ringHead] = IF RingSize <= n THEN n + 1 - RingSize ELSE 0
    <3>1. Holds(ring, ringHead, n)  BY <2>1, <2>2 DEF RingInv
    <3> QED  BY <1>1, <3>1, HeadCell
  <2>4. freed = 1..(n - Capped(n))  BY <2>1, <2>2 DEF RingInv, Deleted
  <2>5. freed' = 1..(seq - Capped(seq))
    <3>1. CASE RingSize <= n
      <4>1. freed = 1..(n - RingSize) /\ seq - Capped(seq) = n + 1 - RingSize
        BY <2>2, <2>4, <3>1, RingSizeFacts DEF Capped
      <4>2. {ring[ringHead]} \ {0} = {n + 1 - RingSize}  BY <2>3, <3>1, RingSizeFacts
      <4>3. 1..(n - RingSize) \cup {n + 1 - RingSize} = 1..(n + 1 - RingSize)
        BY <3>1, RingSizeFacts
      <4> QED  BY <2>1, <4>1, <4>2, <4>3
    <3>2. CASE ~(RingSize <= n)
      <4>1. freed = {} /\ seq - Capped(seq) = 0  BY <2>2, <2>4, <3>2, RingSizeFacts DEF Capped
      <4>2. {ring[ringHead]} \ {0} = {}  BY <2>3, <3>2
      <4> QED  BY <2>1, <4>1, <4>2
    <3> QED  BY <3>1, <3>2
  <2>6. /\ Deleted' = seq' /\ seq' = seq /\ Counted' = Counted
    BY <2>1 DEF Deleted, Counted
  <2>7. Capped(Counted)' = Capped(Counted) /\ Capped(Deleted)' = Capped(seq)
    BY <2>6 DEF Capped
  <2>8. freed' = 1..(Deleted' - Capped(Deleted)')  BY <2>5, <2>6, <2>7
  <2> QED  BY <2>1, <2>6, <2>7, <2>8 DEF RingInv, RingTypes
<1>4. CASE StoreEntry
  <2>1. /\ insert = "store" /\ insert' = "advance" /\ ring' = [ring EXCEPT ![ringHead] = seq]
        /\ UNCHANGED <<ringHead, ringCount, freed, seq, skippedH2, parseFail, assets, handled>>
    BY <1>4 DEF StoreEntry, queueVars, counters
  <2>2. seq > 0 /\ Holds(ring, ringHead, seq - 1)  BY <2>1 DEF RingInv
  <2>3. ring' \in [Cells -> Nat] /\ Holds(ring', After(ringHead), seq)
    BY <1>1, <2>1, <2>2, StoreHolds
  <2>4. Counted' = Counted /\ Deleted' = Deleted  BY <2>1 DEF Counted, Deleted
  <2>5. Holds(ring, After(ringHead), seq)'  BY <2>1, <2>3
  <2>6. RingTypes'  BY <1>1, <2>1, <2>3 DEF RingTypes
  <2> QED  BY <2>1, <2>4, <2>5, <2>6 DEF RingInv, Capped
<1>5. CASE AdvanceHead
  <2>1. /\ insert = "advance" /\ insert' = "count" /\ ringHead' = (ringHead + 1) % RingSize
        /\ UNCHANGED <<ring, ringCount, freed, seq, skippedH2, parseFail, assets, handled>>
    BY <1>5 DEF AdvanceHead, queueVars, counters
  <2>2. ringHead' = After(ringHead)
    <3>1. ringHead + 1 \in 0..(2 * RingSize - 1) /\ RingSize \in Nat \ {0}
      BY <1>1, RingSizeFacts DEF Cells
    <3>2. PICK x \in Int : x = ringHead + 1  BY <1>1 DEF Cells
    <3>3. x % RingSize = IF x < RingSize THEN x ELSE x - RingSize
      BY <3>1, <3>2, WrapsOnce
    <3> QED  BY <1>1, <2>1, <3>2, <3>3, RingSizeFacts DEF After, Cells
  <2>3. ringHead' \in Cells  BY <1>1, <2>2, RingSizeFacts DEF After, Cells
  <2>4. Holds(ring, After(ringHead), seq)  BY <2>1 DEF RingInv
  <2>5. Holds(ring, ringHead, seq)'  BY <2>1, <2>2, <2>4
  <2>6. Counted' = Counted /\ Deleted' = Deleted  BY <2>1 DEF Counted, Deleted
  <2>7. RingTypes'  BY <1>1, <2>1, <2>3 DEF RingTypes
  <2> QED  BY <2>1, <2>5, <2>6, <2>7 DEF RingInv, Capped
<1> QED  BY <1>2, <1>3, <1>4, <1>5

\* Messages handled are counted, as entries or otherwise.
LEMMA HandledIsCounted ==
    ASSUME QueueInv, RingInv, Discarded \/ CountEntry
    PROVE  QueueInv' /\ RingInv'
<1>1. /\ ring \in [Cells -> Nat] /\ ringHead \in Cells /\ ringCount \in 0..RingSize
      /\ seq \in Nat /\ seq \in Int
      /\ skippedH2 \in Nat /\ parseFail \in Nat /\ assets \in Nat
  BY DEF RingInv, RingTypes
<1>10. seq \in Nat /\ skippedH2 \in Nat /\ parseFail \in Nat /\ assets \in Nat  BY <1>1
<1>2. /\ QueueInv' /\ Cardinality(handled) \in Nat
      /\ Cardinality(handled') = Cardinality(handled) + 1
  BY HandleSound DEF Discarded, CountEntry
<1>3. CASE Discarded
  <2>1. /\ insert = "idle"
        /\ UNCHANGED <<ring, ringHead, ringCount, freed, seq, insert>>
    BY <1>3 DEF Discarded, ringVars
  <2>2. \/ skippedH2' = skippedH2 + 1 /\ parseFail' = parseFail + 0 /\ assets' = assets + 0
        \/ skippedH2' = skippedH2 + 0 /\ parseFail' = parseFail + 1 /\ assets' = assets + 0
        \/ skippedH2' = skippedH2 + 0 /\ parseFail' = parseFail + 0 /\ assets' = assets + 1
    <3>1. PICK k \in {"h2 preface", "unparsable", "asset"} :
            /\ skippedH2' = skippedH2 + IF k = "h2 preface" THEN 1 ELSE 0
            /\ parseFail' = parseFail + IF k = "unparsable" THEN 1 ELSE 0
            /\ assets' = assets + IF k = "asset" THEN 1 ELSE 0
      BY <1>3, Zenon DEF Discarded
    <3> QED  BY <3>1, Zenon
  <2>3. /\ skippedH2' \in Nat /\ parseFail' \in Nat /\ assets' \in Nat
        /\ seq + skippedH2' + parseFail' + assets' = seq + skippedH2 + parseFail + assets + 1
    BY <1>10, <2>2
  <2>4. seq + skippedH2 + parseFail + assets = Cardinality(handled)
    BY <2>1 DEF RingInv, Counted
  <2>5. seq + skippedH2' + parseFail' + assets' = Cardinality(handled')
    BY <1>2, <2>3, <2>4
  <2>6. Counted' = seq /\ Counted' = Counted /\ Deleted' = Deleted
    BY <2>1 DEF Counted, Deleted
  <2>7. RingTypes'  BY <1>1, <2>1, <2>3 DEF RingTypes
  <2>8. Holds(ring, ringHead, seq)'  BY <2>1 DEF RingInv, Holds, Age
  <2> QED  BY <1>2, <2>1, <2>5, <2>6, <2>7, <2>8 DEF RingInv, Capped
<1>4. CASE CountEntry
  <2>1. /\ insert = "count" /\ insert' = "idle"
        /\ ringCount' = IF ringCount < RingSize THEN ringCount + 1 ELSE ringCount
        /\ UNCHANGED <<ring, ringHead, freed, seq, skippedH2, parseFail, assets>>
    BY <1>4 DEF CountEntry, counters
  <2>2. seq > 0 /\ ringCount = Capped(seq - 1) /\ Holds(ring, ringHead, seq)
    BY <2>1 DEF RingInv, Counted
  <2>3. ringCount' = Capped(seq) /\ ringCount' \in 0..RingSize
    BY <1>1, <2>1, <2>2, RingSizeFacts DEF Capped
  <2>4. (seq - 1) + skippedH2 + parseFail + assets = Cardinality(handled)
    BY <2>1 DEF RingInv, Counted
  <2>5. seq + skippedH2 + parseFail + assets = Cardinality(handled')
    BY <1>1, <1>2, <2>4
  <2>6. Counted' = seq /\ Deleted' = Deleted
    BY <2>1 DEF Counted, Deleted
  <2>7. RingTypes'  BY <1>1, <2>1, <2>3 DEF RingTypes
  <2>8. Holds(ring, ringHead, seq)'  BY <2>1, <2>2
  <2>9. ringCount' = Capped(Counted)' /\ freed' = 1..(Deleted' - Capped(Deleted)')
    BY <2>1, <2>3, <2>6 DEF RingInv, Capped
  <2>10. Counted' + skippedH2' + parseFail' + assets' = Cardinality(handled')
    BY <2>1, <2>5, <2>6
  <2> QED  BY <1>2, <2>1, <2>7, <2>8, <2>9, <2>10 DEF RingInv
<1> QED  BY <1>3, <1>4

-----------------------------------------------------------------------------
(* The inspector: its polls. *)

\* The entries after the one numbered x.
Above(x) == Numbers(x, IF x < seq THEN seq - x ELSE 0)
Larger(a, b) == IF a > b THEN a ELSE b

PollRecords ==
    [op : {"none", "list", "get", "listed", "got"}, want : Nat, limit : Nat, at : Int,
     src : Nat, found : Seq(Nat), began : Nat]

\* A list has found what it wants of the entries from the newest to the at-th.
ListSound(p) ==
    /\ p.at \in -1..(ringCount - 1)
    /\ p.found = Above(Larger(p.want, seq - ringCount + p.at + 1))
    /\ Len(p.found) <= p.limit
    /\ p.src # 0 => /\ p.at >= 0 /\ p.src = seq - ringCount + p.at + 1
                    /\ Len(p.found) < p.limit

\* A get has looked at the entries from the oldest to the one before the at-th.
GetSound(p) ==
    /\ p.at \in 0..ringCount /\ p.limit = 1
    /\ p.found = IF p.want \in (seq - ringCount + 1)..(seq - ringCount + p.at)
                 THEN <<p.want>> ELSE <<>>
    /\ p.src # 0 => /\ p.at < ringCount /\ p.src = seq - ringCount + p.at + 1
                    /\ p.found = <<>>

PollSound(p) ==
    /\ p.op = "list" => ListSound(p)
    /\ p.op = "get" => GetSound(p)
    /\ p.op = "listed" => p.found = Reference(p.want, p.limit)
    /\ p.op = "got" => p.found = IF p.want \in (seq - ringCount + 1)..seq
                                 THEN <<p.want>> ELSE <<>>

\* A poll that began before the entry being inserted, or during an insertion,
\* stays behind: only one that began with the ring as it is has to be exact.
PollInv ==
    /\ poll \in PollRecords /\ (poll.op # "none" => poll.limit > 0)
    /\ poll.began <= seq /\ (insert # "idle" => poll.began < seq)
    /\ poll.src # 0 => poll.op \in {"list", "get"}
    /\ poll.began = seq /\ insert = "idle" => PollSound(poll)

LEMMA NumbersPrepend ==
    \A n, k \in Nat : <<n + 1>> \o Numbers(n + 1, k) = Numbers(n, k + 1)
<1> SUFFICES ASSUME NEW n \in Nat, NEW k \in Nat
             PROVE  <<n + 1>> \o Numbers(n + 1, k) = Numbers(n, k + 1)
  OBVIOUS
<1> DEFINE s == <<n + 1>>
           t == Numbers(n + 1, k)
           u == Numbers(n, k + 1)
<1>1. /\ s \in Seq(Nat) /\ t \in Seq(Nat) /\ Len(s) = 1 /\ Len(t) = k /\ s[1] = n + 1
      /\ u \in Seq(Nat) /\ Len(u) = k + 1
  <2>1. n + 1 \in Nat /\ k + 1 \in Nat  OBVIOUS
  <2>2. t \in Seq(Nat) /\ Len(t) = k  BY <2>1, NumbersFacts
  <2>3. u \in Seq(Nat) /\ Len(u) = k + 1  BY <2>1, NumbersFacts
  <2> HIDE DEF t, u
  <2> QED  BY <2>2, <2>3
<1>2. /\ \A i \in 1..k : t[i] = n + 1 + i
      /\ \A i \in 1..(k + 1) : u[i] = n + i
  BY DEF Numbers
<1> HIDE DEF s, t, u
<1>3. /\ s \o t \in Seq(Nat) /\ Len(s \o t) = k + 1
      /\ \A i \in 1..(k + 1) : (s \o t)[i] = IF i <= 1 THEN s[i] ELSE t[i - 1]
  <2>1. /\ s \o t \in Seq(Nat) /\ Len(s \o t) = Len(s) + Len(t)
        /\ \A i \in 1..(Len(s) + Len(t)) :
              (s \o t)[i] = IF i <= Len(s) THEN s[i] ELSE t[i - Len(s)]
    <3>1. s \in Seq(Nat) /\ t \in Seq(Nat)  BY <1>1
    <3> QED  BY <3>1, ConcatProperties
  <2>2. 1 + k = k + 1  OBVIOUS
  <2> QED  BY <1>1, <2>1, <2>2
<1>4. ASSUME NEW i \in 1..(k + 1) PROVE (s \o t)[i] = u[i]
  <2>1. CASE i <= 1  BY <1>1, <1>2, <1>3, <2>1
  <2>2. CASE ~(i <= 1)
    <3>1. i - 1 \in 1..k  BY <2>2
    <3> QED  BY <1>2, <1>3, <2>2, <3>1
  <2> QED  BY <2>1, <2>2
<1>5. s \o t = u  BY <1>1, <1>3, <1>4, SeqEqual
<1> QED  BY <1>5 DEF s, t, u

LEMMA AboveFacts ==
    ASSUME seq \in Nat
    PROVE  /\ \A x \in Nat : /\ Above(x) \in Seq(Nat)
                             /\ Len(Above(x)) = IF x < seq THEN seq - x ELSE 0
                             /\ x >= seq => Above(x) = <<>>
           /\ \A x \in Nat : 0 < x /\ x <= seq => <<x>> \o Above(x) = Above(x - 1)
<1>1. ASSUME NEW x \in Nat
      PROVE  /\ Above(x) \in Seq(Nat) /\ Len(Above(x)) = IF x < seq THEN seq - x ELSE 0
             /\ x >= seq => Above(x) = <<>>
  <2>10. (IF x < seq THEN seq - x ELSE 0) \in Nat  OBVIOUS
  <2>1. PICK k \in Nat : k = IF x < seq THEN seq - x ELSE 0  BY <2>10, Zenon
  <2>2. Above(x) = Numbers(x, k)  BY <2>1 DEF Above
  <2>3. Numbers(x, k) \in Seq(Nat) /\ Len(Numbers(x, k)) = k  BY NumbersFacts
  <2>4. x >= seq => k = 0  BY <2>1
  <2>5. k = 0 => Numbers(x, k) = <<>>  BY <2>3
  <2> QED  BY <2>1, <2>2, <2>3, <2>4, <2>5
<1>2. ASSUME NEW x \in Nat, 0 < x, x <= seq PROVE <<x>> \o Above(x) = Above(x - 1)
  <2>1. PICK n \in Nat, k \in Nat : n + 1 = x /\ k = seq - x  BY <1>2
  <2>2. Above(x) = Numbers(n + 1, k)
    <3>1. k = IF x < seq THEN seq - x ELSE 0  BY <1>2, <2>1
    <3> QED  BY <2>1, <3>1 DEF Above
  <2>3. Above(x - 1) = Numbers(n, k + 1)
    <3>1. x - 1 = n /\ k + 1 = IF n < seq THEN seq - n ELSE 0  BY <1>2, <2>1
    <3> QED  BY <3>1 DEF Above
  <2> QED  BY ZenonT(30), <2>1, <2>2, <2>3, NumbersPrepend
<1> QED  BY <1>1, <1>2

\* What a list should answer, as the entries after some number.
LEMMA ReferenceIsAbove ==
    ASSUME seq \in Nat, ringCount \in Nat, ringCount <= seq, NEW since \in Nat, NEW limit \in Nat
    PROVE  Reference(since, limit) = Above(Larger(Larger(since, seq - ringCount), seq - limit))
<1> DEFINE above == IF since + 1 > seq - ringCount + 1 THEN since + 1 ELSE seq - ringCount + 1
           from == IF seq - limit + 1 > above THEN seq - limit + 1 ELSE above
           x == Larger(Larger(since, seq - ringCount), seq - limit)
<1>1. Reference(since, limit)
        = [k \in 1..(IF from > seq THEN 0 ELSE seq - from + 1) |-> from + k - 1]
  BY DEF Reference
<1>2. x \in Nat /\ from = x + 1  BY DEF Larger
<1> HIDE DEF from, x
<1>3. (IF from > seq THEN 0 ELSE seq - from + 1) = IF x < seq THEN seq - x ELSE 0  BY <1>2
<1>40. (IF x < seq THEN seq - x ELSE 0) \in Nat  BY <1>2
<1>4. PICK n \in Nat : n = IF x < seq THEN seq - x ELSE 0  BY <1>40, Zenon
<1>5. Reference(since, limit) = [k \in 1..n |-> from + k - 1]  BY <1>1, <1>3, <1>4
<1>6. \A k \in 1..n : from + k - 1 = x + k  BY <1>2
<1>7. [k \in 1..n |-> from + k - 1] = Numbers(x, n)  BY <1>6 DEF Numbers
<1>8. Above(x) = Numbers(x, n)  BY <1>4 DEF Above
<1> QED  BY <1>5, <1>7, <1>8 DEF x

\* The ring holds at least the entries it counts.
LEMMA RingCountFacts ==
    ASSUME RingInv
    PROVE  /\ seq \in Nat /\ ringCount \in Nat /\ RingTypes
           /\ insert = "idle" => ringCount <= seq /\ Holds(ring, ringHead, seq)
           /\ insert = "idle" => ringCount = Capped(seq)
<1>1. seq \in Nat /\ ringCount \in Nat /\ RingTypes  BY RingSizeFacts DEF RingInv, RingTypes
<1>2. ASSUME insert = "idle"
      PROVE  ringCount = Capped(seq) /\ Holds(ring, ringHead, seq)
  BY <1>2 DEF RingInv, Counted
<1>3. Capped(seq) <= seq  BY <1>1, RingSizeFacts DEF Capped
<1> QED  BY <1>1, <1>2, <1>3

\* Steps that leave the poll and the ring alone.
LEMMA PollKept ==
    ASSUME PollInv, UNCHANGED <<poll, seq, insert, ringCount>>
    PROVE  PollInv'
<1>1. PollSound(poll)' = PollSound(poll)
  BY DEF PollSound, ListSound, GetSound, Above, Reference
<1> QED  BY <1>1 DEF PollInv

\* An insertion leaves every poll that is under way behind.
LEMMA InsertKeepsPoll ==
    ASSUME PollInv, RingInv, BuildEntry \/ DeleteOld \/ StoreEntry \/ AdvanceHead \/ CountEntry
    PROVE  PollInv'
<1>1. seq \in Nat /\ poll.began \in Nat  BY RingCountFacts DEF PollInv, PollRecords
<1>2. CASE BuildEntry
  <2>1. poll' = poll /\ seq' = seq + 1 /\ insert' = "delete"  BY <1>2 DEF BuildEntry
  <2>2. poll.began < seq' /\ poll.began <= seq'  BY <1>1, <2>1 DEF PollInv
  <2> QED  BY <2>1, <2>2 DEF PollInv
<1>3. CASE DeleteOld \/ StoreEntry \/ AdvanceHead \/ CountEntry
  <2>1. poll' = poll /\ seq' = seq /\ insert # "idle"
    BY <1>3 DEF DeleteOld, StoreEntry, AdvanceHead, CountEntry, counters
  <2>2. poll.began < seq /\ poll.began # seq  BY <1>1, <2>1 DEF PollInv
  <2> QED  BY <1>1, <2>1, <2>2 DEF PollInv
<1> QED  BY <1>2, <1>3

LEMMA NoPollFacts ==
    /\ NoPoll.op = "none" /\ NoPoll.want = 0 /\ NoPoll.limit = 0 /\ NoPoll.at = 0
    /\ NoPoll.src = 0 /\ NoPoll.found = <<>> /\ NoPoll.began = 0 /\ NoPoll \in PollRecords
BY DEF NoPoll, PollRecords

LEMMA ListSoundNext ==
    ASSUME UNCHANGED <<seq, ringCount>>, poll'.at \in -1..(ringCount - 1),
           NEW x, x = Larger(poll'.want, seq - ringCount + poll'.at + 1),
           poll'.found = Above(x), Len(poll'.found) <= poll'.limit,
           poll'.src # 0 => /\ poll'.at >= 0 /\ poll'.src = seq - ringCount + poll'.at + 1
                            /\ Len(poll'.found) < poll'.limit
    PROVE  ListSound(poll)'
<1>1. Above(x)' = Above(x)  BY DEF Above
<1>2. x = Larger(poll'.want, seq' - ringCount' + poll'.at + 1)  OBVIOUS
<1>3. Above(Larger(poll.want, seq - ringCount + poll.at + 1))' = Above(x)
  BY <1>1, <1>2 DEF Above
<1> HIDE DEF Above
<1> QED  BY <1>3 DEF ListSound

LEMMA StartListSound ==
    ASSUME PollInv, RingInv, StartList
    PROVE  PollInv'
<1>1. /\ seq \in Nat /\ ringCount \in Nat /\ (insert = "idle" => ringCount <= seq)
      /\ insert # "idle" => seq > 0
  BY RingCountFacts DEF RingInv
<1>2. /\ UNCHANGED <<seq, insert, ringCount>>
      /\ \E since \in 0..MaxChunks, l \in Limits :
            poll' = [NoPoll EXCEPT !.op = "list", !.want = since, !.limit = LimitOf(l),
                                   !.at = ringCount - 1, !.began = Whole]
  BY DEF StartList, counters, ringVars
<1>3. PICK since \in 0..MaxChunks, l \in Limits :
        poll' = [NoPoll EXCEPT !.op = "list", !.want = since, !.limit = LimitOf(l),
                               !.at = ringCount - 1, !.began = Whole]
  BY <1>2
<1>4. since \in Nat /\ LimitOf(l) \in Nat /\ LimitOf(l) > 0
  BY InspectorAssumption DEF LimitOf
<1>5. Whole \in Nat /\ Whole <= seq /\ (insert # "idle" => Whole < seq)
  BY <1>1 DEF Whole
<1>6. PICK lim \in Nat, whole \in Nat, c \in Int :
        lim = LimitOf(l) /\ whole = Whole /\ c = ringCount - 1
  BY <1>1, <1>4, <1>5
<1>7. poll' = [op |-> "list", want |-> since, limit |-> lim, at |-> c, src |-> 0,
               found |-> <<>>, began |-> whole]
  BY <1>3, <1>6 DEF NoPoll
<1>8. /\ poll'.op = "list" /\ poll'.want = since /\ poll'.limit = lim /\ poll'.at = c
      /\ poll'.src = 0 /\ poll'.found = <<>> /\ poll'.began = whole
      /\ poll' \in PollRecords
  BY <1>4, <1>7 DEF PollRecords
<1>9. ASSUME insert = "idle" PROVE ListSound(poll)'
  <2>1. poll'.at \in -1..(ringCount - 1)  BY <1>1, <1>6, <1>8
  <2>2. PICK x \in Nat : x = Larger(since, seq) /\ x >= seq  BY <1>1, <1>4 DEF Larger
  <2>3. Above(x) = <<>>  BY <1>1, <2>2, AboveFacts
  <2>4. seq - ringCount + c + 1 = seq  BY <1>1, <1>6
  <2>6. x = Larger(poll'.want, seq - ringCount + poll'.at + 1)  BY <1>8, <2>2, <2>4
  <2>7. Len(poll'.found) <= poll'.limit /\ poll'.found = Above(x)  BY <1>6, <1>8, <2>3
  <2> QED  BY <1>2, <1>8, <2>1, <2>6, <2>7, ListSoundNext
<1> QED  BY <1>2, <1>4, <1>5, <1>6, <1>8, <1>9 DEF PollInv, PollSound

LEMMA StartGetSound ==
    ASSUME PollInv, RingInv, StartGet
    PROVE  PollInv'
<1>1. /\ seq \in Nat /\ ringCount \in Nat /\ (insert = "idle" => ringCount <= seq)
      /\ insert # "idle" => seq > 0
  BY RingCountFacts DEF RingInv
<1>2. /\ UNCHANGED <<seq, insert, ringCount>>
      /\ \E want \in 1..MaxChunks :
            poll' = [NoPoll EXCEPT !.op = "get", !.want = want, !.limit = 1, !.began = Whole]
  BY DEF StartGet, counters, ringVars
<1>3. PICK want \in 1..MaxChunks :
        poll' = [NoPoll EXCEPT !.op = "get", !.want = want, !.limit = 1, !.began = Whole]
  BY <1>2
<1>4. want \in Nat  BY InspectorAssumption
<1>5. Whole \in Nat /\ Whole <= seq /\ (insert # "idle" => Whole < seq)
  BY <1>1 DEF Whole
<1>6. PICK whole \in Nat : whole = Whole  BY <1>5
<1>7. poll' = [op |-> "get", want |-> want, limit |-> 1, at |-> 0, src |-> 0,
               found |-> <<>>, began |-> whole]
  BY <1>3, <1>6 DEF NoPoll
<1>8. /\ poll'.op = "get" /\ poll'.want = want /\ poll'.limit = 1 /\ poll'.at = 0
      /\ poll'.src = 0 /\ poll'.found = <<>> /\ poll'.began = whole
      /\ poll' \in PollRecords
  BY <1>4, <1>7 DEF PollRecords
<1>9. ASSUME insert = "idle" PROVE GetSound(poll)'
  <2>1. 0 \in 0..ringCount  BY <1>1
  <2>2. want \notin (seq - ringCount + 1)..(seq - ringCount + 0)  BY <1>1, <1>4
  <2> QED  BY <1>2, <1>8, <2>1, <2>2 DEF GetSound
<1> QED  BY <1>2, <1>5, <1>6, <1>8, <1>9 DEF PollInv, PollSound

LEMMA ModInRange == \A n \in Nat \ {0} : \A x \in Int : x % n \in 0..(n - 1)
OBVIOUS

\* A pointer is loaded.
LEMMA LocateSound ==
    ASSUME PollInv, RingInv, Locate
    PROVE  PollInv'
<1>1. /\ seq \in Nat /\ ringCount \in Nat /\ ringCount \in Int /\ ringHead \in Int
      /\ ring \in [Cells -> Nat] /\ poll \in PollRecords /\ poll.at \in Int /\ poll.began \in Nat
      /\ poll.src = 0
  BY RingCountFacts DEF RingTypes, Cells, PollInv, PollRecords, Locate
<1>2. UNCHANGED <<seq, insert, ringCount>> /\ MorePoll
  BY DEF Locate, counters, ringVars
<1>3. PICK s : s = ring[IndexOf(poll.at)]  OBVIOUS
<1>4. PICK a : a = IF s = 0 THEN poll.at + Step ELSE poll.at  OBVIOUS
<1>5. poll' = [poll EXCEPT !.src = s, !.at = a]  BY <1>3, <1>4 DEF Locate
<1>6. s \in Nat
  <2>1. IndexOf(poll.at) \in Cells
    <3>1. PICK x \in Int : x = ringHead - ringCount + poll.at + RingSize  BY <1>1, RingSizeFacts
    <3>2. RingSize \in Nat \ {0}  BY RingSizeFacts
    <3>3. IndexOf(poll.at) = x % RingSize  BY <3>1 DEF IndexOf
    <3> QED  BY <3>2, <3>3, ModInRange DEF Cells
  <2> QED  BY <1>1, <1>3, <2>1
<1>7. a \in Int  BY <1>1, <1>4 DEF Step
<1>8. /\ poll' \in PollRecords /\ poll'.src = s /\ poll'.at = a /\ poll'.op = poll.op
      /\ poll'.want = poll.want /\ poll'.limit = poll.limit /\ poll'.found = poll.found
      /\ poll'.began = poll.began
  BY <1>1, <1>5, <1>6, <1>7 DEF PollRecords
<1>9. poll.op \in {"list", "get"} /\ Len(poll.found) < poll.limit
  BY <1>2 DEF MorePoll
<1>10. ASSUME poll.began = seq, insert = "idle" PROVE PollSound(poll)'
  <2>1. /\ ringCount <= seq /\ RingTypes /\ Holds(ring, ringHead, seq) /\ ringCount = Capped(seq)
    BY <1>10, RingCountFacts
  <2>2. ASSUME poll.at \in 0..(ringCount - 1)
        PROVE  s = seq - ringCount + poll.at + 1 /\ s # 0 /\ a = poll.at
    <3>1. s = seq - ringCount + poll.at + 1  BY <1>1, <1>3, <2>1, <2>2, CellOf
    <3>2. s > 0  BY <1>1, <2>1, <2>2, <3>1
    <3> QED  BY <1>4, <3>1, <3>2
  <2>3. CASE poll.op = "list"
    <3>1. ListSound(poll) /\ poll.at >= 0  BY <1>2, <1>10, <2>3 DEF PollInv, PollSound, MorePoll
    <3>2. poll.at \in 0..(ringCount - 1)  BY <1>1, <3>1 DEF ListSound
    <3>3. PICK x : x = Larger(poll.want, seq - ringCount + poll.at + 1)  OBVIOUS
    <3>4. poll.found = Above(x) /\ Len(poll.found) <= poll.limit /\ poll.at \in -1..(ringCount - 1)
      BY <3>1, <3>3 DEF ListSound
    <3>5. x = Larger(poll'.want, seq - ringCount + poll'.at + 1)  BY <1>8, <2>2, <3>2, <3>3
    <3>6. ListSound(poll)'
      BY <1>2, <1>8, <1>9, <2>2, <3>1, <3>2, <3>4, <3>5, ListSoundNext
    <3> QED  BY <1>8, <2>3, <3>6 DEF PollSound
  <2>4. CASE poll.op = "get"
    <3>1. GetSound(poll) /\ poll.at < ringCount
      BY <1>2, <1>10, <2>4 DEF PollInv, PollSound, MorePoll
    <3>2. poll.at \in 0..(ringCount - 1) /\ poll.at \in 0..ringCount /\ poll.limit = 1
      BY <1>1, <3>1 DEF GetSound
    <3>3. poll.found = <<>>
      BY <1>9, <3>1, <3>2 DEF GetSound
    <3>4. GetSound(poll)'
      BY <1>2, <1>8, <2>2, <3>1, <3>2, <3>3 DEF GetSound
    <3> QED  BY <1>8, <2>4, <3>4 DEF PollSound
  <2> QED  BY <1>9, <2>3, <2>4
<1> QED  BY <1>2, <1>8, <1>9, <1>10 DEF PollInv

\* The entry behind the pointer is taken, or passed over.
LEMMA ExamineSound ==
    ASSUME PollInv, RingInv, Examine
    PROVE  PollInv'
<1>1. /\ seq \in Nat /\ ringCount \in Nat /\ ringCount \in Int
      /\ poll \in PollRecords /\ poll.at \in Int /\ poll.began \in Nat /\ poll.src \in Nat
      /\ poll.want \in Nat /\ poll.found \in Seq(Nat) /\ poll.limit \in Nat /\ poll.src # 0
  BY RingCountFacts DEF PollInv, PollRecords, Examine
<1>2. UNCHANGED <<seq, insert, ringCount>>  BY DEF Examine, counters, ringVars
<1>3. CASE poll' = poll  BY <1>2, <1>3, PollKept
<1>4. CASE poll' # poll
  <2>1. PICK f : f = IF (IF poll.op = "list" THEN poll.src > poll.want ELSE poll.src = poll.want)
                     THEN <<poll.src>> \o poll.found ELSE poll.found
    OBVIOUS
  <2>2. poll' = [poll EXCEPT !.src = 0, !.at = @ + Step, !.found = f]
    BY <1>4, <2>1 DEF Examine
  <2>3. PICK a \in Int : a = poll.at + Step  BY <1>1 DEF Step
  <2>4. f \in Seq(Nat)
    <3>1. <<poll.src>> \in Seq(Nat)  BY <1>1
    <3>2. <<poll.src>> \o poll.found \in Seq(Nat)  BY <1>1, <3>1, ConcatProperties
    <3> QED  BY <1>1, <2>1, <3>2
  <2>5. /\ poll' \in PollRecords /\ poll'.src = 0 /\ poll'.at = a /\ poll'.op = poll.op
        /\ poll'.want = poll.want /\ poll'.limit = poll.limit /\ poll'.found = f
        /\ poll'.began = poll.began
    BY <1>1, <2>2, <2>3, <2>4 DEF PollRecords
  <2>6. poll.op \in {"list", "get"}  BY <1>1 DEF PollInv
  <2>7. ASSUME poll.began = seq, insert = "idle" PROVE PollSound(poll)'
    <3>1. ringCount <= seq  BY <2>7, RingCountFacts
    <3>2. CASE poll.op = "list"
      <4>1. /\ poll.at \in -1..(ringCount - 1) /\ poll.at >= 0 /\ a = poll.at - 1
            /\ poll.src = seq - ringCount + poll.at + 1 /\ Len(poll.found) < poll.limit
            /\ poll.found = Above(Larger(poll.want, poll.src))
        BY <1>1, <2>3, <2>7, <3>2 DEF PollInv, PollSound, ListSound, Step
      <4>2. a \in -1..(ringCount - 1) /\ seq - ringCount + a + 1 = poll.src - 1
        BY SMTT(30), <1>1, <4>1
      <4>3. PICK x \in Nat, y \in Nat : x = poll.src /\ y = poll.want  BY <1>1
      <4>4. x > 0 /\ x <= seq  BY <1>1, <3>1, <4>1, <4>3
      <4>5. f = IF x > y THEN <<x>> \o poll.found ELSE poll.found  BY <2>1, <3>2, <4>3
      <4>6. PICK z \in Nat : z = Larger(y, x - 1)  BY <4>4 DEF Larger
      <4>7. f = Above(z) /\ Len(f) <= poll.limit
        <5>1. CASE x > y
          <6>1. Larger(y, x) = x /\ z = x - 1  BY <4>4, <4>6, <5>1 DEF Larger
          <6>2. f = <<x>> \o Above(x)  BY <4>1, <4>3, <4>5, <5>1, <6>1
          <6>3. f = Above(z)  BY <1>1, <4>4, <6>1, <6>2, AboveFacts
          <6>4. /\ Len(Above(x)) = IF x < seq THEN seq - x ELSE 0
                /\ Len(Above(z)) = IF z < seq THEN seq - z ELSE 0
            BY <1>1, AboveFacts
          <6>5. Len(f) = Len(Above(x)) + 1 /\ Len(Above(x)) \in Nat
            BY <1>1, <4>4, <6>1, <6>3, <6>4
          <6>6. Len(Above(x)) < poll.limit  BY <4>1, <4>3, <6>1
          <6> QED  BY <1>1, <6>3, <6>5, <6>6
        <5>2. CASE ~(x > y)
          <6>1. Larger(y, x) = y /\ z = y  BY <4>4, <4>6, <5>2 DEF Larger
          <6>2. f = poll.found /\ Len(poll.found) \in Nat  BY <1>1, <4>5, <5>2
          <6> QED  BY <1>1, <4>1, <4>3, <6>1, <6>2
        <5> QED  BY <5>1, <5>2
      <4>8. z = Larger(poll'.want, seq - ringCount + poll'.at + 1)
        BY <2>5, <4>2, <4>3, <4>6
      <4>9. ListSound(poll)'  BY <1>2, <2>5, <4>2, <4>7, <4>8, ListSoundNext
      <4> QED  BY <2>5, <3>2, <4>9 DEF PollSound
    <3>3. CASE poll.op = "get"
      <4>1. /\ poll.at \in 0..ringCount /\ poll.at < ringCount /\ poll.limit = 1 /\ a = poll.at + 1
            /\ poll.src = seq - ringCount + poll.at + 1 /\ poll.found = <<>>
            /\ poll.want \notin (seq - ringCount + 1)..(seq - ringCount + poll.at)
        <5>1. GetSound(poll)  BY <2>7, <3>3 DEF PollInv, PollSound
        <5>2. <<poll.want>> # <<>>  OBVIOUS
        <5>3. a = poll.at + 1  BY <2>3, <3>3 DEF Step
        <5> QED  BY <1>1, <5>1, <5>2, <5>3 DEF GetSound
      <4>2. a \in 0..ringCount  BY <1>1, <4>1
      <4>3. f = IF poll.src = poll.want THEN <<poll.want>> ELSE <<>>
        <5>1. <<poll.src>> \o <<>> = <<poll.src>>
          <6>1. <<poll.src>> \in Seq(Nat)  BY <1>1
          <6> QED  BY <6>1, ConcatEmptySeq
        <5> QED  BY <2>1, <3>3, <4>1, <5>1
      <4>4. poll.src = poll.want <=> poll.want \in (seq - ringCount + 1)..(seq - ringCount + a)
        BY SMTT(30), <1>1, <3>1, <4>1
      <4>5. GetSound(poll)'
        <5>1. f = IF poll.want \in (seq - ringCount + 1)..(seq - ringCount + a)
                  THEN <<poll.want>> ELSE <<>>
          BY <4>3, <4>4
        <5> QED  BY <1>2, <2>5, <4>1, <4>2, <5>1 DEF GetSound
      <4> QED  BY <2>5, <3>3, <4>5 DEF PollSound
    <3> QED  BY <2>6, <3>2, <3>3
  <2> QED  BY <1>2, <2>5, <2>6, <2>7 DEF PollInv
<1> QED  BY <1>3, <1>4

\* The poll ends: at the limit, or at the end of the ring.
LEMMA EndPollSound ==
    ASSUME PollInv, RingInv, EndPoll
    PROVE  PollInv'
<1>1. /\ seq \in Nat /\ ringCount \in Nat /\ ringCount \in Int
      /\ poll \in PollRecords /\ poll.at \in Int /\ poll.began \in Nat /\ poll.src = 0
      /\ poll.want \in Nat /\ poll.found \in Seq(Nat) /\ poll.limit \in Nat
  BY RingCountFacts DEF PollInv, PollRecords, EndPoll
<1>2. UNCHANGED <<seq, insert, ringCount>> /\ ~MorePoll /\ poll.op \in {"list", "get"}
  BY DEF EndPoll, counters, ringVars
<1>3. PICK o : o = IF poll.op = "list" THEN "listed" ELSE "got"  OBVIOUS
<1>4. poll' = [poll EXCEPT !.op = o]  BY <1>3 DEF EndPoll
<1>5. /\ poll' \in PollRecords /\ poll'.src = 0 /\ poll'.op = o
      /\ poll'.want = poll.want /\ poll'.limit = poll.limit /\ poll'.found = poll.found
      /\ poll'.began = poll.began /\ o \in {"listed", "got"}
  BY <1>1, <1>3, <1>4 DEF PollRecords
<1>6. ASSUME poll.began = seq, insert = "idle" PROVE PollSound(poll)'
  <2>1. ringCount <= seq  BY <1>6, RingCountFacts
  <2>2. CASE poll.op = "list"
    <3>1. /\ poll.at \in -1..(ringCount - 1) /\ Len(poll.found) <= poll.limit
          /\ poll.found = Above(Larger(poll.want, seq - ringCount + poll.at + 1))
      BY <1>6, <2>2 DEF PollInv, PollSound, ListSound
    <3>2. Len(poll.found) >= poll.limit \/ poll.at = -1
      BY <1>1, <1>2, <2>2, <3>1 DEF MorePoll
    <3>3. poll.limit > 0  BY <1>2 DEF PollInv
    <3>4. PICK b \in Nat, w \in Nat, n \in Nat :
            b = seq - ringCount /\ w = poll.want /\ n = poll.limit
      <4>1. seq - ringCount \in Nat  BY <1>1, <2>1
      <4> QED  BY <1>1, <4>1, Zenon
    <3>5. PICK x \in Nat : x = Larger(w, b + poll.at + 1)
      <4>1. b + poll.at + 1 \in Nat  BY SMTT(30), <1>1, <3>1, <3>4
      <4> QED  BY <4>1 DEF Larger
    <3>6. Larger(Larger(w, b), seq - n) \in Nat  BY <1>1 DEF Larger
    <3>7. PICK y \in Nat : y = Larger(Larger(w, b), seq - n)  BY <3>6, Zenon
    <3>8. poll.found = Above(x)  BY <3>1, <3>4, <3>5
    <3>9. Reference(poll.want, poll.limit) = Above(y)
      BY <1>1, <2>1, <3>4, <3>7, ReferenceIsAbove
    <3>10. Len(poll.found) = IF x < seq THEN seq - x ELSE 0  BY <1>1, <3>8, AboveFacts
    <3>11. x = y
      <4>1. CASE poll.at = -1
        <5>1. x = Larger(w, b)  BY <3>4, <3>5, <4>1
        <5>2. (IF x < seq THEN seq - x ELSE 0) <= n  BY <3>1, <3>4, <3>10
        <5>3. seq - n <= x  BY <1>1, <5>2
        <5>4. y = x  BY <1>1, <3>7, <5>1, <5>3 DEF Larger
        <5> QED  BY <5>4
      <4>2. CASE Len(poll.found) >= poll.limit
        <5>1. (IF x < seq THEN seq - x ELSE 0) = n
          <6>1. Len(poll.found) = n  BY <1>1, <3>1, <3>4, <4>2
          <6> QED  BY <3>10, <6>1
        <5>2. x = seq - n  BY <1>1, <3>3, <3>4, <5>1
        <5>3. Larger(w, b) <= x  BY SMTT(30), <1>1, <3>1, <3>5 DEF Larger
        <5>4. y = x  BY <1>1, <3>7, <5>2, <5>3 DEF Larger
        <5> QED  BY <5>4
      <4> QED  BY <3>2, <4>1, <4>2
    <3>12. poll.found = Reference(poll.want, poll.limit)
      BY <3>8, <3>9, <3>11
    <3>13. o = "listed"  BY <1>3, <2>2
    <3>14. Reference(poll.want, poll.limit)' = Reference(poll.want, poll.limit)
      BY <1>2, <1>5 DEF Reference
    <3> QED  BY <1>5, <3>12, <3>13, <3>14 DEF PollSound
  <2>3. CASE poll.op = "get"
    <3>1. GetSound(poll)  BY <1>6, <2>3 DEF PollInv, PollSound
    <3>2. poll.limit = 1 /\ poll.at \in 0..ringCount  BY <3>1 DEF GetSound
    <3>3. Len(poll.found) >= 1 \/ poll.at = ringCount
      BY <1>1, <1>2, <2>3, <3>2 DEF MorePoll
    <3>4. poll.found = IF poll.want \in (seq - ringCount + 1)..seq THEN <<poll.want>> ELSE <<>>
      <4>1. CASE poll.at = ringCount
        <5>1. seq - ringCount + poll.at = seq  BY <1>1, <4>1
        <5> QED  BY <3>1, <5>1 DEF GetSound
      <4>2. CASE Len(poll.found) >= 1
        <5>1. poll.found # <<>>  BY <4>2
        <5>2. /\ poll.want \in (seq - ringCount + 1)..(seq - ringCount + poll.at)
              /\ poll.found = <<poll.want>>
          BY <3>1, <5>1 DEF GetSound
        <5>3. poll.want \in (seq - ringCount + 1)..seq  BY <1>1, <3>2, <5>2
        <5> QED  BY <5>2, <5>3
      <4> QED  BY <3>3, <4>1, <4>2
    <3>5. o = "got"  BY <1>3, <2>3
    <3> QED  BY <1>2, <1>5, <3>4, <3>5 DEF PollSound
  <2> QED  BY <1>2, <2>2, <2>3
<1>7. poll'.op # "none" => poll'.limit > 0  BY <1>2, <1>5 DEF PollInv
<1> QED  BY <1>1, <1>2, <1>5, <1>6, <1>7 DEF PollInv

LEMMA RespondSound ==
    ASSUME PollInv, RingInv, Respond
    PROVE  PollInv'
<1>1. poll' = NoPoll /\ UNCHANGED <<seq, insert, ringCount>>  BY DEF Respond, counters, ringVars
<1>2. seq \in Nat /\ (insert # "idle" => seq > 0)  BY RingCountFacts DEF RingInv
<1> QED  BY <1>1, <1>2, NoPollFacts DEF PollInv, PollSound

InspectorInv == QueueInv /\ RingInv /\ PollInv

LEMMA InspectorStepSound == InspectorInv /\ [InspectorNext]_inspectorVars => InspectorInv'
<1> SUFFICES ASSUME InspectorInv, [InspectorNext]_inspectorVars PROVE InspectorInv'
  OBVIOUS
<1>1. QueueInv /\ RingInv /\ PollInv  BY DEF InspectorInv
<1>2. ASSUME UNCHANGED <<offered, pending, taken, handled>> PROVE QueueInv'
  BY <1>1, <1>2 DEF QueueInv
<1>3. ASSUME handled' = handled, UNCHANGED <<ringVars, counters, insert>> PROVE RingInv'
  <2>1. Counted' = Counted /\ Deleted' = Deleted  BY <1>3 DEF Counted, Deleted, counters
  <2> QED  BY <1>1, <1>3, <2>1 DEF RingInv, RingTypes, ringVars, counters, Holds, Age, After, Capped
<1>4. CASE OnInspectData
  <2>1. QueueInv' /\ handled' = handled  BY <1>1, <1>4, OfferSound DEF OnInspectData
  <2>2. UNCHANGED <<ringVars, counters, insert, poll>>  BY <1>4 DEF OnInspectData
  <2>3. PollInv'  BY <1>1, <2>2, PollKept DEF ringVars, counters
  <2> QED  BY <1>3, <2>1, <2>2, <2>3 DEF InspectorInv
<1>5. CASE TakeBatch
  <2>1. QueueInv' /\ handled' = handled  BY <1>1, <1>5, TakeSound DEF TakeBatch
  <2>2. UNCHANGED <<ringVars, counters, insert, poll>>  BY <1>5 DEF TakeBatch
  <2>3. PollInv'  BY <1>1, <2>2, PollKept DEF ringVars, counters
  <2> QED  BY <1>3, <2>1, <2>2, <2>3 DEF InspectorInv
<1>6. CASE Discarded
  <2>1. QueueInv' /\ RingInv'  BY <1>1, <1>6, HandledIsCounted
  <2>2. UNCHANGED <<seq, ringCount, insert, poll>>  BY <1>6 DEF Discarded, ringVars
  <2>3. PollInv'  BY <1>1, <2>2, PollKept
  <2> QED  BY <2>1, <2>3 DEF InspectorInv
<1>7. CASE CountEntry
  BY <1>1, <1>7, HandledIsCounted, InsertKeepsPoll DEF InspectorInv
<1>8. CASE BuildEntry \/ DeleteOld \/ StoreEntry \/ AdvanceHead
  <2>1. UNCHANGED <<offered, pending, taken, handled>>
    BY <1>8 DEF BuildEntry, DeleteOld, StoreEntry, AdvanceHead, queueVars
  <2> QED  BY <1>1, <1>2, <1>8, <2>1, InsertKeepsRing, InsertKeepsPoll DEF InspectorInv
<1>9. CASE StartList \/ StartGet \/ Locate \/ Examine \/ EndPoll \/ Respond
  <2>1. UNCHANGED <<queueVars, ringVars, counters, insert>>
    BY <1>9 DEF StartList, StartGet, Locate, Examine, EndPoll, Respond
  <2>2. QueueInv' /\ RingInv'  BY <1>2, <1>3, <2>1 DEF queueVars
  <2>3. PollInv'
    BY <1>1, <1>9, StartListSound, StartGetSound, LocateSound, ExamineSound, EndPollSound,
       RespondSound
  <2> QED  BY <2>2, <2>3 DEF InspectorInv
<1>10. CASE UNCHANGED inspectorVars
  <2>1. UNCHANGED <<offered, pending, taken, handled, ringVars, counters, insert, poll>>
    BY <1>10 DEF inspectorVars, ringVars, counters
  <2>2. PollInv'  BY <1>1, <2>1, PollKept DEF ringVars, counters
  <2> QED  BY <1>2, <1>3, <2>1, <2>2 DEF InspectorInv
<1> QED  BY <1>4, <1>5, <1>6, <1>7, <1>8, <1>9, <1>10 DEF InspectorNext

LEMMA InspectorStarts == InspectorInit => InspectorInv
<1> SUFFICES ASSUME InspectorInit PROVE InspectorInv
  OBVIOUS
<1>1. /\ offered = 0 /\ pending = <<>> /\ taken = <<>> /\ handled = {}
      /\ ring = [i \in 0..RingSize-1 |-> 0] /\ ringHead = 0 /\ ringCount = 0
      /\ seq = 0 /\ skippedH2 = 0 /\ parseFail = 0 /\ assets = 0
      /\ insert = "idle" /\ freed = {} /\ poll = NoPoll
  BY DEF InspectorInit, Queue!Init
<1>2. QueueInv
  <2>1. IsFiniteSet({})  BY FS_EmptySet
  <2> QED  BY <1>1, <2>1 DEF QueueInv, Inc, Precedes, UpTo
<1>3. RingInv
  <2>1. Cardinality(handled) = 0  BY <1>1, FS_EmptySet
  <2>2. RingTypes  BY <1>1, RingSizeFacts DEF RingTypes, Cells
  <2>3. Holds(ring, ringHead, seq)
    <3>1. ASSUME NEW j \in Cells PROVE ring[j] = 0 /\ ~(Age(0, j) <= 0)
      BY <1>1, RingSizeFacts DEF Age, Cells
    <3> QED  BY <1>1, <3>1 DEF Holds
  <2>4. Counted = 0 /\ Deleted = 0 /\ Capped(0) = 0
    BY <1>1, RingSizeFacts DEF Counted, Deleted, Capped
  <2>5. 1..(0 - 0) = {}  OBVIOUS
  <2> QED  BY <1>1, <2>1, <2>2, <2>3, <2>4, <2>5 DEF RingInv
<1>4. PollInv  BY <1>1, NoPollFacts DEF PollInv, PollSound
<1> QED  BY <1>2, <1>3, <1>4 DEF InspectorInv

LEMMA InspectorInvariance == InspectorSpec => []InspectorInv
BY InspectorStarts, InspectorStepSound, PTL DEF InspectorSpec

\* Whenever the worker is not inserting, the ring holds the latest entries in
\* order, exactly the older ones are deleted, and every message handled is an
\* entry or in a counter, for a ring of any size (capture_process_msg).
THEOREM RingIsLatest == InspectorSpec => []RingHoldsLatest
<1>1. InspectorInv => RingHoldsLatest
  <2> SUFFICES ASSUME InspectorInv, insert = "idle"
               PROVE  /\ ringCount = IF seq < RingSize THEN seq ELSE RingSize
                      /\ \A at \in 0..ringCount-1 : ring[IndexOf(at)] = seq - ringCount + at + 1
                      /\ freed = 1..(seq - ringCount)
                      /\ seq + skippedH2 + parseFail + assets = Cardinality(handled)
    BY DEF RingHoldsLatest
  <2>1. RingInv  BY DEF InspectorInv
  <2>2. /\ seq \in Nat /\ RingTypes /\ Holds(ring, ringHead, seq) /\ ringCount = Capped(seq)
    BY <2>1, RingCountFacts
  <2>3. \A at \in 0..ringCount-1 : ring[IndexOf(at)] = seq - ringCount + at + 1
    BY <2>2, CellOf
  <2>4. freed = 1..(seq - ringCount)  BY <2>1, <2>2 DEF RingInv, Deleted
  <2>5. seq + skippedH2 + parseFail + assets = Cardinality(handled)
    BY <2>1 DEF RingInv, Counted
  <2> QED  BY <2>2, <2>3, <2>4, <2>5 DEF Capped
<1> QED  BY <1>1, InspectorInvariance, PTL

\* A poll during which no entry is inserted answers exactly, though it takes
\* no lock: inspect.list with the newest entries above since_seq within the
\* limit, oldest first, inspect.get with the entry asked for.
THEOREM PollsExact == InspectorSpec => []PollsAreExact
<1>1. InspectorInv => PollsAreExact  BY DEF InspectorInv, PollInv, PollSound, PollsAreExact
<1> QED  BY <1>1, InspectorInvariance, PTL

-----------------------------------------------------------------------------
(* The pool of SSH sessions. *)

SshSessions == [connected : BOOLEAN, proxy : SshProxies \cup {0}, sock : Nat, born : Nat]
SshTests == [at : {"none", "session", "channel", "end", "closed"}, proxy : SshProxies \cup {0},
             retry : BOOLEAN, slot : 0..PoolSize,
             outcome : {"none", "ok", "exhausted", "no session", "no channel"}]

\* The sessions are in the slots counted, each with a proxy and a socket of
\* its own, and the sockets open are theirs.
PoolInv ==
    /\ pool \in [PoolSlots -> SshSessions] /\ poolCount \in 0..PoolSize /\ sockets \in Nat
    /\ \A i \in PoolSlots : pool[i].connected => i <= poolCount /\ pool[i].sock <= sockets
    /\ \A i, j \in PoolSlots : pool[i].connected /\ pool[j].connected /\ i # j =>
          pool[i].proxy # pool[j].proxy /\ pool[i].sock # pool[j].sock
    /\ \A s : s \in open <=> \E i \in PoolSlots : pool[i].connected /\ pool[i].sock = s

\* A test that looks for a session again has none to find; one that has a
\* session after a retry has made it.
TestInv ==
    /\ test \in SshTests /\ tests \in Nat
    /\ test.at # "end" => test.outcome = "none"
    /\ test.at \in {"session", "channel"} => test.proxy \in SshProxies
    /\ test.at = "closed" => \A i \in PoolSlots : ~pool[i].connected
    /\ test.at = "channel" =>
          /\ test.slot \in PoolSlots /\ pool[test.slot].connected
          /\ pool[test.slot].proxy = test.proxy
          /\ test.retry => pool[test.slot].born = tests
    /\ test.at = "session" /\ test.retry =>
          \A i \in PoolSlots : pool[i].connected => pool[i].proxy # test.proxy
    /\ test.outcome = "exhausted" =>
          \A i \in PoolSlots : pool[i].connected /\ pool[i].proxy # test.proxy
    /\ test.outcome = "no channel" => pool[test.slot].born = tests

SshInv == PoolInv /\ TestInv

LEMMA PoolSlotFacts == PoolSize \in Nat /\ PoolSlots \subseteq Nat /\ PoolSlots = 1..PoolSize
BY SshPoolAssumption DEF PoolSlots

LEMMA LowestIsMember ==
    ASSUME NEW S, S \subseteq Nat, S # {} PROVE Lowest(S) \in S
BY HasLeast DEF Lowest

\* The slot for a new session holds none, and is the next one or a counted one;
\* there is none only when all slots hold a session.
LEMMA NewSlotIsFree ==
    ASSUME PoolInv
    PROVE  /\ NewSlot # 0 => /\ NewSlot \in PoolSlots /\ ~pool[NewSlot].connected
                             /\ NewSlot <= poolCount + 1
           /\ NewSlot = 0 => \A i \in PoolSlots : pool[i].connected /\ i <= poolCount
<1>1. poolCount \in 0..PoolSize  BY DEF PoolInv
<1>2. CASE poolCount < PoolSize
  <2>1. NewSlot = poolCount + 1  BY <1>2 DEF NewSlot
  <2>2. poolCount + 1 \in PoolSlots  BY <1>1, <1>2, PoolSlotFacts
  <2>3. ~(poolCount + 1 <= poolCount)  BY <1>1
  <2> QED  BY <1>1, <2>1, <2>2, <2>3 DEF PoolInv
<1>3. CASE ~(poolCount < PoolSize)
  <2>1. poolCount = PoolSize  BY <1>1, <1>3, PoolSlotFacts
  <2>2. CASE DeadSlots # {}
    <3>1. DeadSlots \subseteq Nat  BY <1>1 DEF DeadSlots
    <3>2. Lowest(DeadSlots) \in DeadSlots  BY <2>2, <3>1, LowestIsMember
    <3>3. NewSlot = Lowest(DeadSlots)  BY <1>3, <2>2 DEF NewSlot
    <3>4. NewSlot \in 1..poolCount /\ ~pool[NewSlot].connected  BY <3>2, <3>3 DEF DeadSlots
    <3> QED  BY <1>1, <2>1, <3>4, PoolSlotFacts
  <2>3. CASE DeadSlots = {}
    <3>1. \A i \in PoolSlots : pool[i].connected  BY <2>1, <2>3, PoolSlotFacts DEF DeadSlots
    <3>2. NewSlot = 0  BY <1>3, <2>3 DEF NewSlot
    <3> QED  BY <2>1, <3>1, <3>2, PoolSlotFacts
  <2> QED  BY <2>2, <2>3
<1> QED  BY <1>2, <1>3

\* A step that leaves the pool alone.
LEMMA PoolKept ==
    ASSUME PoolInv, UNCHANGED <<pool, poolCount, open, sockets>>
    PROVE  PoolInv'
BY DEF PoolInv

\* A failed attempt clears a slot that held no session.
LEMMA CreateFailsSound ==
    ASSUME SshInv, CreateFails
    PROVE  SshInv'
<1> DEFINE n == NewSlot
<1>1. /\ n \in PoolSlots /\ ~pool[n].connected
  BY NewSlotIsFree DEF CreateFails, SshInv
<1>2. pool' = [pool EXCEPT ![n] = NoSession]  BY DEF CreateFails, Cleared
<1>3. pool \in [PoolSlots -> SshSessions] /\ NoSession \in SshSessions /\ ~NoSession.connected
  BY DEF SshInv, PoolInv, NoSession, SshSessions
<1> HIDE DEF n
<1>4. /\ pool' \in [PoolSlots -> SshSessions] /\ ~pool'[n].connected
      /\ \A i \in PoolSlots : i # n => pool'[i] = pool[i]
  BY <1>1, <1>2, <1>3
<1>5. \A i \in PoolSlots : pool'[i].connected => pool'[i] = pool[i] /\ pool[i].connected
  BY <1>4
<1>6. \A i \in PoolSlots : pool[i].connected => pool'[i] = pool[i]
  BY <1>1, <1>4
<1>7. PoolInv'  BY <1>4, <1>5, <1>6 DEF SshInv, PoolInv, CreateFails
<1>8. /\ test \in SshTests /\ tests' = tests /\ tests \in Nat
      /\ test' = [test EXCEPT !.at = "end", !.outcome = "no session"]
  BY DEF CreateFails, SshInv, TestInv
<1>9. test' \in SshTests /\ test'.at = "end" /\ test'.outcome = "no session"
  BY <1>8 DEF SshTests
<1>10. TestInv'  BY <1>8, <1>9 DEF TestInv
<1> QED  BY <1>7, <1>10 DEF SshInv

LEMMA CreateSessionSound ==
    ASSUME SshInv, CreateSession
    PROVE  SshInv'
<1> DEFINE n == NewSlot
           new == [connected |-> TRUE, proxy |-> test.proxy, sock |-> sockets + 1, born |-> tests]
<1>1. n \in PoolSlots /\ ~pool[n].connected /\ n <= poolCount + 1
  BY NewSlotIsFree DEF CreateSession, SshInv
<1>2. /\ pool' = [pool EXCEPT ![n] = new] /\ sockets' = sockets + 1
      /\ open' = open \cup {sockets + 1} /\ tests' = tests
      /\ poolCount' = (IF n = poolCount + 1 THEN poolCount + 1 ELSE poolCount)
      /\ test' = [test EXCEPT !.at = "channel", !.slot = n]
  BY DEF CreateSession
<1>3. /\ pool \in [PoolSlots -> SshSessions] /\ poolCount \in 0..PoolSize /\ sockets \in Nat
      /\ test \in SshTests /\ tests \in Nat /\ test.outcome = "none"
  BY DEF SshInv, PoolInv, TestInv, CreateSession
<1>4. test.at = "session" /\ Session(test.proxy) = {}  BY DEF CreateSession
<1>5. \A i \in PoolSlots : pool[i].connected => pool[i].proxy # test.proxy
  <2>1. \A i \in PoolSlots : pool[i].connected => i \in 1..poolCount
    BY <1>3, PoolSlotFacts DEF SshInv, PoolInv
  <2> QED  BY <1>4, <2>1 DEF Session
<1>6. test.proxy \in SshProxies
  BY <1>4 DEF SshInv, TestInv
<1>7. new \in SshSessions /\ new.connected /\ new.proxy = test.proxy /\ new.sock = sockets + 1
      /\ new.born = tests
  BY <1>3, <1>6 DEF SshSessions
<1> HIDE DEF n, new
<1>8. /\ pool' \in [PoolSlots -> SshSessions] /\ pool'[n] = new
      /\ \A i \in PoolSlots : i # n => pool'[i] = pool[i]
  BY <1>1, <1>2, <1>3, <1>7
<1>9. poolCount' \in 0..PoolSize /\ n <= poolCount' /\ poolCount <= poolCount'
  BY <1>1, <1>2, <1>3, PoolSlotFacts
<1>10. \A i \in PoolSlots : pool'[i].connected => i <= poolCount' /\ pool'[i].sock <= sockets'
  <2>1. ASSUME NEW i \in PoolSlots, i # n, pool'[i].connected
        PROVE  i <= poolCount' /\ pool'[i].sock <= sockets'
    <3>1. i <= poolCount /\ pool[i].sock <= sockets /\ pool[i].sock \in Nat
      BY <1>3, <1>8, <2>1 DEF SshInv, PoolInv, SshSessions
    <3> QED  BY <1>2, <1>3, <1>8, <1>9, <2>1, <3>1, PoolSlotFacts
  <2>2. n <= poolCount' /\ pool'[n].sock <= sockets'  BY <1>2, <1>3, <1>7, <1>8, <1>9
  <2> QED  BY <2>1, <2>2
<1>11. ASSUME NEW i \in PoolSlots, i # n, pool'[i].connected
       PROVE  pool'[i] = pool[i] /\ pool[i].proxy # new.proxy /\ pool[i].sock # new.sock
  <2>1. pool[i].connected /\ pool'[i] = pool[i]  BY <1>8, <1>11
  <2>2. pool[i].sock <= sockets /\ pool[i].sock \in Nat
    BY <1>3, <2>1 DEF SshInv, PoolInv, SshSessions
  <2> QED  BY <1>3, <1>5, <1>7, <2>1, <2>2
<1>12. \A i, j \in PoolSlots : pool'[i].connected /\ pool'[j].connected /\ i # j =>
          pool'[i].proxy # pool'[j].proxy /\ pool'[i].sock # pool'[j].sock
  BY <1>8, <1>11 DEF SshInv, PoolInv
<1>13. \A s : s \in open' <=> \E i \in PoolSlots : pool'[i].connected /\ pool'[i].sock = s
  <2>1. ASSUME NEW s \in open' PROVE \E i \in PoolSlots : pool'[i].connected /\ pool'[i].sock = s
    <3>1. CASE s = sockets + 1  BY <1>1, <1>7, <1>8, <3>1
    <3>2. CASE s \in open
      <4>1. PICK i \in PoolSlots : pool[i].connected /\ pool[i].sock = s
        BY <3>2 DEF SshInv, PoolInv
      <4> QED  BY <1>1, <1>8, <4>1
    <3> QED  BY <1>2, <2>1, <3>1, <3>2
  <2>2. ASSUME NEW i \in PoolSlots, pool'[i].connected PROVE pool'[i].sock \in open'
    <3>1. CASE i = n  BY <1>2, <1>7, <1>8, <3>1
    <3>2. CASE i # n
      <4>1. pool'[i] = pool[i] /\ pool[i].sock \in open  BY <1>8, <2>2, <3>2 DEF SshInv, PoolInv
      <4> QED  BY <1>2, <4>1
    <3> QED  BY <3>1, <3>2
  <2> QED  BY <2>1, <2>2
<1>14. PoolInv'  BY <1>2, <1>3, <1>8, <1>9, <1>10, <1>12, <1>13 DEF PoolInv
<1>15. /\ test' \in SshTests /\ test'.at = "channel" /\ test'.slot = n
       /\ test'.outcome = "none" /\ test'.proxy = test.proxy
  <2>1. n \in 0..PoolSize  BY <1>1, PoolSlotFacts
  <2> QED  BY <1>2, <1>3, <2>1 DEF SshTests
<1>16. TestInv'  BY <1>1, <1>2, <1>3, <1>6, <1>7, <1>8, <1>15 DEF TestInv
<1> QED  BY <1>14, <1>16 DEF SshInv

\* session_invalidate frees the slot and closes its socket.
LEMMA RetrySessionSound ==
    ASSUME SshInv, RetrySession
    PROVE  SshInv'
<1> DEFINE n == test.slot
<1>1. n \in PoolSlots /\ pool[n].connected /\ pool[n].proxy = test.proxy
  BY DEF SshInv, TestInv, RetrySession
<1>2. /\ open' = open \ {pool[n].sock} /\ UNCHANGED <<poolCount, sockets, tests>>
      /\ pool' = [pool EXCEPT ![n] = [[pool[n] EXCEPT !.connected = FALSE] EXCEPT !.sock = 0]]
      /\ test' = [test EXCEPT !.at = "session", !.retry = TRUE]
  <2>1. pool \in [PoolSlots -> SshSessions]  BY DEF SshInv, PoolInv
  <2> QED  BY <1>1, <2>1 DEF RetrySession, Invalidate
<1>3. /\ pool \in [PoolSlots -> SshSessions] /\ test \in SshTests /\ tests \in Nat
      /\ test.outcome = "none" /\ test.proxy \in SshProxies
  BY DEF SshInv, PoolInv, TestInv, RetrySession
<1>4. /\ test' \in SshTests /\ test'.at = "session" /\ test'.outcome = "none"
      /\ test'.proxy = test.proxy
  BY <1>2, <1>3 DEF SshTests
<1>5. /\ [[pool[n] EXCEPT !.connected = FALSE] EXCEPT !.sock = 0] \in SshSessions
      /\ ~[[pool[n] EXCEPT !.connected = FALSE] EXCEPT !.sock = 0].connected
  BY <1>1, <1>3 DEF SshSessions
<1>6. /\ pool' \in [PoolSlots -> SshSessions] /\ ~pool'[n].connected
      /\ \A i \in PoolSlots : i # n => pool'[i] = pool[i]
  BY <1>1, <1>2, <1>3, <1>5
<1> HIDE DEF n
<1>7. \A i \in PoolSlots : pool'[i].connected =>
          i # n /\ pool'[i] = pool[i] /\ pool[i].connected
  BY <1>6
<1>8. \A i \in PoolSlots : pool[i].connected /\ i # n =>
          pool[i].proxy # test.proxy /\ pool[i].sock # pool[n].sock
  BY <1>1 DEF SshInv, PoolInv
<1>9. \A s : s \in open' <=> \E i \in PoolSlots : pool'[i].connected /\ pool'[i].sock = s
  <2>1. ASSUME NEW s \in open' PROVE \E i \in PoolSlots : pool'[i].connected /\ pool'[i].sock = s
    <3>1. s \in open /\ s # pool[n].sock  BY <1>2, <2>1
    <3>2. PICK i \in PoolSlots : pool[i].connected /\ pool[i].sock = s
      BY <3>1 DEF SshInv, PoolInv
    <3>3. i # n  BY <3>1, <3>2
    <3> QED  BY <1>6, <3>2, <3>3
  <2>2. ASSUME NEW i \in PoolSlots, pool'[i].connected PROVE pool'[i].sock \in open'
    <3>1. i # n /\ pool'[i] = pool[i] /\ pool[i].connected  BY <1>7, <2>2
    <3>2. pool[i].sock \in open  BY <3>1 DEF SshInv, PoolInv
    <3> QED  BY <1>2, <1>8, <3>1, <3>2
  <2> QED  BY <2>1, <2>2
<1>10. PoolInv'  BY <1>2, <1>6, <1>7, <1>9 DEF SshInv, PoolInv
<1>11. \A i \in PoolSlots : pool'[i].connected => pool'[i].proxy # test.proxy  BY <1>7, <1>8
<1>12. TestInv'  BY <1>2, <1>3, <1>4, <1>11 DEF TestInv
<1> QED  BY <1>10, <1>12 DEF SshInv

LEMMA PoolCloseSound ==
    ASSUME SshInv, PoolClose
    PROVE  SshInv'
<1> DEFINE live == {i \in 1..poolCount : pool[i].connected}
<1>1. /\ open' = open \ {pool[i].sock : i \in live}
      /\ pool' = [i \in PoolSlots |-> IF i \in live
                    THEN [[pool[i] EXCEPT !.connected = FALSE] EXCEPT !.sock = 0] ELSE pool[i]]
      /\ poolCount' = 0 /\ test' = [NoTest EXCEPT !.at = "closed"]
      /\ UNCHANGED <<sockets, tests>>
  BY DEF PoolClose
<1>2. pool \in [PoolSlots -> SshSessions] /\ poolCount \in 0..PoolSize /\ tests \in Nat
  BY DEF SshInv, PoolInv, TestInv
<1>3. \A i \in PoolSlots : i \in live <=> pool[i].connected
  BY <1>2, PoolSlotFacts DEF SshInv, PoolInv
<1>4. live \subseteq PoolSlots  BY <1>2, PoolSlotFacts
<1> HIDE DEF live
<1>5. ASSUME NEW i \in PoolSlots PROVE pool'[i] \in SshSessions /\ ~pool'[i].connected
  <2>1. CASE i \in live
    <3>1. pool'[i] = [[pool[i] EXCEPT !.connected = FALSE] EXCEPT !.sock = 0]  BY <1>1, <2>1
    <3>2. pool[i] \in SshSessions  BY <1>2
    <3>3. /\ [[pool[i] EXCEPT !.connected = FALSE] EXCEPT !.sock = 0] \in SshSessions
          /\ ~[[pool[i] EXCEPT !.connected = FALSE] EXCEPT !.sock = 0].connected
      BY <3>2 DEF SshSessions
    <3> QED  BY <3>1, <3>3
  <2>2. CASE i \notin live  BY <1>1, <1>2, <1>3, <2>2
  <2> QED  BY <2>1, <2>2
<1>6. pool' \in [PoolSlots -> SshSessions]
  <2>1. DOMAIN pool' = PoolSlots /\ pool' = [i \in PoolSlots |-> pool'[i]]  BY <1>1
  <2> QED  BY <1>5, <2>1
<1>7. open' = {}
  <2>1. \A s \in open : s \in {pool[i].sock : i \in live}
    BY <1>3 DEF SshInv, PoolInv
  <2> QED  BY <1>1, <2>1
<1>8. 0 \in 0..PoolSize  BY PoolSlotFacts
<1>9. PoolInv'  BY <1>1, <1>5, <1>6, <1>7, <1>8 DEF SshInv, PoolInv
<1>10. test' \in SshTests /\ test'.at = "closed" /\ test'.outcome = "none"
  BY <1>1, <1>8 DEF SshTests, NoTest
<1>11. TestInv'  BY <1>1, <1>2, <1>5, <1>10 DEF TestInv
<1> QED  BY <1>9, <1>11 DEF SshInv

LEMMA SshStepSound == SshInv /\ [SshNext]_sshVars => SshInv'
<1> SUFFICES ASSUME SshInv, [SshNext]_sshVars PROVE SshInv'
  OBVIOUS
<1>1. PoolInv /\ TestInv /\ test \in SshTests /\ tests \in Nat  BY DEF SshInv, TestInv
<1>2. NoTest \in SshTests  BY PoolSlotFacts DEF NoTest, SshTests
<1>3. CASE SshTest
  <2>1. PICK p \in SshProxies : test' = [NoTest EXCEPT !.at = "session", !.proxy = p]
    BY <1>3 DEF SshTest
  <2>2. /\ test' \in SshTests /\ test'.at = "session" /\ ~test'.retry
        /\ test'.outcome = "none" /\ test'.proxy \in SshProxies
    BY <1>2, <2>1 DEF SshTests, NoTest
  <2>3. tests' \in Nat  BY <1>1, <1>3 DEF SshTest
  <2>4. PoolInv'  BY <1>1, <1>3, PoolKept DEF SshTest
  <2>5. TestInv'  BY <2>2, <2>3 DEF TestInv
  <2> QED  BY <2>4, <2>5 DEF SshInv
<1>4. CASE ReuseSession
  <2> DEFINE S == Session(test.proxy)
  <2>1. /\ test' = [test EXCEPT !.at = "channel", !.slot = Lowest(S)] /\ S # {}
        /\ test.at = "session" /\ UNCHANGED <<pool, poolCount, open, sockets, tests>>
    BY <1>4 DEF ReuseSession
  <2>2. poolCount \in 0..PoolSize  BY <1>1 DEF PoolInv
  <2>3. S \subseteq Nat  BY <2>2 DEF Session
  <2>4. Lowest(S) \in S
    <3> HIDE DEF S
    <3> QED  BY <2>1, <2>3, LowestIsMember
  <2>5. /\ Lowest(S) \in PoolSlots /\ pool[Lowest(S)].connected
        /\ pool[Lowest(S)].proxy = test.proxy
    BY <2>2, <2>4, PoolSlotFacts DEF Session
  <2> HIDE DEF S
  <2>6. ~test.retry  BY <1>1, <2>1, <2>5, Zenon DEF TestInv
  <2>7. Lowest(S) \in 0..PoolSize  BY <2>5, PoolSlotFacts
  <2>8. /\ test' \in SshTests /\ test'.at = "channel" /\ ~test'.retry
        /\ test'.outcome = test.outcome /\ test'.proxy = test.proxy
        /\ test'.slot = Lowest(S)
    BY <1>1, <2>1, <2>6, <2>7 DEF SshTests
  <2>9. test.outcome = "none" /\ test.proxy \in SshProxies  BY <1>1, <2>1 DEF TestInv
  <2>10. PoolInv'  BY <1>1, <2>1, PoolKept
  <2>11. TestInv'  BY <1>1, <2>1, <2>5, <2>8, <2>9 DEF TestInv
  <2> QED  BY <2>10, <2>11 DEF SshInv
<1>5. CASE Exhausted
  <2>1. /\ test' = [test EXCEPT !.at = "end", !.outcome = "exhausted"]
        /\ UNCHANGED <<pool, poolCount, open, sockets, tests>>
    BY <1>5 DEF Exhausted
  <2>2. /\ test' \in SshTests /\ test'.at = "end" /\ test'.outcome = "exhausted"
        /\ test'.proxy = test.proxy
    BY <1>1, <2>1 DEF SshTests
  <2>3. \A i \in PoolSlots : pool[i].connected /\ i \in 1..poolCount
    <3>1. NewSlot = 0  BY <1>5 DEF Exhausted
    <3>2. \A i \in PoolSlots : pool[i].connected /\ i <= poolCount
      BY <1>1, <3>1, NewSlotIsFree
    <3> QED  BY <1>1, <3>2, PoolSlotFacts DEF PoolInv
  <2>4. \A i \in PoolSlots : pool[i].proxy # test.proxy
    BY <1>5, <2>3 DEF Exhausted, Session
  <2>5. PoolInv'  BY <1>1, <2>1, PoolKept
  <2>6. TestInv'  BY <1>1, <2>1, <2>2, <2>3, <2>4 DEF TestInv
  <2> QED  BY <2>5, <2>6 DEF SshInv
<1>6. CASE OpenChannel
  <2>1. /\ test' = [test EXCEPT !.at = "end", !.outcome = "ok"]
        /\ UNCHANGED <<pool, poolCount, open, sockets, tests>>
    BY <1>6 DEF OpenChannel
  <2>2. test' \in SshTests /\ test'.at = "end" /\ test'.outcome = "ok"
    BY <1>1, <2>1 DEF SshTests
  <2>3. PoolInv'  BY <1>1, <2>1, PoolKept
  <2>4. TestInv'  BY <1>1, <2>1, <2>2 DEF TestInv
  <2> QED  BY <2>3, <2>4 DEF SshInv
<1>7. CASE ChannelFails
  <2>1. /\ test' = [test EXCEPT !.at = "end", !.outcome = "no channel"] /\ test.retry
        /\ test.at = "channel" /\ UNCHANGED <<pool, poolCount, open, sockets, tests>>
    BY <1>7 DEF ChannelFails
  <2>2. /\ test' \in SshTests /\ test'.at = "end" /\ test'.outcome = "no channel"
        /\ test'.slot = test.slot
    BY <1>1, <2>1 DEF SshTests
  <2>3. pool[test.slot].born = tests  BY <1>1, <2>1 DEF TestInv
  <2>4. PoolInv'  BY <1>1, <2>1, PoolKept
  <2>5. TestInv'  BY <1>1, <2>1, <2>2, <2>3 DEF TestInv
  <2> QED  BY <2>4, <2>5 DEF SshInv
<1>8. CASE TestEnds
  <2>1. test' = NoTest /\ UNCHANGED <<pool, poolCount, open, sockets, tests>>
    BY <1>8 DEF TestEnds
  <2>2. NoTest.at = "none" /\ NoTest.outcome = "none"  BY DEF NoTest
  <2>3. PoolInv'  BY <1>1, <2>1, PoolKept
  <2>4. TestInv'  BY <1>1, <1>2, <2>1, <2>2 DEF TestInv
  <2> QED  BY <2>3, <2>4 DEF SshInv
<1>9. CASE ServerDrops \/ DeleteProxy \/ UNCHANGED sshVars
  <2>1. UNCHANGED <<pool, poolCount, open, sockets, test, tests>>
    BY <1>9 DEF ServerDrops, DeleteProxy, sshVars
  <2>2. PoolInv'  BY <1>1, <2>1, PoolKept
  <2>3. TestInv'  BY <1>1, <2>1 DEF TestInv
  <2> QED  BY <2>2, <2>3 DEF SshInv
<1> QED
  BY <1>3, <1>4, <1>5, <1>6, <1>7, <1>8, <1>9, CreateFailsSound, CreateSessionSound,
     RetrySessionSound, PoolCloseSound
  DEF SshNext

LEMMA SshStarts == SshInit => SshInv
<1> SUFFICES ASSUME SshInit PROVE SshInv
  OBVIOUS
<1>1. NoSession \in SshSessions /\ ~NoSession.connected  BY DEF NoSession, SshSessions
<1>2. PoolInv  BY <1>1, PoolSlotFacts DEF SshInit, PoolInv
<1>3. NoTest \in SshTests /\ NoTest.at = "none" /\ NoTest.outcome = "none"
  BY PoolSlotFacts DEF NoTest, SshTests
<1>4. TestInv  BY <1>3 DEF SshInit, TestInv
<1> QED  BY <1>2, <1>4 DEF SshInv

\* However sessions die and are made again: one session per proxy, one socket
\* per session and none left over, no dead slot in the way of a test, and no
\* test that fails for a stale session (proxy_ssh.c).
THEOREM SshPoolSound == SshSpec => []SshPoolIsSound
<1>1. SshInv => SshPoolIsSound
  <2> SUFFICES ASSUME SshInv PROVE SshPoolIsSound
    OBVIOUS
  <2> DEFINE held == {i \in PoolSlots : pool[i].connected}
             f == [i \in held |-> pool[i].sock]
  <2>1. pool \in [PoolSlots -> SshSessions] /\ poolCount \in 0..PoolSize
    BY DEF SshInv, PoolInv
  <2>2. held \subseteq 1..poolCount  BY <2>1, PoolSlotFacts DEF SshInv, PoolInv
  <2>3. \A i, j \in held : pool[i].proxy = pool[j].proxy => i = j
    BY DEF SshInv, PoolInv
  <2>4. open = {pool[i].sock : i \in held}  BY DEF SshInv, PoolInv
  <2>5. Cardinality(open) = Cardinality(held)
    <3>1. IsFiniteSet(held)
      <4>1. IsFiniteSet(PoolSlots)  BY PoolSlotFacts, FS_Interval
      <4>2. held \in SUBSET PoolSlots  OBVIOUS
      <4> HIDE DEF held
      <4> QED  BY <4>1, <4>2, FS_Subset
    <3>2. \A i, j \in held : f[i] = f[j] => i = j  BY DEF SshInv, PoolInv
    <3>3. f \in [held -> open] /\ \A s \in open : \E i \in held : f[i] = s  BY <2>4
    <3> HIDE DEF held, f
    <3>4. ExistsBijection(held, open)
      BY <3>2, <3>3 DEF ExistsBijection, Bijection, Injection, Surjection, IsInjective
    <3> QED  BY <3>1, <3>4, FS_Bijection
  <2>6. test.at = "closed" => open = {}  BY <2>4 DEF SshInv, TestInv
  <2>7. /\ test.outcome = "exhausted" => \A i \in PoolSlots :
               pool[i].connected /\ pool[i].proxy # test.proxy
        /\ test.outcome = "no channel" => pool[test.slot].born = tests
    BY DEF SshInv, TestInv
  <2> QED  BY <2>2, <2>3, <2>4, <2>5, <2>6, <2>7 DEF SshPoolIsSound
<1> QED  BY <1>1, SshStarts, SshStepSound, PTL DEF SshSpec

-----------------------------------------------------------------------------
(* The DNS cache. *)

Ips == Addresses \cup {NoIp}
EntryNames == DnsNames \cup {SomeName}
DnsEntries == [used : BOOLEAN, name : EntryNames, ip : Ips, expires : Nat]

DnsTypes ==
    /\ dnsCache \in [Slot -> DnsEntries] /\ dnsNow \in Nat
    /\ news \in [DnsNames -> [ip : Ips, due : Nat]]
    /\ answer \in [name : EntryNames, records : Seq(Records)]
    /\ answer.records # <<>> => answer.name \in DnsNames

\* A live entry says what its name was last told, and until when; no name has
\* two; and a name that was told something not yet due has one.
EntriesInv ==
    /\ \A i \in Slot : Live(i) =>
          /\ dnsCache[i].name \in DnsNames
          /\ dnsCache[i].ip = news[dnsCache[i].name].ip
          /\ dnsCache[i].expires = news[dnsCache[i].name].due
    /\ \A i, j \in Slot : Live(i) /\ Live(j) /\ i # j => dnsCache[i].name # dnsCache[j].name
    /\ \A n \in DnsNames : news[n].due > dnsNow => \E i \in Slot : Live(i) /\ dnsCache[i].name = n

DnsInv == DnsTypes /\ EntriesInv

LEMMA FirstIsMember ==
    ASSUME NEW S, S \subseteq Slot, S # {} PROVE First(S) \in S
<1>1. S \subseteq Nat  BY DnsCacheAssumption DEF Slot
<1> QED  BY <1>1, HasLeast DEF First

\* The slot for a name has its live entry or, if it has none, no live entry;
\* there is none only in a table full of other names.
LEMMA FindSlotFits ==
    ASSUME NEW n \in DnsNames
    PROVE  /\ FindSlot(n) # 0 =>
                 /\ FindSlot(n) \in Slot
                 /\ \/ Live(FindSlot(n)) /\ dnsCache[FindSlot(n)].name = n
                    \/ /\ ~Live(FindSlot(n))
                       /\ \A j \in Slot : Live(j) => dnsCache[j].name # n
           /\ FindSlot(n) = 0 <=> \A i \in Slot : Live(i) /\ dnsCache[i].name # n
<1> DEFINE same == {i \in Slot : Live(i) /\ dnsCache[i].name = n}
           free == {i \in Slot : ~Live(i)}
<1>1. 0 \notin Slot  BY DnsCacheAssumption DEF Slot
<1>2. FindSlot(n) = IF same # {} THEN First(same) ELSE IF free # {} THEN First(free) ELSE 0
  BY DEF FindSlot
<1>3. same \subseteq Slot /\ free \subseteq Slot  OBVIOUS
<1>4. CASE same # {}
  <2>1. First(same) \in same
    <3> HIDE DEF same
    <3> QED  BY <1>3, <1>4, FirstIsMember
  <2>2. FindSlot(n) = First(same)  BY <1>2, <1>4
  <2> QED  BY <1>1, <2>1, <2>2
<1>5. CASE same = {} /\ free # {}
  <2>1. First(free) \in free
    <3> HIDE DEF free
    <3> QED  BY <1>3, <1>5, FirstIsMember
  <2>2. FindSlot(n) = First(free)  BY <1>2, <1>5
  <2> QED  BY <1>1, <1>5, <2>1, <2>2
<1>6. CASE same = {} /\ free = {}
  <2>1. FindSlot(n) = 0  BY <1>2, <1>6
  <2> QED  BY <1>6, <2>1
<1> QED  BY <1>4, <1>5, <1>6

\* Such a slot gets what the name is told.
LEMMA WriteKeepsEntries ==
    ASSUME DnsInv, NEW n \in DnsNames, NEW i \in Slot, NEW x \in Ips, NEW e \in Nat,
           \/ Live(i) /\ dnsCache[i].name = n
           \/ ~Live(i) /\ \A j \in Slot : Live(j) => dnsCache[j].name # n,
           dnsCache' = [dnsCache EXCEPT ![i] =
                           [used |-> TRUE, name |-> n, ip |-> x, expires |-> e]],
           news' = [news EXCEPT ![n] = [ip |-> x, due |-> e]],
           dnsNow' = dnsNow
    PROVE  /\ dnsCache' \in [Slot -> DnsEntries]
           /\ news' \in [DnsNames -> [ip : Ips, due : Nat]]
           /\ EntriesInv'
<1> DEFINE new == [used |-> TRUE, name |-> n, ip |-> x, expires |-> e]
           told == [ip |-> x, due |-> e]
<1>1. dnsCache \in [Slot -> DnsEntries] /\ news \in [DnsNames -> [ip : Ips, due : Nat]]
  BY DEF DnsInv, DnsTypes
<1>2. /\ new \in DnsEntries /\ new.used /\ new.name = n /\ new.ip = x /\ new.expires = e
      /\ told \in [ip : Ips, due : Nat] /\ told.ip = x /\ told.due = e
  BY DEF DnsEntries, EntryNames
<1> HIDE DEF new, told
<1>3. dnsCache' \in [Slot -> DnsEntries] /\ dnsCache'[i] = new
      /\ \A j \in Slot : j # i => dnsCache'[j] = dnsCache[j]
  BY <1>1, <1>2 DEF new
<1>4. news' \in [DnsNames -> [ip : Ips, due : Nat]] /\ news'[n] = told
      /\ \A m \in DnsNames : m # n => news'[m] = news[m]
  BY <1>1, <1>2 DEF told
<1>5. ASSUME NEW j \in Slot, j # i, Live(j)'
      PROVE  /\ Live(j) /\ dnsCache'[j] = dnsCache[j] /\ dnsCache[j].name # n
             /\ dnsCache[j].name \in DnsNames
             /\ dnsCache[j].ip = news'[dnsCache[j].name].ip
             /\ dnsCache[j].expires = news'[dnsCache[j].name].due
  <2>1. Live(j) /\ dnsCache'[j] = dnsCache[j]  BY <1>3, <1>5 DEF Live
  <2>2. dnsCache[j].name # n  BY <1>5, <2>1 DEF DnsInv, EntriesInv
  <2>3. /\ dnsCache[j].name \in DnsNames
        /\ dnsCache[j].ip = news[dnsCache[j].name].ip
        /\ dnsCache[j].expires = news[dnsCache[j].name].due
    BY <2>1 DEF DnsInv, EntriesInv
  <2> QED  BY <1>4, <2>1, <2>2, <2>3
<1>6. Live(i)' <=> e > dnsNow  BY <1>2, <1>3 DEF Live
<1>7. \A j \in Slot : Live(j)' =>
          /\ dnsCache'[j].name \in DnsNames
          /\ dnsCache'[j].ip = news'[dnsCache'[j].name].ip
          /\ dnsCache'[j].expires = news'[dnsCache'[j].name].due
  BY <1>2, <1>3, <1>4, <1>5
<1>8. ASSUME NEW j \in Slot, NEW k \in Slot, Live(j)', Live(k)', j # k
      PROVE  dnsCache'[j].name # dnsCache'[k].name
  <2>1. CASE j = i  BY <1>2, <1>3, <1>5, <1>8, <2>1
  <2>2. CASE k = i  BY <1>2, <1>3, <1>5, <1>8, <2>2
  <2>3. CASE j # i /\ k # i
    <3>1. Live(j) /\ Live(k) /\ dnsCache'[j] = dnsCache[j] /\ dnsCache'[k] = dnsCache[k]
      BY <1>5, <1>8, <2>3
    <3> QED  BY <1>8, <3>1 DEF DnsInv, EntriesInv
  <2> QED  BY <2>1, <2>2, <2>3
<1>9. ASSUME NEW m \in DnsNames, news'[m].due > dnsNow'
      PROVE  \E j \in Slot : Live(j)' /\ dnsCache'[j].name = m
  <2>1. CASE m = n
    <3>1. Live(i)' /\ dnsCache'[i].name = m  BY <1>2, <1>3, <1>4, <1>6, <1>9, <2>1
    <3> QED  BY <3>1
  <2>2. CASE m # n
    <3>1. news[m].due > dnsNow  BY <1>4, <1>9, <2>2
    <3>2. PICK j \in Slot : Live(j) /\ dnsCache[j].name = m
      BY <3>1 DEF DnsInv, EntriesInv
    <3>3. j # i  BY <2>2, <3>2
    <3>4. Live(j)' /\ dnsCache'[j].name = m  BY <1>3, <3>2, <3>3 DEF Live
    <3> QED  BY <3>4
  <2> QED  BY <2>1, <2>2
<1>10. EntriesInv'  BY <1>7, <1>8, <1>9 DEF EntriesInv
<1> QED  BY <1>3, <1>4, <1>10

\* What a query or a record does: the cache and the history together.
Noted(n, x, e) ==
    IF FindSlot(n) = 0 THEN UNCHANGED <<dnsCache, news>>
    ELSE /\ dnsCache' = [dnsCache EXCEPT ![FindSlot(n)] =
                            [used |-> TRUE, name |-> n, ip |-> x, expires |-> e]]
         /\ news' = [news EXCEPT ![n] = [ip |-> x, due |-> e]]

LEMMA NotedKeepsEntries ==
    ASSUME DnsInv, NEW n \in DnsNames, NEW x \in Ips, NEW e \in Nat, Noted(n, x, e),
           dnsNow' = dnsNow
    PROVE  /\ dnsCache' \in [Slot -> DnsEntries]
           /\ news' \in [DnsNames -> [ip : Ips, due : Nat]]
           /\ EntriesInv'
<1>1. CASE FindSlot(n) = 0
  <2>1. UNCHANGED <<dnsCache, news, dnsNow>>  BY <1>1 DEF Noted
  <2> QED  BY <2>1 DEF DnsInv, DnsTypes, EntriesInv, Live
<1>2. CASE FindSlot(n) # 0
  <2>1. PICK i : i = FindSlot(n)  OBVIOUS
  <2>2. /\ i \in Slot
        /\ \/ Live(i) /\ dnsCache[i].name = n
           \/ ~Live(i) /\ \A j \in Slot : Live(j) => dnsCache[j].name # n
    BY <1>2, <2>1, FindSlotFits
  <2>3. /\ dnsCache' = [dnsCache EXCEPT ![i] =
                           [used |-> TRUE, name |-> n, ip |-> x, expires |-> e]]
        /\ news' = [news EXCEPT ![n] = [ip |-> x, due |-> e]]
    BY <1>2, <2>1 DEF Noted
  <2> QED  BY <2>2, <2>3, WriteKeepsEntries
<1> QED  BY <1>1, <1>2

LEMMA ToldIsNoted ==
    ASSUME NEW n \in DnsNames, NEW x, NEW e, news \in [DnsNames -> [ip : Ips, due : Nat]],
           Told(n, x, e)
    PROVE  news' = IF FindSlot(n) = 0 THEN news ELSE [news EXCEPT ![n] = [ip |-> x, due |-> e]]
<1>1. FindSlot(n) = 0 <=> \A i \in Slot : Live(i) /\ dnsCache[i].name # n  BY FindSlotFits
<1>2. CASE FindSlot(n) = 0
  <2>1. news' = [news EXCEPT ![n] = news[n]]  BY <1>1, <1>2 DEF Told
  <2> QED  BY <1>2, <2>1
<1>3. CASE FindSlot(n) # 0  BY <1>1, <1>3 DEF Told
<1> QED  BY <1>2, <1>3

LEMMA QuerySound ==
    ASSUME DnsInv, Query
    PROVE  DnsInv'
<1>1. PICK n \in DnsNames : CacheAdd(n, NoIp) /\ Told(n, NoIp, dnsNow + DnsTtl)
  BY DEF Query
<1>2. dnsNow + DnsTtl \in Nat /\ NoIp \in Ips /\ dnsNow' = dnsNow /\ answer' = answer
  BY DnsCacheAssumption DEF DnsInv, DnsTypes, Ips, Query
<1>3. news \in [DnsNames -> [ip : Ips, due : Nat]]  BY DEF DnsInv, DnsTypes
<1>4. news' = IF FindSlot(n) = 0 THEN news
              ELSE [news EXCEPT ![n] = [ip |-> NoIp, due |-> dnsNow + DnsTtl]]
  BY <1>1, <1>3, ToldIsNoted
<1>5. Noted(n, NoIp, dnsNow + DnsTtl)  BY <1>1, <1>4 DEF Noted, CacheAdd
<1>6. /\ dnsCache' \in [Slot -> DnsEntries] /\ EntriesInv'
      /\ news' \in [DnsNames -> [ip : Ips, due : Nat]]
  BY <1>2, <1>5, NotedKeepsEntries
<1> QED  BY <1>2, <1>6 DEF DnsInv, DnsTypes

LEMMA UpdatedEntry ==
    \A d \in DnsEntries : d.used => \A x, e :
        [[d EXCEPT !.ip = x] EXCEPT !.expires = e]
            = [used |-> TRUE, name |-> d.name, ip |-> x, expires |-> e]
<1> SUFFICES ASSUME NEW d \in DnsEntries, d.used, NEW x, NEW e
             PROVE  [[d EXCEPT !.ip = x] EXCEPT !.expires = e]
                       = [used |-> TRUE, name |-> d.name, ip |-> x, expires |-> e]
  OBVIOUS
<1> DEFINE u == [[d EXCEPT !.ip = x] EXCEPT !.expires = e]
<1>1. /\ u \in [used : BOOLEAN, name : EntryNames, ip : {x}, expires : {e}]
      /\ u.used = d.used /\ u.name = d.name
  BY DEF DnsEntries
<1> HIDE DEF u
<1>2. u.used = TRUE  BY <1>1
<1>3. u = [used |-> TRUE, name |-> d.name, ip |-> x, expires |-> e]  BY <1>1, <1>2
<1> QED  BY <1>3 DEF u

LEMMA RecordAddressSound ==
    ASSUME DnsInv, RecordAddress
    PROVE  DnsInv'
<1> DEFINE n == answer.name
           r == Head(answer.records)
           i == FindSlot(n)
<1>1. answer.records \in Seq(Records) /\ answer.records # <<>> /\ n \in DnsNames
      /\ answer \in [name : EntryNames, records : Seq(Records)]
  BY DEF DnsInv, DnsTypes, RecordAddress
<1>2. r \in Records /\ Tail(answer.records) \in Seq(Records)  BY <1>1
<1>3. r.ip \in Ips /\ r.ttl \in Nat  BY <1>2 DEF Records, Ips
<1>4. TtlOf(r) \in Nat  BY <1>3, DnsCacheAssumption DEF TtlOf
<1>5. dnsNow + TtlOf(r) \in Nat /\ dnsNow + DnsTtl \in Nat
  BY <1>4, DnsCacheAssumption DEF DnsInv, DnsTypes
<1>6. dnsNow' = dnsNow /\ answer' = [answer EXCEPT !.records = Tail(@)]
  BY DEF RecordAddress
<1>7. /\ answer' \in [name : EntryNames, records : Seq(Records)] /\ answer'.name = n
  BY <1>1, <1>2, <1>6
<1>8. news \in [DnsNames -> [ip : Ips, due : Nat]] /\ dnsCache \in [Slot -> DnsEntries]
  BY DEF DnsInv, DnsTypes
<1>9. \E e \in Nat : Noted(n, r.ip, e)
  <2>1. CASE i # 0 /\ dnsCache[i].used /\ dnsCache[i].name = n
    <3>1. /\ dnsCache' = [dnsCache EXCEPT ![i].ip = r.ip, ![i].expires = dnsNow + TtlOf(r)]
          /\ Told(n, r.ip, dnsNow + TtlOf(r))
      BY <2>1 DEF RecordAddress
    <3>2. news' = IF i = 0 THEN news ELSE [news EXCEPT ![n] = [ip |-> r.ip, due |-> dnsNow + TtlOf(r)]]
      BY <1>1, <1>8, <3>1, ToldIsNoted
    <3>3. i \in Slot  BY <1>1, <2>1, FindSlotFits
    <3>4. dnsCache' = [dnsCache EXCEPT ![i] =
             [[dnsCache[i] EXCEPT !.ip = r.ip] EXCEPT !.expires = dnsNow + TtlOf(r)]]
      BY <1>8, <3>1, <3>3
    <3>6. dnsCache[i] \in DnsEntries  BY <1>8, <3>3
    <3>7. [[dnsCache[i] EXCEPT !.ip = r.ip] EXCEPT !.expires = dnsNow + TtlOf(r)]
             = [used |-> TRUE, name |-> n, ip |-> r.ip, expires |-> dnsNow + TtlOf(r)]
      <4> HIDE DEF n, i, r
      <4> QED  BY <2>1, <3>6, UpdatedEntry
    <3>8. Noted(n, r.ip, dnsNow + TtlOf(r))  BY <2>1, <3>2, <3>4, <3>7 DEF Noted
    <3> QED  BY <1>5, <3>8
  <2>2. CASE ~(i # 0 /\ dnsCache[i].used /\ dnsCache[i].name = n)
    <3>1. CacheAdd(n, r.ip) /\ Told(n, r.ip, dnsNow + DnsTtl)
      BY <2>2 DEF RecordAddress
    <3>2. news' = IF i = 0 THEN news ELSE [news EXCEPT ![n] = [ip |-> r.ip, due |-> dnsNow + DnsTtl]]
      BY <1>1, <1>8, <3>1, ToldIsNoted
    <3>3. Noted(n, r.ip, dnsNow + DnsTtl)  BY <3>1, <3>2 DEF Noted, CacheAdd
    <3> QED  BY <1>5, <3>3
  <2> QED  BY <2>1, <2>2
<1>10. /\ dnsCache' \in [Slot -> DnsEntries] /\ EntriesInv'
       /\ news' \in [DnsNames -> [ip : Ips, due : Nat]]
  <2>1. PICK m \in DnsNames, x \in Ips, e \in Nat : Noted(m, x, e)  BY <1>1, <1>3, <1>9
  <2> QED  BY <1>6, <2>1, NotedKeepsEntries
<1> QED  BY <1>1, <1>6, <1>7, <1>10 DEF DnsInv, DnsTypes

LEMMA DnsStepSound == DnsInv /\ [DnsNext]_dnsVars => DnsInv'
<1> SUFFICES ASSUME DnsInv, [DnsNext]_dnsVars PROVE DnsInv'
  OBVIOUS
<1>1. CASE Response
  <2>1. PICK n \in DnsNames, rs \in Answers : answer' = [name |-> n, records |-> rs]
    BY <1>1 DEF Response
  <2>2. rs \in Seq(Records)  BY DnsCacheAssumption
  <2>3. /\ answer' \in [name : EntryNames, records : Seq(Records)]
        /\ answer'.name \in DnsNames
    BY <2>1, <2>2 DEF EntryNames
  <2>4. UNCHANGED <<dnsCache, dnsNow, news>>  BY <1>1 DEF Response
  <2>5. EntriesInv'  BY <2>4 DEF DnsInv, EntriesInv, Live
  <2> QED  BY <2>3, <2>4, <2>5 DEF DnsInv, DnsTypes
<1>2. CASE SkipRecord
  <2>1. /\ answer.records \in Seq(Records) /\ answer.records # <<>>
        /\ answer \in [name : EntryNames, records : Seq(Records)]
        /\ answer.name \in DnsNames
    BY <1>2 DEF DnsInv, DnsTypes, SkipRecord
  <2>2. answer' = [answer EXCEPT !.records = Tail(@)] /\ UNCHANGED <<dnsCache, dnsNow, news>>
    BY <1>2 DEF SkipRecord
  <2>3. Tail(answer.records) \in Seq(Records)  BY <2>1
  <2>4. /\ answer' \in [name : EntryNames, records : Seq(Records)]
        /\ answer'.name = answer.name
    BY <2>1, <2>2, <2>3
  <2>5. EntriesInv'  BY <2>2 DEF DnsInv, EntriesInv, Live
  <2> QED  BY <2>1, <2>2, <2>4, <2>5 DEF DnsInv, DnsTypes
<1>3. CASE DnsTick
  <2>1. dnsNow \in Nat /\ dnsNow' = dnsNow + 1 /\ UNCHANGED <<dnsCache, answer, news>>
    BY <1>3 DEF DnsInv, DnsTypes, DnsTick
  <2>2. dnsCache \in [Slot -> DnsEntries] /\ news \in [DnsNames -> [ip : Ips, due : Nat]]
    BY DEF DnsInv, DnsTypes
  <2>3. \A j \in Slot : dnsCache[j].expires \in Nat  BY <2>2 DEF DnsEntries
  <2>4. \A n \in DnsNames : news[n].due \in Nat  BY <2>2
  <2>5. \A j \in Slot : Live(j)' => Live(j)  BY <2>1, <2>3 DEF Live
  <2>6. ASSUME NEW n \in DnsNames, news'[n].due > dnsNow'
        PROVE  \E j \in Slot : Live(j)' /\ dnsCache'[j].name = n
    <3>1. news[n].due > dnsNow + 1 /\ news[n].due > dnsNow  BY <2>1, <2>4, <2>6
    <3>2. PICK j \in Slot : Live(j) /\ dnsCache[j].name = n
      BY <3>1 DEF DnsInv, EntriesInv
    <3>3. dnsCache[j].expires = news[n].due  BY <3>2 DEF DnsInv, EntriesInv
    <3> QED  BY <2>1, <3>1, <3>2, <3>3 DEF Live
  <2>7. EntriesInv'  BY <2>1, <2>5, <2>6 DEF DnsInv, EntriesInv
  <2> QED  BY <2>1, <2>7 DEF DnsInv, DnsTypes
<1>4. CASE UNCHANGED dnsVars
  BY <1>4 DEF dnsVars, DnsInv, DnsTypes, EntriesInv, Live
<1> QED  BY <1>1, <1>2, <1>3, <1>4, QuerySound, RecordAddressSound DEF DnsNext

LEMMA DnsStarts == DnsInit => DnsInv
<1> SUFFICES ASSUME DnsInit PROVE DnsInv
  OBVIOUS
<1>1. Unused \in DnsEntries /\ ~Unused.used  BY DEF Unused, DnsEntries, EntryNames, Ips
<1>2. \A i \in Slot : dnsCache[i] = Unused /\ ~Live(i)  BY <1>1 DEF DnsInit, Live
<1>3. \A n \in DnsNames : news[n].due = 0  BY DEF DnsInit
<1>4. NoAnswer \in [name : EntryNames, records : Seq(Records)] /\ NoAnswer.records = <<>>
  BY DEF NoAnswer, EntryNames
<1>5. DnsTypes  BY <1>1, <1>4 DEF DnsInit, DnsTypes, Ips
<1>6. EntriesInv  BY <1>2, <1>3 DEF DnsInit, EntriesInv
<1> QED  BY <1>5, <1>6 DEF DnsInv

\* Under expiry, re-use of slots and a full table, a name has exactly one
\* entry while its last news is not due, with the last address it was given,
\* and an address is found exactly under the names it was last given to
\* (cache_find_slot, dns_callback, pf_dns_lookup).
THEOREM DnsCacheSound == DnsSpec => []DnsEntriesAreLatest
<1>1. DnsInv => DnsEntriesAreLatest
  <2> SUFFICES ASSUME DnsInv PROVE DnsEntriesAreLatest
    OBVIOUS
  <2>1. dnsNow \in Nat /\ news \in [DnsNames -> [ip : Ips, due : Nat]]
        /\ dnsCache \in [Slot -> DnsEntries]
    BY DEF DnsInv, DnsTypes
  <2>2. \A i \in Slot : Live(i) =>
            /\ dnsCache[i].name \in DnsNames
            /\ dnsCache[i].ip = news[dnsCache[i].name].ip
            /\ news[dnsCache[i].name].due > dnsNow
    BY DEF DnsInv, EntriesInv, Live
  <2>3. ASSUME NEW n \in DnsNames
        PROVE  LET entries == {i \in Slot : Live(i) /\ dnsCache[i].name = n}
               IN IF news[n].due > dnsNow
                  THEN /\ Cardinality(entries) = 1
                       /\ \A i \in entries : dnsCache[i].ip = news[n].ip
                  ELSE entries = {}
    <3> DEFINE entries == {i \in Slot : Live(i) /\ dnsCache[i].name = n}
    <3>1. CASE news[n].due > dnsNow
      <4>1. PICK i \in Slot : Live(i) /\ dnsCache[i].name = n
        BY <3>1 DEF DnsInv, EntriesInv
      <4>2. entries = {i}  BY <4>1 DEF DnsInv, EntriesInv
      <4>3. Cardinality(entries) = 1
        <5> HIDE DEF entries
        <5> QED  BY <4>2, FS_Singleton
      <4>4. \A j \in entries : dnsCache[j].ip = news[n].ip  BY <2>2
      <4> QED  BY <3>1, <4>3, <4>4
    <3>2. CASE ~(news[n].due > dnsNow)
      <4>1. entries = {}  BY <2>2, <3>2
      <4> QED  BY <3>2, <4>1
    <3> QED  BY <3>1, <3>2
  <2>4. ASSUME NEW ip \in Addresses
        PROVE  LET named == {n \in DnsNames : news[n].due > dnsNow /\ news[n].ip = ip}
               IN IF named = {} THEN Lookup(ip) = 0
                  ELSE Lookup(ip) # 0 /\ dnsCache[Lookup(ip)].name \in named
    <3> DEFINE named == {n \in DnsNames : news[n].due > dnsNow /\ news[n].ip = ip}
               S == {i \in Slot : Live(i) /\ dnsCache[i].ip # NoIp /\ dnsCache[i].ip = ip}
    <3>1. ip # NoIp  BY NoIpAssumption
    <3>2. \A i \in S : i \in Slot /\ dnsCache[i].name \in named  BY <2>2
    <3>3. \A n \in named : \E i \in Slot : i \in S
      <4> SUFFICES ASSUME NEW n \in named PROVE \E i \in Slot : i \in S
        OBVIOUS
      <4>1. PICK i \in Slot : Live(i) /\ dnsCache[i].name = n
        BY DEF DnsInv, EntriesInv
      <4>2. dnsCache[i].ip = ip  BY <2>2, <4>1
      <4> QED  BY <3>1, <4>1, <4>2
    <3>4. Lookup(ip) = IF S = {} THEN 0 ELSE First(S)  BY DEF Lookup
    <3>5. S \subseteq Slot /\ 0 \notin Slot  BY DnsCacheAssumption DEF Slot
    <3> HIDE DEF S
    <3>6. S # {} => First(S) \in S  BY <3>5, FirstIsMember
    <3> SUFFICES IF named = {} THEN Lookup(ip) = 0
                 ELSE Lookup(ip) # 0 /\ dnsCache[Lookup(ip)].name \in named
      OBVIOUS
    <3> HIDE DEF named
    <3> QED  BY <3>2, <3>3, <3>4, <3>5, <3>6
  <2> QED  BY <2>3, <2>4 DEF DnsEntriesAreLatest
<1> QED  BY <1>1, DnsStarts, DnsStepSound, PTL DEF DnsSpec

-----------------------------------------------------------------------------
(* The engine of TLS interception: the files of the CA. *)

CacheSlots == 0..CacheSize-1
CacheEntries == [used : BOOLEAN, dom : Domains \cup {CHOOSE d \in Domains : TRUE},
                 cert : Nat, last : Nat]
CertRecords == [dom : Domains, ca : Int, issuer : Int]
WrapRecords == [at : {"idle", "cert", "ssl", "relay"},
                name : Names \cup {CHOOSE n \in Names : TRUE}, cert : Nat]

CaTypes ==
    /\ caKeyFile \in Int /\ caCertFile \in Int /\ lastCa \in Nat
    /\ caKey \in Int /\ caCert \in Int
    /\ wrap \in [Wrappers -> WrapRecords] /\ certs \in Seq(CertRecords)

LEMMA FileValues == Absent = 0 /\ Broken \in Int /\ Broken # 0 /\ \A n \in Nat : n # Broken
BY DEF Absent, Broken

\* The two files hold the same CA.
FilesWhole == caKeyFile = caCertFile /\ caKeyFile # Absent /\ caKeyFile # Broken

\* A certificate is written only after the key, and only where there is none;
\* TLS contexts are made only from whole files, which then never change.
CaInv ==
    /\ caCertFile # Absent => caKeyFile # Absent
    /\ caCertFile # Absent /\ caCertFile # Broken =>
          caKeyFile = caCertFile \/ caKeyFile = Broken
    /\ mitmMain \in {"write key", "write cert"} => caCertFile = Absent /\ lastCa > 0
    /\ mitmMain = "write cert" => caKeyFile = lastCa \/ caKeyFile = Broken
    /\ mitmMain \in {"close", "clear"} => CaExists
    /\ enabled => caKey # 0
    /\ contexts => FilesWhole /\ caKey = caKeyFile /\ caCert = caKeyFile
    /\ acked => FilesWhole
    /\ \A t \in Wrappers : wrap[t].at # "idle" => contexts
    /\ \A c \in 1..Len(certs) : certs[c].issuer = certs[c].ca
    /\ mitmMain = "start" => ~enabled /\ \A t \in Wrappers : wrap[t].at = "idle"

\* pf_mitm_init makes contexts exactly of whole files.
LEMMA LoadFacts ==
    ASSUME CaTypes, CaInv
    PROVE  /\ Load.key \in Int /\ Load.cert \in Int
           /\ Load.cert # 0 <=> FilesWhole
           /\ FilesWhole => Load.key = caKeyFile /\ Load.cert = caKeyFile /\ Load.ok
           /\ CaExists /\ Load.ok => FilesWhole
           /\ FilesWhole => Load.ok /\ Load.key # 0
<1> DEFINE key == IF CaExists /\ caKeyFile # Broken THEN caKeyFile ELSE 0
           cert == IF key # 0 /\ caCertFile # Broken THEN caCertFile ELSE 0
<1>1. Load.key = key /\ Load.cert = cert /\ Load.ok = (~CaExists \/ cert # 0)  BY DEF Load
<1>2. key \in Int /\ cert \in Int  BY DEF CaTypes
<1>3. cert # 0 => FilesWhole  BY DEF CaInv, FilesWhole, CaExists, Absent, Broken
<1>4. FilesWhole => key = caKeyFile /\ cert = caKeyFile /\ cert # 0 /\ key # 0
  BY DEF FilesWhole, CaExists, Absent, Broken
<1> HIDE DEF key, cert
<1> QED  BY <1>1, <1>2, <1>3, <1>4

\* Steps that change no file.
LEMMA FilesKept ==
    ASSUME CaInv, UNCHANGED <<caKeyFile, caCertFile>>
    PROVE  FilesWhole' = FilesWhole /\ CaExists' = CaExists
BY DEF FilesWhole, CaExists

\* What a thread may do: it starts to wrap only with contexts, and certificates
\* are added that are signed by the CA that is loaded.
LEMMA ThreadKeepsCa ==
    ASSUME CaInv, UNCHANGED <<caFiles, engine, mitmMain, acked>>, Len(certs) \in Nat,
           \A t \in Wrappers : wrap'[t].at # "idle" => contexts,
           \A c \in 1..Len(certs') : certs'[c].issuer = certs'[c].ca,
           mitmMain # "start" \/ wrap' = wrap
    PROVE  CaInv'
<1>1. FilesWhole' = FilesWhole /\ CaExists' = CaExists  BY FilesKept DEF caFiles
<1> QED  BY <1>1 DEF CaInv, caFiles, engine

LEMMA MainKeepsCa ==
    ASSUME CaTypes, CaInv,
           \/ StartEngine \/ InspectEnable \/ InspectDisable \/ GenerateCa \/ WriteKey
           \/ WriteCert \/ CloseCache \/ Reload \/ Restart
    PROVE  CaTypes' /\ CaInv'
<1>20. caKeyFile \in Int /\ caCertFile \in Int /\ lastCa \in Nat /\ lastCa \in Int
  BY DEF CaTypes
<1>1. CASE StartEngine
  <2>1. /\ UNCHANGED <<caKeyFile, caCertFile, lastCa, acked, wrap, certs>>
        /\ caKey' = Load.key /\ caCert' = Load.cert /\ contexts' = (Load.cert # 0)
        /\ enabled' = (Load.ok /\ inspectStored /\ Load.key # 0)
        /\ mitmMain' = "idle" /\ mitmMain = "start"
    BY <1>1 DEF StartEngine, LoadEngine, caFiles, cacheVars
  <2>2. FilesWhole' = FilesWhole  BY <2>1, FilesKept
  <2>3. CaTypes'  BY <2>1, LoadFacts DEF CaTypes
  <2> QED  BY <2>1, <2>2, <2>3, LoadFacts DEF CaInv
<1>2. CASE InspectEnable \/ InspectDisable
  <2>1. /\ UNCHANGED <<caKeyFile, caCertFile, lastCa, caKey, caCert, contexts, mitmMain, acked,
                       wrap, certs>>
        /\ enabled' => caKey # 0 /\ mitmMain = "idle"
    BY <1>2 DEF InspectEnable, InspectDisable, caFiles, cacheVars
  <2>2. FilesWhole' = FilesWhole /\ CaExists' = CaExists  BY <2>1, FilesKept
  <2> QED  BY <2>1, <2>2 DEF CaInv, CaTypes
<1>3. CASE GenerateCa
  <2>1. /\ UNCHANGED <<caKeyFile, caCertFile, caKey, caCert, contexts, enabled, wrap, certs>>
        /\ IF CaExists THEN mitmMain' = "close" /\ lastCa' = lastCa
           ELSE lastCa' = lastCa + 1 /\ mitmMain' = "write key"
        /\ acked' = FALSE
    BY <1>3 DEF GenerateCa, engine, cacheVars
  <2>2. FilesWhole' = FilesWhole /\ CaExists' = CaExists  BY <2>1, FilesKept
  <2>3. lastCa' \in Nat /\ (~CaExists => lastCa' > 0)
    <3>1. CASE CaExists  BY <1>20, <2>1, <3>1
    <3>2. CASE ~CaExists
      <4>1. lastCa' = lastCa + 1  BY <2>1, <3>2
      <4> QED  BY <1>20, <4>1
    <3> QED  BY <3>1, <3>2
  <2>4. ~CaExists => caCertFile = Absent  BY DEF CaInv, CaExists
  <2> QED  BY <2>1, <2>2, <2>3, <2>4 DEF CaInv, CaTypes
<1>4. CASE WriteKey
  <2>1. /\ UNCHANGED <<caCertFile, lastCa, caKey, caCert, contexts, enabled, acked, wrap, certs>>
        /\ mitmMain = "write key"
        /\ \/ caKeyFile' = lastCa /\ mitmMain' = "write cert"
           \/ caKeyFile' = Broken /\ mitmMain' \in {"write cert", "idle"}
           \/ UNCHANGED caKeyFile /\ mitmMain' = "idle"
    BY <1>4 DEF WriteKey, engine, cacheVars
  <2>2. caCertFile = Absent /\ lastCa > 0  BY <2>1 DEF CaInv
  <2>3. ~FilesWhole  BY <2>2 DEF FilesWhole
  <2>4. ~contexts /\ ~acked  BY <2>3 DEF CaInv
  <2>5. caKeyFile' \in Int  BY <1>20, <2>1, FileValues, Zenon
  <2> QED  BY <2>1, <2>2, <2>4, <2>5 DEF CaInv, CaTypes, Absent
<1>5. CASE WriteCert
  <2>1. /\ UNCHANGED <<caKeyFile, lastCa, caKey, caCert, contexts, enabled, acked, wrap, certs>>
        /\ mitmMain = "write cert"
        /\ \/ caCertFile' = lastCa /\ mitmMain' = "close"
           \/ caCertFile' = Broken /\ mitmMain' \in {"close", "idle"}
           \/ UNCHANGED caCertFile /\ mitmMain' = "idle"
    BY <1>5 DEF WriteCert, engine, cacheVars
  <2>2. caCertFile = Absent /\ lastCa > 0 /\ (caKeyFile = lastCa \/ caKeyFile = Broken)
    BY <2>1 DEF CaInv
  <2>3. ~FilesWhole  BY <2>2 DEF FilesWhole
  <2>4. ~contexts /\ ~acked  BY <2>3 DEF CaInv
  <2>5. caCertFile' \in Int  BY <1>20, <2>1, FileValues, Zenon
  <2>6. caKeyFile # Absent /\ (mitmMain' = "close" => caCertFile' # Absent)
    <3>1. lastCa # 0  BY <1>20, <2>2
    <3> QED  BY <1>20, <2>1, <2>2, <3>1, FileValues, Zenon
  <2> QED  BY <2>1, <2>2, <2>4, <2>5, <2>6 DEF CaInv, CaTypes, CaExists
<1>6. CASE CloseCache
  <2>1. /\ UNCHANGED <<caKeyFile, caCertFile, lastCa, caKey, caCert, contexts, enabled, acked,
                       wrap, certs>>
        /\ mitmMain = "close" /\ mitmMain' = "clear"
    BY <1>6 DEF CloseCache, caFiles
  <2>2. FilesWhole' = FilesWhole /\ CaExists' = CaExists  BY <2>1, FilesKept
  <2> QED  BY <2>1, <2>2 DEF CaInv, CaTypes
<1>7. CASE Reload
  <2>1. /\ UNCHANGED <<caKeyFile, caCertFile, lastCa, wrap, certs>>
        /\ caKey' = Load.key /\ caCert' = Load.cert /\ contexts' = (Load.cert # 0)
        /\ ~enabled' /\ acked' = Load.ok /\ mitmMain' = "idle" /\ mitmMain = "clear"
    BY <1>7 DEF Reload, LoadEngine, caFiles
  <2>2. FilesWhole' = FilesWhole  BY <2>1, FilesKept
  <2>3. CaTypes'  BY <2>1, LoadFacts DEF CaTypes
  <2>4. CaExists  BY <2>1 DEF CaInv
  <2>5. contexts => FilesWhole  BY DEF CaInv
  <2> QED  BY <2>1, <2>2, <2>3, <2>4, <2>5, LoadFacts DEF CaInv
<1>8. CASE Restart
  <2>1. /\ caKey' = 0 /\ caCert' = 0 /\ ~contexts' /\ ~enabled' /\ ~acked' /\ lastCa' = lastCa
        /\ certs' = <<>> /\ wrap' = [t \in Wrappers |-> Free] /\ mitmMain' = "start"
        /\ \/ UNCHANGED <<caKeyFile, caCertFile>>
           \/ mitmMain = "write key" /\ caKeyFile' = Broken /\ UNCHANGED caCertFile
           \/ mitmMain = "write cert" /\ caCertFile' = Broken /\ UNCHANGED caKeyFile
    BY <1>8 DEF Restart
  <2>2. Free \in WrapRecords /\ Free.at = "idle"  BY DEF Free, WrapRecords
  <2>3. <<>> \in Seq(CertRecords) /\ 1..Len(<<>>) = {}  OBVIOUS
  <2>4. CaTypes'
    <3>1. caKeyFile' \in Int /\ caCertFile' \in Int  BY <1>20, <2>1, FileValues, Zenon
    <3>2. wrap' = [t \in Wrappers |-> Free]  BY <2>1
    <3>3. wrap' \in [Wrappers -> WrapRecords]  BY <2>2, <3>2
    <3>4. lastCa' = lastCa /\ caKey' = 0 /\ caCert' = 0 /\ certs' = <<>>  BY <2>1
    <3> QED  BY <1>20, <2>3, <3>1, <3>3, <3>4 DEF CaTypes
  <2>5. \A t \in Wrappers : wrap'[t].at = "idle"  BY <2>1, <2>2
  <2>6. mitmMain \in {"write key", "write cert"} => caCertFile = Absent /\ lastCa > 0  BY DEF CaInv
  <2>7. mitmMain = "write cert" => caKeyFile = lastCa \/ caKeyFile = Broken  BY DEF CaInv
  <2>8. /\ caCertFile' # Absent => caKeyFile' # Absent
        /\ caCertFile' # Absent /\ caCertFile' # Broken =>
              caKeyFile' = caCertFile' \/ caKeyFile' = Broken
    <3>1. lastCa > 0 => lastCa # 0  BY <1>20
    <3> QED  BY <2>1, <2>6, <2>7, <3>1, FileValues, Zenon DEF CaInv
  <2> QED  BY <2>1, <2>3, <2>4, <2>5, <2>8 DEF CaInv
<1> QED  BY <1>1, <1>2, <1>3, <1>4, <1>5, <1>6, <1>7, <1>8

-----------------------------------------------------------------------------
(* The cache of certificates. *)

\* A domain is probed for at CacheProbe different slots.
LEMMA ProbeFacts ==
    ASSUME NEW d \in Domains
    PROVE  /\ \A k \in 1..CacheProbe : Probe(d)[k] \in CacheSlots
           /\ \A j, k \in 1..CacheProbe : Probe(d)[j] = Probe(d)[k] => j = k
<1>1. /\ CacheSize \in Nat \ {0} /\ CacheProbe \in 1..CacheSize /\ CacheProbe \in Nat
      /\ Base[d] \in 0..CacheSize-1
  BY MitmAssumption
<1>2. ASSUME NEW k \in 1..CacheProbe
      PROVE  Probe(d)[k] = IF Base[d] + k - 1 < CacheSize THEN Base[d] + k - 1
                           ELSE Base[d] + k - 1 - CacheSize
  <2>1. Base[d] + k - 1 \in 0..(2 * CacheSize - 1)  BY <1>1
  <2>2. Probe(d)[k] = (Base[d] + k - 1) % CacheSize  BY DEF Probe
  <2> QED  BY <1>1, <2>1, <2>2, WrapsOnce
<1>3. ASSUME NEW k \in 1..CacheProbe PROVE Probe(d)[k] \in CacheSlots
  BY <1>1, <1>2 DEF CacheSlots
<1>4. ASSUME NEW j \in 1..CacheProbe, NEW k \in 1..CacheProbe, Probe(d)[j] = Probe(d)[k]
      PROVE  j = k
  BY <1>1, <1>2, <1>4
<1> QED  BY <1>3, <1>4

UsedSlots == {i \in CacheSlots : cache[i].used}

\* Where the run of used slots of a probe ends.
LEMMA RunFacts ==
    ASSUME NEW d \in Domains
    PROVE  /\ Run(d) \in 0..CacheProbe
           /\ \A j \in 1..Run(d) : j \in 1..CacheProbe /\ cache[Probe(d)[j]].used
           /\ Run(d) < CacheProbe =>
                 Run(d) + 1 \in 1..CacheProbe /\ ~cache[Probe(d)[Run(d) + 1]].used
<1> DEFINE empty == {k \in 1..CacheProbe : ~cache[Probe(d)[k]].used}
           least == CHOOSE k \in empty : \A j \in empty : k <= j
<1>1. CacheProbe \in Nat  BY MitmAssumption
<1>2. Run(d) = IF empty = {} THEN CacheProbe ELSE least - 1  BY DEF Run
<1>3. CASE empty = {}
  <2>1. Run(d) = CacheProbe  BY <1>2, <1>3
  <2> QED  BY <1>1, <1>3, <2>1
<1>4. CASE empty # {}
  <2>1. empty \subseteq Nat  BY <1>1
  <2>2. least \in empty /\ \A j \in empty : least <= j
    <3> HIDE DEF empty
    <3>1. \E k \in empty : \A j \in empty : k <= j  BY <1>4, <2>1, HasLeast
    <3> QED  BY <3>1
  <2>3. Run(d) = least - 1  BY <1>2, <1>4
  <2> HIDE DEF least
  <2>4. least \in 1..CacheProbe /\ ~cache[Probe(d)[least]].used  BY <2>2
  <2>5. Run(d) \in 0..CacheProbe /\ Run(d) + 1 = least  BY <1>1, <2>3, <2>4
  <2>6. ASSUME NEW j \in 1..Run(d) PROVE j \in 1..CacheProbe /\ cache[Probe(d)[j]].used
    <3>1. j \in 1..CacheProbe /\ ~(least <= j)  BY <1>1, <2>3, <2>4, <2>6
    <3> QED  BY <2>2, <3>1
  <2> QED  BY <2>4, <2>5, <2>6
<1> QED  BY <1>3, <1>4

\* A slot of a probe behind used slots only is in its run.
LEMMA InRun ==
    ASSUME NEW d \in Domains, NEW k \in 1..CacheProbe,
           \A j \in 1..k : cache[Probe(d)[j]].used
    PROVE  k \in 1..Run(d)
<1>1. CacheProbe \in Nat  BY MitmAssumption
<1>2. Run(d) \in 0..CacheProbe  BY RunFacts
<1>3. CASE Run(d) < k
  <2>1. Run(d) + 1 \in 1..k /\ Run(d) < CacheProbe  BY <1>1, <1>2, <1>3
  <2> QED  BY <2>1, RunFacts
<1>4. CASE ~(Run(d) < k)  BY <1>1, <1>2, <1>4
<1> QED  BY <1>3, <1>4

\* An insertion goes behind used slots only.
LEMMA InsertSlotFacts ==
    ASSUME NEW d \in Domains, cache \in [CacheSlots -> CacheEntries]
    PROVE  \E k \in 1..CacheProbe :
              InsertSlot(d) = Probe(d)[k] /\ \A j \in 1..(k - 1) : cache[Probe(d)[j]].used
<1>1. CacheProbe \in Nat /\ CacheProbe > 0  BY MitmAssumption
<1>2. Run(d) \in 0..CacheProbe  BY RunFacts
<1>3. CASE Run(d) < CacheProbe
  <2>1. Run(d) + 1 \in 1..CacheProbe /\ (Run(d) + 1) - 1 = Run(d)  BY <1>1, <1>2, <1>3
  <2>2. InsertSlot(d) = Probe(d)[Run(d) + 1]  BY <1>3 DEF InsertSlot
  <2> QED  BY <2>1, <2>2, RunFacts
<1>4. CASE ~(Run(d) < CacheProbe)
  <2>1. Run(d) = CacheProbe  BY <1>1, <1>2, <1>4
  <2> DEFINE p == Probe(d)
             Oldest(k) == \A j \in 1..CacheProbe : cache[p[k]].last <= cache[p[j]].last
             S == {cache[p[k]].last : k \in 1..CacheProbe}
  <2>2. \E k \in 1..CacheProbe : Oldest(k)
    <3>1. \A k \in 1..CacheProbe : cache[p[k]].last \in Nat
      <4>1. \A k \in 1..CacheProbe : p[k] \in CacheSlots  BY ProbeFacts
      <4> HIDE DEF p
      <4> QED  BY <4>1 DEF CacheEntries
    <3> HIDE DEF p
    <3>2. S \subseteq Nat  BY <3>1
    <3>3. 1 \in 1..CacheProbe  BY <1>1
    <3>4. cache[p[1]].last \in S  BY <3>3
    <3>5. PICK x \in S : \A y \in S : x <= y
      <4> HIDE DEF S
      <4> QED  BY <3>2, <3>4, HasLeast
    <3>6. PICK k \in 1..CacheProbe : x = cache[p[k]].last  BY <3>5
    <3>7. \A j \in 1..CacheProbe : cache[p[j]].last \in S  OBVIOUS
    <3> QED  BY <3>5, <3>6, <3>7
  <2>3. InsertSlot(d) = p[CHOOSE k \in 1..CacheProbe : Oldest(k)]  BY <1>4 DEF InsertSlot
  <2>4. (CHOOSE k \in 1..CacheProbe : Oldest(k)) \in 1..CacheProbe
    <3> HIDE DEF Oldest
    <3> QED  BY <2>2
  <2>5. PICK k \in 1..CacheProbe : InsertSlot(d) = p[k]  BY <2>3, <2>4
  <2>6. \A j \in 1..(k - 1) : j \in 1..Run(d)  BY <1>1, <2>1
  <2> QED  BY <2>5, <2>6, RunFacts
<1> QED  BY <1>3, <1>4

Holders(c) == {t \in Wrappers : wrap[t].cert = c}

\* An entry is behind used slots only, from the first slot of its probe on.
Reached(i) ==
    \E k \in 1..CacheProbe :
        /\ Probe(cache[i].dom)[k] = i
        /\ \A j \in 1..(k - 1) : cache[Probe(cache[i].dom)[j]].used

TableTypes ==
    /\ cache \in [CacheSlots -> CacheEntries] /\ cacheCount \in Int /\ tick \in Nat
    /\ wrap \in [Wrappers -> WrapRecords] /\ certs \in Seq(CertRecords)
    /\ refs \in [1..Len(certs) -> Int] /\ dangling \in BOOLEAN

\* Slots are freed only all at once, so a run of used slots never breaks.
CacheInv ==
    /\ cacheCount = Cardinality(UsedSlots)
    /\ \A i \in UsedSlots :
          /\ cache[i].dom \in Domains /\ Reached(i)
          /\ cache[i].cert \in 1..Len(certs)
          /\ certs[cache[i].cert].dom = cache[i].dom /\ certs[cache[i].cert].ca = caKey
    /\ \A i, j \in UsedSlots : cache[i].dom = cache[j].dom => i = j

WrapInv ==
    \A t \in Wrappers :
        /\ wrap[t].cert # 0 => /\ wrap[t].cert \in 1..Len(certs)
                               /\ certs[wrap[t].cert].dom = Lower[wrap[t].name]
        /\ wrap[t].at = "cert" => wrap[t].name \in Names
        /\ wrap[t].at \in {"idle", "cert"} => wrap[t].cert = 0
        /\ wrap[t].at \in {"ssl", "relay"} => wrap[t].cert # 0

PhaseInv ==
    /\ (mitmMain = "clear") = dangling
    /\ dangling => cacheCount = 0
    /\ mitmMain = "start" => UsedSlots = {}

TableInv ==
    /\ TableTypes /\ (~dangling => CacheInv) /\ WrapInv /\ CertRefsAreExact /\ PhaseInv

LEMMA FiniteHolders ==
    ASSUME NEW c
    PROVE  IsFiniteSet(Holders(c)) /\ Cardinality(Holders(c)) \in Nat
<1>1. Holders(c) \in SUBSET Wrappers  BY DEF Holders
<1>2. IsFiniteSet(Wrappers)  BY MitmAssumption
<1> QED  BY <1>1, <1>2, FS_Subset, FS_CardinalityType

LEMMA FiniteSlots ==
    ASSUME NEW S \in SUBSET CacheSlots
    PROVE  IsFiniteSet(S) /\ Cardinality(S) \in Nat
<1>1. IsFiniteSet(CacheSlots)  BY MitmAssumption, FS_Interval DEF CacheSlots
<1> QED  BY <1>1, FS_Subset, FS_CardinalityType

\* The table depends on the slots' contents but for their time of use.
LEMMA CacheKept ==
    ASSUME CacheInv, UNCHANGED <<cacheCount, caKey>>,
           \A i \in CacheSlots : /\ cache'[i].used = cache[i].used /\ cache'[i].dom = cache[i].dom
                                  /\ cache'[i].cert = cache[i].cert,
           \A c \in 1..Len(certs) : c \in 1..Len(certs') /\ certs'[c] = certs[c]
    PROVE  CacheInv'
<1>1. UsedSlots' = UsedSlots  BY DEF UsedSlots
<1>2. ASSUME NEW i \in UsedSlots PROVE Reached(i)'
  <2>1. cache[i].dom \in Domains /\ cache'[i].dom = cache[i].dom  BY DEF CacheInv, UsedSlots
  <2>2. PICK k \in 1..CacheProbe :
            /\ Probe(cache[i].dom)[k] = i
            /\ \A j \in 1..(k - 1) : cache[Probe(cache[i].dom)[j]].used
    BY DEF CacheInv, Reached
  <2>3. ASSUME NEW j \in 1..(k - 1) PROVE cache'[Probe(cache'[i].dom)[j]].used
    <3>1. j \in 1..CacheProbe  BY <2>3, MitmAssumption
    <3>2. Probe(cache[i].dom)[j] \in CacheSlots  BY <2>1, <3>1, ProbeFacts
    <3> QED  BY <2>1, <2>2, <2>3, <3>2
  <2>4. Probe(cache'[i].dom)[k] = i  BY <2>1, <2>2
  <2>5. \A d : Probe(d)' = Probe(d)  BY DEF Probe
  <2> QED  BY <2>2, <2>3, <2>4, <2>5 DEF Reached
<1>3. cacheCount' = Cardinality(UsedSlots')  BY <1>1 DEF CacheInv
<1>4. ASSUME NEW i \in UsedSlots
      PROVE  /\ cache'[i].dom \in Domains /\ cache'[i].cert \in 1..Len(certs')
             /\ certs'[cache'[i].cert].dom = cache'[i].dom
             /\ certs'[cache'[i].cert].ca = caKey'
  <2>1. /\ cache'[i].dom = cache[i].dom /\ cache'[i].cert = cache[i].cert  BY DEF UsedSlots
  <2>2. /\ cache[i].dom \in Domains /\ cache[i].cert \in 1..Len(certs)
        /\ certs[cache[i].cert].dom = cache[i].dom /\ certs[cache[i].cert].ca = caKey
    BY DEF CacheInv
  <2> QED  BY <2>1, <2>2
<1>5. \A i, j \in UsedSlots : cache'[i].dom = cache'[j].dom => i = j
  <2>1. \A i \in UsedSlots : cache'[i].dom = cache[i].dom  BY DEF UsedSlots
  <2> QED  BY <2>1 DEF CacheInv
<1> QED  BY <1>1, <1>2, <1>3, <1>4, <1>5 DEF CacheInv

\* What counts as a reference: certificates' holders and slots.
LEMMA RefsKept ==
    ASSUME CertRefsAreExact, UNCHANGED <<refs, dangling>>,
           \A c \in DOMAIN refs : Holders(c)' = Holders(c) /\ Cached(c)' = Cached(c)
    PROVE  CertRefsAreExact'
BY DEF CertRefsAreExact, Holders

LEMMA TableKept ==
    ASSUME TableInv, UNCHANGED <<cacheVars, wrap, dangling, caKey>>,
           \/ mitmMain' = mitmMain
           \/ mitmMain \notin {"clear", "start"} /\ mitmMain' \notin {"clear", "start"}
    PROVE  TableInv'
<1>1. TableTypes' /\ WrapInv'  BY DEF TableInv, TableTypes, WrapInv, cacheVars
<1>2. ~dangling => CacheInv'
  <2> SUFFICES ASSUME ~dangling PROVE CacheInv'
    OBVIOUS
  <2>1. CacheInv  BY DEF TableInv
  <2> QED  BY <2>1, CacheKept DEF cacheVars
<1>3. CertRefsAreExact'  BY RefsKept DEF TableInv, cacheVars, Holders, Cached
<1>4. PhaseInv'  BY DEF TableInv, PhaseInv, cacheVars, UsedSlots
<1> QED  BY <1>1, <1>2, <1>3, <1>4 DEF TableInv

\* A thread that neither takes nor drops a certificate.
LEMMA TableKeptByThread ==
    ASSUME TableInv, UNCHANGED <<cacheVars, dangling, caKey, mitmMain>>, NEW t \in Wrappers,
           NEW w \in WrapRecords, wrap' = [wrap EXCEPT ![t] = w], w.cert = wrap[t].cert,
           w.cert # 0 => w.name = wrap[t].name /\ w.at \in {"ssl", "relay"},
           w.at = "cert" => w.name \in Names, w.at \in {"ssl", "relay"} => w.cert # 0
    PROVE  TableInv'
<1>1. wrap \in [Wrappers -> WrapRecords]  BY DEF TableInv, TableTypes
<1>2. /\ wrap' \in [Wrappers -> WrapRecords] /\ wrap'[t] = w
      /\ \A u \in Wrappers : u # t => wrap'[u] = wrap[u]
  BY <1>1
<1>3. TableTypes'  BY <1>2 DEF TableInv, TableTypes, cacheVars
<1>4. WrapInv'  BY <1>2 DEF TableInv, WrapInv, cacheVars
<1>5. ~dangling => CacheInv'
  <2> SUFFICES ASSUME ~dangling PROVE CacheInv'
    OBVIOUS
  <2>1. CacheInv  BY DEF TableInv
  <2> QED  BY <2>1, CacheKept DEF cacheVars
<1>6. \A c : Holders(c)' = Holders(c)
  <2>1. \A u \in Wrappers : wrap'[u].cert = wrap[u].cert  BY <1>2
  <2> QED  BY <2>1 DEF Holders
<1>7. CertRefsAreExact'  BY <1>6, RefsKept DEF TableInv, cacheVars, Cached
<1>8. PhaseInv'  BY DEF TableInv, PhaseInv, cacheVars, UsedSlots
<1> QED  BY <1>3, <1>4, <1>5, <1>7, <1>8 DEF TableInv

\* pf_mitm_close gives the cache's references back.
LEMMA CloseCacheSound ==
    ASSUME TableInv, CloseCache
    PROVE  TableInv'
<1>1. /\ refs' = [c \in DOMAIN refs |-> refs[c] - Cardinality(Cached(c))] /\ cacheCount' = 0
      /\ dangling' = TRUE /\ mitmMain = "close" /\ mitmMain' = "clear"
      /\ UNCHANGED <<cache, tick, certs, wrap>>
  BY DEF CloseCache
<1>2. ~dangling /\ DOMAIN refs = 1..Len(certs) /\ refs \in [1..Len(certs) -> Int]
  BY <1>1 DEF TableInv, PhaseInv, TableTypes
<1>3. \A c : Cardinality(Cached(c)) \in Nat  BY FiniteSlots DEF Cached, CacheSlots
<1>4. refs' \in [1..Len(certs) -> Int]  BY <1>1, <1>2, <1>3
<1>5. TableTypes'  BY <1>1, <1>4 DEF TableInv, TableTypes
<1>6. WrapInv'  BY <1>1 DEF TableInv, WrapInv
<1>7. ASSUME NEW c \in DOMAIN refs'
      PROVE  refs'[c] = Cardinality({t \in Wrappers : wrap'[t].cert = c})
  <2>1. c \in DOMAIN refs /\ refs'[c] = refs[c] - Cardinality(Cached(c))  BY <1>1, <1>7
  <2>2. refs[c] = Cardinality(Holders(c)) + Cardinality(Cached(c))
    BY <1>2, <2>1 DEF TableInv, CertRefsAreExact, Holders
  <2>3. refs'[c] = Cardinality(Holders(c))  BY <1>3, <2>1, <2>2, FiniteHolders
  <2> QED  BY <1>1, <2>3 DEF Holders
<1>8. CertRefsAreExact'
  <2>1. ASSUME NEW c \in DOMAIN refs' PROVE Cardinality({t \in Wrappers : wrap'[t].cert = c}) \in Nat
    <3>1. {t \in Wrappers : wrap'[t].cert = c} = Holders(c)  BY <1>1 DEF Holders
    <3> QED  BY <3>1, FiniteHolders
  <2> QED  BY <1>1, <1>7, <2>1 DEF CertRefsAreExact
<1>9. PhaseInv'  BY <1>1 DEF PhaseInv
<1> QED  BY <1>1, <1>5, <1>6, <1>8, <1>9 DEF TableInv

LEMMA NoEntryFacts == NoEntry \in CacheEntries /\ ~NoEntry.used
BY DEF NoEntry, CacheEntries

\* A cleared cache.
LEMMA ClearedCache ==
    ASSUME cache' = [i \in 0..CacheSize-1 |-> NoEntry], cacheCount' = 0
    PROVE  /\ cache' \in [CacheSlots -> CacheEntries] /\ UsedSlots' = {}
           /\ CacheInv' /\ \A c : Cached(c)' = {}
<1>1. cache' \in [CacheSlots -> CacheEntries]  BY NoEntryFacts DEF CacheSlots
<1>2. \A i \in CacheSlots : ~cache'[i].used  BY NoEntryFacts DEF CacheSlots
<1>3. UsedSlots' = {}  BY <1>2 DEF UsedSlots
<1>4. \A c : Cached(c)' = {}  BY <1>2 DEF Cached, CacheSlots
<1>5. Cardinality({}) = 0  BY FS_EmptySet
<1> QED  BY <1>1, <1>3, <1>4, <1>5 DEF CacheInv

LEMMA ReloadSound ==
    ASSUME TableInv, Reload
    PROVE  TableInv'
<1>20. dangling /\ cacheCount = 0  BY DEF Reload, TableInv, PhaseInv
<1>1. /\ cache' = [i \in 0..CacheSize-1 |-> NoEntry] /\ cacheCount' = 0 /\ dangling' = FALSE
      /\ mitmMain' = "idle" /\ UNCHANGED <<tick, certs, refs, wrap>>
  BY <1>20 DEF Reload, LoadEngine
<1>2. /\ cache' \in [CacheSlots -> CacheEntries] /\ CacheInv' /\ \A c : Cached(c)' = {}
  BY <1>1, ClearedCache
<1>3. TableTypes'
  <2>1. cacheCount' = 0 /\ UNCHANGED <<tick, certs, refs, wrap>>  BY <1>1
  <2>2. dangling' \in BOOLEAN  BY <1>1, Zenon
  <2> QED  BY <1>2, <2>1, <2>2 DEF TableInv, TableTypes
<1>4. WrapInv'  BY <1>1 DEF TableInv, WrapInv
<1>5. CertRefsAreExact'
  <2>1. Cardinality({}) = 0  BY FS_EmptySet
  <2>2. ASSUME NEW c \in DOMAIN refs'
        PROVE  /\ refs'[c] = Cardinality(Holders(c)) + 0
               /\ {t \in Wrappers : wrap'[t].cert = c} = Holders(c)
    <3>1. refs[c] = Cardinality(Holders(c)) + 0
      BY <1>1, <1>20, <2>2 DEF TableInv, CertRefsAreExact, Holders
    <3> QED  BY <1>1, <3>1 DEF Holders
  <2> QED  BY <1>1, <1>2, <2>1, <2>2 DEF CertRefsAreExact
<1>6. PhaseInv'  BY <1>1 DEF PhaseInv
<1> QED  BY <1>2, <1>3, <1>4, <1>5, <1>6 DEF TableInv

LEMMA RestartSound ==
    ASSUME TableInv, Restart
    PROVE  TableInv'
<1>1. /\ cache' = [i \in 0..CacheSize-1 |-> NoEntry] /\ cacheCount' = 0 /\ dangling' = FALSE
      /\ tick' = 0 /\ certs' = <<>> /\ refs' = <<>> /\ wrap' = [t \in Wrappers |-> Free]
      /\ mitmMain' = "start"
  BY DEF Restart
<1>2. /\ cache' \in [CacheSlots -> CacheEntries] /\ CacheInv' /\ UsedSlots' = {}
  BY <1>1, ClearedCache
<1>3. Free \in WrapRecords /\ Free.at = "idle" /\ Free.cert = 0  BY DEF Free, WrapRecords
<1>4. wrap' \in [Wrappers -> WrapRecords] /\ \A t \in Wrappers : wrap'[t] = Free  BY <1>1, <1>3
<1>5. /\ certs' \in Seq(CertRecords) /\ 1..Len(certs') = {} /\ refs' \in [1..Len(certs') -> Int]
      /\ DOMAIN refs' = {}
  BY <1>1
<1>50. cacheCount' \in Int /\ tick' \in Nat
  <2>1. cacheCount' = 0 /\ tick' = 0  BY <1>1
  <2> QED  BY <2>1
<1>51. dangling' \in BOOLEAN  BY <1>1, Zenon
<1>6. TableTypes'  BY <1>2, <1>4, <1>5, <1>50, <1>51 DEF TableTypes
<1>7. WrapInv'  BY <1>3, <1>4 DEF WrapInv
<1>8. CertRefsAreExact'  BY <1>5 DEF CertRefsAreExact
<1>9. PhaseInv'  BY <1>1, <1>2 DEF PhaseInv
<1> QED  BY <1>2, <1>6, <1>7, <1>8, <1>9 DEF TableInv

LEMMA StartEngineSound ==
    ASSUME TableInv, StartEngine
    PROVE  TableInv'
<1>1. /\ dangling' = FALSE /\ mitmMain = "start" /\ mitmMain' = "idle"
      /\ UNCHANGED <<cache, cacheCount, tick, certs, refs, wrap>>
  BY DEF StartEngine, LoadEngine, cacheVars
<1>2. ~dangling /\ UsedSlots = {}  BY <1>1 DEF TableInv, PhaseInv
<1>3. dangling' = dangling /\ UsedSlots' = {}  BY <1>1, <1>2 DEF TableInv, TableTypes, UsedSlots
<1>4. CacheInv'  BY <1>1, <1>2, <1>3 DEF TableInv, CacheInv
<1>5. TableTypes' /\ WrapInv'  BY <1>1 DEF TableInv, TableTypes, WrapInv
<1>6. CertRefsAreExact'  BY <1>1, <1>3, RefsKept DEF TableInv, Holders, Cached
<1>7. PhaseInv'  BY <1>1 DEF PhaseInv
<1> QED  BY <1>4, <1>5, <1>6, <1>7 DEF TableInv

\* A holder of one certificate more, or one less.
LEMMA HolderMoved ==
    ASSUME NEW t \in Wrappers, NEW old, NEW new, wrap[t].cert = old, wrap'[t].cert = new,
           \A u \in Wrappers : u # t => wrap'[u] = wrap[u], old # new
    PROVE  /\ Cardinality(Holders(new)') = Cardinality(Holders(new)) + 1
           /\ Cardinality(Holders(old)') = Cardinality(Holders(old)) - 1
           /\ \A c : c # new /\ c # old => Holders(c)' = Holders(c)
<1>2. Holders(new)' = Holders(new) \cup {t} /\ t \notin Holders(new)  BY DEF Holders
<1>3. Holders(old)' = Holders(old) \ {t} /\ t \in Holders(old)  BY DEF Holders
<1>4. \A c : c # new /\ c # old => Holders(c)' = Holders(c)  BY DEF Holders
<1>5. IsFiniteSet(Holders(new)) /\ IsFiniteSet(Holders(old))  BY FiniteHolders
<1>6. Cardinality(Holders(new)') = Cardinality(Holders(new)) + 1
  BY ZenonT(30), <1>2, <1>5, FS_AddElement
<1>7. Cardinality(Holders(old)') = Cardinality(Holders(old)) - 1
  BY ZenonT(30), <1>3, <1>5, FS_RemoveElement
<1> QED  BY <1>4, <1>6, <1>7

\* A connection gives its certificate back.
LEMMA DropCertSound ==
    ASSUME TableInv, NEW t \in Wrappers, DropCert(t)
    PROVE  TableInv'
<1>1. PICK old : old = wrap[t].cert  OBVIOUS
<1>2. /\ refs' = [refs EXCEPT ![old] = @ - 1] /\ wrap' = [wrap EXCEPT ![t] = Free]
      /\ wrap[t].at \in {"ssl", "relay"}
      /\ UNCHANGED <<cache, cacheCount, tick, certs, dangling, caKey, mitmMain>>
  BY <1>1 DEF DropCert, engine
<1>3. old # 0 /\ old \in 1..Len(certs)  BY <1>1, <1>2 DEF TableInv, WrapInv
<1>4. wrap \in [Wrappers -> WrapRecords] /\ refs \in [1..Len(certs) -> Int]
  BY DEF TableInv, TableTypes
<1>5. Free \in WrapRecords /\ Free.at = "idle" /\ Free.cert = 0  BY DEF Free, WrapRecords
<1>6. /\ wrap' \in [Wrappers -> WrapRecords] /\ wrap'[t] = Free
      /\ \A u \in Wrappers : u # t => wrap'[u] = wrap[u]
  BY <1>2, <1>4, <1>5
<1>7. refs' \in [1..Len(certs) -> Int]  BY <1>2, <1>3, <1>4
<1>8. TableTypes'  BY <1>2, <1>6, <1>7 DEF TableInv, TableTypes
<1>9. WrapInv'  BY <1>2, <1>5, <1>6 DEF TableInv, WrapInv
<1>10. ~dangling => CacheInv'
  <2> SUFFICES ASSUME ~dangling PROVE CacheInv'
    OBVIOUS
  <2>1. CacheInv  BY DEF TableInv
  <2> QED  BY <1>2, <2>1, CacheKept
<1>11. /\ Cardinality(Holders(old)') = Cardinality(Holders(old)) - 1
       /\ \A c : c # 0 /\ c # old => Holders(c)' = Holders(c)
  <2>1. wrap[t].cert = old /\ wrap'[t].cert = 0 /\ old # 0  BY <1>1, <1>3, <1>5, <1>6
  <2> QED  BY <1>6, <2>1, HolderMoved
<1>12. \A c : Cached(c)' = Cached(c)  BY <1>2 DEF Cached
<1>13. ASSUME NEW c \in DOMAIN refs'
       PROVE  refs'[c] = Cardinality(Holders(c)') + IF dangling THEN 0 ELSE Cardinality(Cached(c))
  <2>1. c \in DOMAIN refs /\ c \in 1..Len(certs)  BY <1>4, <1>7
  <2>2. refs[c] = Cardinality(Holders(c)) + IF dangling THEN 0 ELSE Cardinality(Cached(c))
    BY <2>1 DEF TableInv, CertRefsAreExact, Holders
  <2>3. Cardinality(Cached(c)) \in Nat  BY FiniteSlots DEF Cached, CacheSlots
  <2>4. CASE c = old
    <3>1. refs'[c] = refs[c] - 1  BY <1>2, <1>3, <1>4, <2>4
    <3> QED  BY <1>11, <2>2, <2>3, <2>4, <3>1, FiniteHolders
  <2>5. CASE c # old
    <3>1. refs'[c] = refs[c] /\ Holders(c)' = Holders(c)  BY <1>2, <1>4, <1>11, <2>1, <2>5
    <3> QED  BY <2>2, <3>1
  <2> QED  BY <2>4, <2>5
<1>14. CertRefsAreExact'  BY <1>2, <1>12, <1>13 DEF CertRefsAreExact, Holders
<1>15. PhaseInv'  BY <1>2 DEF TableInv, PhaseInv, UsedSlots
<1> QED  BY <1>2, <1>8, <1>9, <1>10, <1>14, <1>15 DEF TableInv

\* A hit: the slot's certificate gets one more holder.
LEMMA HitSound ==
    ASSUME TableInv, ~dangling, NEW t \in Wrappers, NEW h \in CacheSlots, cache[h].used,
           wrap[t].at = "cert", cache[h].dom = Lower[wrap[t].name], NEW c0, c0 = cache[h].cert,
           cache' \in [CacheSlots -> CacheEntries],
           \A i \in CacheSlots : /\ cache'[i].used = cache[i].used /\ cache'[i].dom = cache[i].dom
                                  /\ cache'[i].cert = cache[i].cert,
           refs' = [refs EXCEPT ![c0] = @ + 1], wrap' \in [Wrappers -> WrapRecords],
           wrap'[t].at = "ssl", wrap'[t].name = wrap[t].name, wrap'[t].cert = c0,
           \A u \in Wrappers : u # t => wrap'[u] = wrap[u],
           tick' \in Nat, UNCHANGED <<certs, cacheCount, dangling, caKey, mitmMain>>
    PROVE  TableInv'
<1>1. /\ refs \in [1..Len(certs) -> Int] /\ h \in UsedSlots /\ CacheInv
  BY DEF TableInv, TableTypes, UsedSlots
<1>2. c0 \in 1..Len(certs) /\ certs[c0].dom = Lower[wrap[t].name]  BY <1>1 DEF CacheInv
<1>3. wrap[t].cert = 0 /\ c0 # 0 /\ c0 \in Nat
  BY <1>2 DEF TableInv, WrapInv
<1>10. CacheInv'  BY <1>1, CacheKept
<1>11. refs' \in [1..Len(certs) -> Int]  BY <1>1, <1>2
<1>12. TableTypes'  BY <1>11 DEF TableInv, TableTypes
<1>13. WrapInv'  BY SMTT(30), <1>2, <1>3 DEF TableInv, WrapInv
<1>14. /\ Cardinality(Holders(c0)') = Cardinality(Holders(c0)) + 1
       /\ \A c : c # 0 /\ c # c0 => Holders(c)' = Holders(c)
  BY <1>3, HolderMoved
<1>15. \A c : Cached(c)' = Cached(c)  BY DEF Cached, CacheSlots
<1>16. ASSUME NEW c \in DOMAIN refs'
       PROVE  refs'[c] = Cardinality(Holders(c)') + Cardinality(Cached(c))
  <2>1. c \in DOMAIN refs /\ c \in 1..Len(certs)  BY <1>1, <1>11
  <2>2. refs[c] = Cardinality(Holders(c)) + Cardinality(Cached(c))
    BY <2>1 DEF TableInv, CertRefsAreExact, Holders
  <2>3. Cardinality(Cached(c)) \in Nat  BY FiniteSlots DEF Cached, CacheSlots
  <2>4. CASE c = c0
    <3>1. refs'[c] = refs[c] + 1  BY <1>1, <1>2, <2>4
    <3> QED  BY <1>14, <2>2, <2>3, <2>4, <3>1, FiniteHolders
  <2>5. CASE c # c0
    <3>1. refs'[c] = refs[c] /\ Holders(c)' = Holders(c)  BY <1>1, <1>14, <2>1, <2>5
    <3> QED  BY <2>2, <3>1
  <2> QED  BY <2>4, <2>5
<1>17. CertRefsAreExact'  BY <1>15, <1>16 DEF CertRefsAreExact, Holders
<1>18. UsedSlots' = UsedSlots  BY DEF UsedSlots
<1>19. PhaseInv'  BY <1>18 DEF TableInv, PhaseInv
<1> QED  BY <1>10, <1>12, <1>13, <1>17, <1>19 DEF TableInv

\* A miss: the new certificate is inserted behind used slots, over an entry
\* that gives its reference back or into a free slot.
LEMMA MissKeepsCache ==
    ASSUME CacheInv, cache \in [CacheSlots -> CacheEntries], Len(certs) \in Nat,
           NEW d \in Domains, Hits(d) = {}, NEW i, i = InsertSlot(d),
           NEW n, n = Len(certs) + 1, NEW e \in CacheEntries, e.used, e.dom = d, e.cert = n,
           cache' = [cache EXCEPT ![i] = e],
           cacheCount' = IF cache[i].used THEN cacheCount ELSE cacheCount + 1,
           Len(certs') = n, \A c \in 1..Len(certs) : certs'[c] = certs[c],
           certs'[n].dom = d, certs'[n].ca = caKey, caKey' = caKey
    PROVE  CacheInv' /\ i \in CacheSlots
<1>1. PICK k \in 1..CacheProbe : i = Probe(d)[k] /\ \A j \in 1..(k - 1) : cache[Probe(d)[j]].used
  BY InsertSlotFacts
<1>2. i \in CacheSlots  BY <1>1, ProbeFacts
<1>3. cache'[i] = e /\ \A j \in CacheSlots : j # i => cache'[j] = cache[j]  BY <1>2
<1>4. UsedSlots' = UsedSlots \cup {i}  BY <1>2, <1>3 DEF UsedSlots
<1>5. cacheCount' = Cardinality(UsedSlots')
  <2>1. UsedSlots \in SUBSET CacheSlots  BY DEF UsedSlots
  <2>2. IsFiniteSet(UsedSlots)  BY <2>1, FiniteSlots
  <2>3. Cardinality(UsedSlots') = IF i \in UsedSlots THEN Cardinality(UsedSlots)
                                  ELSE Cardinality(UsedSlots) + 1
    BY <1>4, <2>2, FS_AddElement
  <2>4. i \in UsedSlots <=> cache[i].used  BY <1>2 DEF UsedSlots
  <2>5. cacheCount = Cardinality(UsedSlots)  BY DEF CacheInv
  <2> QED  BY <2>3, <2>4, <2>5
<1>6. \A j \in CacheSlots : cache[j].used => cache'[j].used  BY <1>3
<1>7. \A b : Probe(b)' = Probe(b)  BY DEF Probe
<1>8. Reached(i)'
  <2>1. \A j \in 1..(k - 1) : cache'[Probe(d)[j]].used
    <3>1. \A j \in 1..(k - 1) : j \in 1..CacheProbe  BY MitmAssumption
    <3> QED  BY <1>1, <1>6, <3>1, ProbeFacts
  <2>2. cache'[i].dom = d  BY <1>3
  <2> QED  BY <1>1, <1>7, <2>1, <2>2 DEF Reached
<1>9. ASSUME NEW j \in UsedSlots, j # i
      PROVE  /\ Reached(j)' /\ cache'[j] = cache[j] /\ cache[j].dom \in Domains
             /\ cache[j].dom # d /\ cache[j].cert \in 1..Len(certs)
             /\ certs'[cache[j].cert].dom = cache[j].dom /\ certs'[cache[j].cert].ca = caKey
  <2>1. cache'[j] = cache[j]  BY <1>3, <1>9 DEF UsedSlots
  <2>2. /\ cache[j].dom \in Domains /\ cache[j].cert \in 1..Len(certs)
        /\ certs[cache[j].cert].dom = cache[j].dom /\ certs[cache[j].cert].ca = caKey
    BY DEF CacheInv
  <2>3. PICK m \in 1..CacheProbe :
            /\ Probe(cache[j].dom)[m] = j
            /\ \A l \in 1..(m - 1) : cache[Probe(cache[j].dom)[l]].used
    BY DEF CacheInv, Reached
  <2>4. \A l \in 1..(m - 1) : cache'[Probe(cache[j].dom)[l]].used
    <3>1. \A l \in 1..(m - 1) : l \in 1..CacheProbe  BY MitmAssumption
    <3> QED  BY <1>6, <2>2, <2>3, <3>1, ProbeFacts
  <2>5. Reached(j)'  BY <1>7, <2>1, <2>3, <2>4 DEF Reached
  <2>6. cache[j].dom # d
    <3>1. SUFFICES ASSUME cache[j].dom = d PROVE FALSE
      OBVIOUS
    <3>2. ASSUME NEW l \in 1..m PROVE cache[Probe(d)[l]].used
      <4>1. CASE l = m  BY <2>3, <3>1, <4>1 DEF UsedSlots
      <4>2. CASE l # m
        <5>1. l \in 1..(m - 1)  BY <4>2
        <5> QED  BY <2>3, <3>1, <5>1
      <4> QED  BY <4>1, <4>2
    <3>3. m \in 1..Run(d)  BY <3>2, InRun
    <3>4. cache[Probe(d)[m]].dom = d  BY <2>3, <3>1
    <3> QED  BY <3>3, <3>4 DEF Hits
  <2> QED  BY <2>1, <2>2, <2>5, <2>6
<1>10. n \in 1..n /\ \A c \in 1..Len(certs) : c \in 1..n  OBVIOUS
<1>11. ASSUME NEW j \in UsedSlots'
       PROVE  /\ cache'[j].dom \in Domains /\ Reached(j)' /\ cache'[j].cert \in 1..Len(certs')
              /\ certs'[cache'[j].cert].dom = cache'[j].dom
              /\ certs'[cache'[j].cert].ca = caKey'
  <2>1. CASE j = i  BY <1>3, <1>8, <1>10, <2>1
  <2>2. CASE j # i
    <3>1. j \in UsedSlots  BY <1>4, <1>11, <2>2
    <3> QED  BY <1>9, <1>10, <2>2, <3>1
  <2> QED  BY <2>1, <2>2
<1>12. ASSUME NEW j \in UsedSlots', NEW l \in UsedSlots', cache'[j].dom = cache'[l].dom
       PROVE  j = l
  <2>1. CASE j # i /\ l # i
    <3>1. j \in UsedSlots /\ l \in UsedSlots  BY <1>4, <1>12, <2>1
    <3>2. cache'[j] = cache[j] /\ cache'[l] = cache[l]  BY <1>9, <2>1, <3>1
    <3> QED  BY <1>12, <3>1, <3>2 DEF CacheInv
  <2>2. CASE j = i /\ l # i
    <3>1. l \in UsedSlots  BY <1>4, <1>12, <2>2
    <3> QED  BY <1>3, <1>9, <1>12, <2>2, <3>1
  <2>3. CASE j # i /\ l = i
    <3>1. j \in UsedSlots  BY <1>4, <1>12, <2>3
    <3> QED  BY <1>3, <1>9, <1>12, <2>3, <3>1
  <2> QED  BY <2>1, <2>2, <2>3
<1> QED  BY <1>2, <1>5, <1>11, <1>12 DEF CacheInv

LEMMA MissKeepsRefs ==
    ASSUME TableInv, ~dangling, ~dangling', NEW t \in Wrappers, NEW i \in CacheSlots,
           NEW n, n = Len(certs) + 1, wrap[t].cert = 0, wrap'[t].cert = n,
           \A u \in Wrappers : u # t => wrap'[u] = wrap[u],
           cache'[i].used, cache'[i].cert = n,
           \A j \in CacheSlots : j # i => cache'[j] = cache[j],
           DOMAIN refs' = 1..n, refs'[n] = 2,
           \A c \in 1..Len(certs) : refs'[c] =
               IF cache[i].used /\ cache[i].cert = c THEN refs[c] - 1 ELSE refs[c]
    PROVE  CertRefsAreExact'
<1>1. Len(certs) \in Nat /\ CacheInv /\ WrapInv /\ refs \in [1..Len(certs) -> Int]
  BY DEF TableInv, TableTypes
<1>2. n \in Nat /\ n # 0 /\ n \notin 1..Len(certs)  BY <1>1
<1>3. /\ Cardinality(Holders(n)') = Cardinality(Holders(n)) + 1
      /\ \A c : c # n /\ c # 0 => Holders(c)' = Holders(c)
  BY <1>2, HolderMoved
<1>4. Holders(n) = {}  BY <1>1, <1>2 DEF WrapInv, Holders
<1>5. Cached(n)' = {i}
  <2>1. \A j \in CacheSlots : cache[j].used => cache[j].cert # n
    BY <1>1, <1>2 DEF CacheInv, UsedSlots
  <2> QED  BY <2>1 DEF Cached, CacheSlots
<1>6. refs'[n] = Cardinality(Holders(n)') + Cardinality(Cached(n)')
  <2>1. Cardinality(Cached(n)') = 1
    <3>1. Cardinality({i}) = 1  BY FS_Singleton
    <3> QED  BY <1>5, <3>1, Zenon
  <2>2. Cardinality(Holders(n)') = 1
    <3>1. Cardinality({}) = 0  BY FS_EmptySet
    <3>2. Cardinality(Holders(n)) = 0  BY <1>4, <3>1, Zenon
    <3> QED  BY <1>3, <3>2
  <2> QED  BY <2>1, <2>2
<1>7. ASSUME NEW c \in 1..Len(certs)
      PROVE  refs'[c] = Cardinality(Holders(c)') + Cardinality(Cached(c)')
  <2>1. c # n /\ c # 0 /\ c \in Nat  BY <1>1, <1>2
  <2>2. refs[c] = Cardinality(Holders(c)) + Cardinality(Cached(c))
    BY <1>1 DEF TableInv, CertRefsAreExact, Holders
  <2>3. Cached(c)' = Cached(c) \ {i} /\ (i \in Cached(c) <=> cache[i].used /\ cache[i].cert = c)
    BY <2>1 DEF Cached, CacheSlots
  <2>4. IsFiniteSet(Cached(c)) /\ Cardinality(Cached(c)) \in Nat
    BY FiniteSlots DEF Cached, CacheSlots
  <2>5. Cardinality(Cached(c)') = IF i \in Cached(c) THEN Cardinality(Cached(c)) - 1
                                  ELSE Cardinality(Cached(c))
    <3>1. Cardinality(Cached(c) \ {i}) = IF i \in Cached(c) THEN Cardinality(Cached(c)) - 1
                                         ELSE Cardinality(Cached(c))
      BY <2>4, FS_RemoveElement
    <3> QED  BY <2>3, <3>1, Zenon
  <2>6. Holders(c)' = Holders(c) /\ Cardinality(Holders(c)) \in Nat  BY <1>3, <2>1, FiniteHolders
  <2>7. refs'[c] = IF i \in Cached(c) THEN refs[c] - 1 ELSE refs[c]  BY <2>3
  <2> QED  BY <2>2, <2>4, <2>5, <2>6, <2>7
<1>8. \A c \in DOMAIN refs' : c = n \/ c \in 1..Len(certs)  BY <1>1
<1>9. \A c \in DOMAIN refs' : refs'[c] = Cardinality(Holders(c)') + Cardinality(Cached(c)')
  BY <1>6, <1>7, <1>8
<1> QED  BY <1>9 DEF CertRefsAreExact, Holders

LEMMA GetCertSound ==
    ASSUME CaTypes, CaInv, TableInv, NEW t \in Wrappers, GetCert(t)
    PROVE  TableInv'
<1> DEFINE d == Lower[wrap[t].name]
<1>1. wrap[t].at = "cert" /\ caKey # 0 /\ mitmMain # "start" /\ wrap[t].name \in Names
  BY Zenon DEF GetCert, CaInv, TableInv, WrapInv
<1>2. d \in Domains  BY <1>1, MitmAssumption
<1>3. CASE dangling
  <2>1. UNCHANGED <<cacheVars, wrap, dangling, caKey, mitmMain>>
    BY <1>3, Zenon DEF GetCert, UseFreed, engine
  <2> QED  BY <2>1, TableKept
<1>4. CASE ~dangling
  <2> DEFINE x == tick + 1
  <2>1. /\ tick' = x /\ x \in Nat /\ UNCHANGED <<dangling, caKey, mitmMain>>
    <3>1. tick \in Nat  BY DEF TableInv, TableTypes
    <3>2. tick' = x /\ UNCHANGED <<dangling, caKey, mitmMain>>  BY <1>4, Zenon DEF GetCert, engine
    <3> QED  BY <3>1, <3>2
  <2>2. /\ cache \in [CacheSlots -> CacheEntries] /\ wrap \in [Wrappers -> WrapRecords]
        /\ certs \in Seq(CertRecords) /\ refs \in [1..Len(certs) -> Int] /\ Len(certs) \in Nat
        /\ cacheCount \in Int
    BY DEF TableInv, TableTypes
  <2>3. wrap[t] \in WrapRecords /\ wrap[t].cert = 0  BY <1>1, <2>2 DEF TableInv, WrapInv
  <2>4. ASSUME NEW c, wrap' = [wrap EXCEPT ![t].at = "ssl", ![t].cert = c]
        PROVE  wrap' = [wrap EXCEPT ![t] = [at |-> "ssl", name |-> wrap[t].name, cert |-> c]]
    <3>1. wrap' = [wrap EXCEPT ![t] = [[wrap[t] EXCEPT !.at = "ssl"] EXCEPT !.cert = c]]
      BY <2>2, <2>4
    <3> DEFINE u == [[wrap[t] EXCEPT !.at = "ssl"] EXCEPT !.cert = c]
    <3>2. /\ u \in [at : {"ssl"}, name : Names \cup {CHOOSE n \in Names : TRUE}, cert : {c}]
          /\ u.name = wrap[t].name
      BY <2>3 DEF WrapRecords
    <3> HIDE DEF u
    <3>3. u = [at |-> "ssl", name |-> wrap[t].name, cert |-> c]  BY <3>2
    <3> QED  BY <3>1, <3>3 DEF u
  <2>5. CASE Hits(d) # {}
    <3> DEFINE k0 == CHOOSE k \in Hits(d) : \A j \in Hits(d) : k <= j
    <3>1. PICK h : h = Probe(d)[k0]  OBVIOUS
    <3>2. PICK c : c = cache[h].cert  OBVIOUS
    <3>3. /\ cache' = [cache EXCEPT ![h].last = x] /\ refs' = [refs EXCEPT ![c] = @ + 1]
          /\ wrap' = [wrap EXCEPT ![t].at = "ssl", ![t].cert = c]
          /\ UNCHANGED <<certs, cacheCount>>
      BY <1>4, <2>5, <3>1, <3>2, Zenon DEF GetCert
    <3>4. k0 \in Hits(d)
      <4>1. Hits(d) \subseteq Nat  BY <1>2, RunFacts DEF Hits
      <4>2. \E k \in Hits(d) : \A j \in Hits(d) : k <= j  BY <2>5, <4>1, HasLeast
      <4> QED  BY <4>2
    <3>5. h \in CacheSlots /\ cache[h].used /\ cache[h].dom = d
      <4>1. k0 \in 1..Run(d) /\ cache[Probe(d)[k0]].dom = d  BY <3>4, Zenon DEF Hits
      <4> HIDE DEF k0, d
      <4> QED  BY <1>2, <3>1, <4>1, RunFacts, ProbeFacts
    <3>6. PICK e : e = [cache[h] EXCEPT !.last = x]  OBVIOUS
    <3>7. /\ e \in CacheEntries /\ e.used = cache[h].used
          /\ e.dom = cache[h].dom /\ e.cert = cache[h].cert
      <4>1. cache[h] \in CacheEntries  BY <2>2, <3>5
      <4> QED  BY <2>1, <3>6, <4>1 DEF CacheEntries
    <3>8. cache' = [cache EXCEPT ![h] = e]  BY <2>2, <3>3, <3>5, <3>6
    <3>9. cache' \in [CacheSlots -> CacheEntries]  BY <2>2, <3>5, <3>7, <3>8
    <3>10. \A i \in CacheSlots : /\ cache'[i].used = cache[i].used /\ cache'[i].dom = cache[i].dom
                                  /\ cache'[i].cert = cache[i].cert
      <4>1. \A i \in CacheSlots : cache'[i] = IF i = h THEN e ELSE cache[i]  BY <2>2, <3>5, <3>8
      <4> QED  BY <3>7, <4>1
    <3>11. PICK w : w = [at |-> "ssl", name |-> wrap[t].name, cert |-> c]  OBVIOUS
    <3>12. c \in Nat  BY <2>2, <3>2, <3>5 DEF CacheEntries
    <3>13. w \in WrapRecords /\ w.cert = c /\ w.at = "ssl" /\ w.name = wrap[t].name
      BY <2>3, <3>11, <3>12 DEF WrapRecords
    <3>14. wrap' = [wrap EXCEPT ![t] = w]  BY <2>4, <3>3, <3>11
    <3>15. /\ wrap' \in [Wrappers -> WrapRecords] /\ wrap'[t] = w
           /\ \A u \in Wrappers : u # t => wrap'[u] = wrap[u]
      BY <2>2, <3>13, <3>14
    <3>16. tick' \in Nat  BY <2>1
    <3> QED
      BY ZenonT(30), <1>1, <1>4, <2>1, <3>2, <3>3, <3>5, <3>9, <3>10, <3>13, <3>15, <3>16, HitSound
  <2>6. CASE Hits(d) = {}
    <3>1. PICK i : i = InsertSlot(d)  OBVIOUS
    <3>2. PICK n : n = Len(certs) + 1  OBVIOUS
    <3>3. PICK e : e = [used |-> TRUE, dom |-> d, cert |-> n, last |-> x]  OBVIOUS
    <3>4. PICK r : r = [dom |-> d, ca |-> caKey, issuer |-> caCert]  BY Zenon
    <3> DEFINE old == [c \in DOMAIN refs |-> IF cache[i].used /\ cache[i].cert = c
                                             THEN refs[c] - 1 ELSE refs[c]]
    <3>5. /\ certs' = Append(certs, r) /\ refs' = Append(old, 2)
          /\ cacheCount' = IF cache[i].used THEN cacheCount ELSE cacheCount + 1
          /\ cache' = [cache EXCEPT ![i] = e]
          /\ wrap' = [wrap EXCEPT ![t].at = "ssl", ![t].cert = n]
      BY <1>4, <2>6, <3>1, <3>2, <3>3, <3>4, Zenon DEF GetCert
    <3>6. /\ e \in CacheEntries /\ e.used /\ e.dom = d /\ e.cert = n
      BY <1>2, <2>1, <2>2, <3>2, <3>3 DEF CacheEntries
    <3>7. r \in CertRecords /\ r.dom = d /\ r.ca = caKey
      BY <1>2, <3>4 DEF CertRecords, CaTypes
    <3>8. /\ certs' \in Seq(CertRecords) /\ Len(certs') = n /\ certs'[n] = r
          /\ \A c \in 1..Len(certs) : certs'[c] = certs[c]
      BY <2>2, <3>2, <3>5, <3>7
    <3>9. /\ DOMAIN refs' = 1..n /\ refs'[n] = 2 /\ refs' \in [1..n -> Int]
          /\ \A c \in 1..Len(certs) : refs'[c] =
                IF cache[i].used /\ cache[i].cert = c THEN refs[c] - 1 ELSE refs[c]
      <4>1. old \in [1..Len(certs) -> Int]  BY <2>2
      <4>2. \A c \in 1..Len(certs) : old[c] =
                IF cache[i].used /\ cache[i].cert = c THEN refs[c] - 1 ELSE refs[c]
        BY <2>2
      <4> HIDE DEF old
      <4>3. old \in Seq(Int) /\ Len(old) = Len(certs)  BY <2>2, <4>1
      <4>4. /\ refs' \in Seq(Int) /\ Len(refs') = n /\ refs'[n] = 2
            /\ \A c \in 1..Len(certs) : refs'[c] = old[c]
        BY <2>2, <3>2, <3>5, <4>3
      <4>5. DOMAIN refs' = 1..n /\ refs' \in [1..n -> Int]  BY <4>4
      <4> QED  BY <4>2, <4>4, <4>5
    <3>10. CacheInv  BY <1>4 DEF TableInv
    <3>11. PICK b \in Domains : b = d  BY <1>2
    <3>12. CacheInv' /\ i \in CacheSlots
      <4>1. i = InsertSlot(b) /\ e.dom = b /\ certs'[n].dom = b /\ Hits(b) = {}
            /\ certs'[n].ca = caKey
        BY <2>6, <3>1, <3>6, <3>7, <3>8, <3>11
      <4> QED  BY <2>1, <2>2, <3>2, <3>5, <3>6, <3>8, <3>10, <4>1, MissKeepsCache
    <3>13. /\ cache' \in [CacheSlots -> CacheEntries] /\ cache'[i] = e
           /\ \A j \in CacheSlots : j # i => cache'[j] = cache[j]
      BY <2>2, <3>5, <3>6, <3>12
    <3>14. PICK w : w = [at |-> "ssl", name |-> wrap[t].name, cert |-> n]  OBVIOUS
    <3>15. n \in Nat /\ n # 0  BY <2>2, <3>2
    <3>16. w \in WrapRecords /\ w.cert = n /\ w.at = "ssl" /\ w.name = wrap[t].name
      BY <2>3, <3>14, <3>15 DEF WrapRecords
    <3>17. wrap' = [wrap EXCEPT ![t] = w]  BY <2>4, <3>5, <3>14
    <3>18. /\ wrap' \in [Wrappers -> WrapRecords] /\ wrap'[t] = w
           /\ \A u \in Wrappers : u # t => wrap'[u] = wrap[u]
      BY <2>2, <3>16, <3>17
    <3>19. CertRefsAreExact'
      <4>1. ~dangling'  BY <1>4, <2>1
      <4>2. cache'[i].used /\ cache'[i].cert = n /\ wrap'[t].cert = n
        BY <3>6, <3>13, <3>16, <3>18
      <4> QED  BY <1>4, <2>3, <3>2, <3>9, <3>12, <3>13, <3>18, <4>1, <4>2, MissKeepsRefs
    <3>20. TableTypes'
      <4>1. cacheCount' \in Int  BY <2>2, <3>5
      <4>2. tick' \in Nat /\ dangling' = dangling  BY <2>1
      <4> QED  BY <3>8, <3>9, <3>13, <3>18, <4>1, <4>2 DEF TableInv, TableTypes
    <3>21. WrapInv'
      <4>1. certs'[n].dom = Lower[wrap[t].name] /\ n \in 1..Len(certs')
        BY <2>2, <3>2, <3>7, <3>8
      <4>2. \A c \in 1..Len(certs) : c \in 1..Len(certs') /\ certs'[c] = certs[c]
        BY <2>2, <3>2, <3>8
      <4>3. ASSUME NEW u \in Wrappers, u # t
            PROVE  /\ wrap'[u].cert # 0 =>
                         /\ wrap'[u].cert \in 1..Len(certs')
                         /\ certs'[wrap'[u].cert].dom = Lower[wrap'[u].name]
                   /\ wrap'[u].at = "cert" => wrap'[u].name \in Names
                   /\ wrap'[u].at \in {"idle", "cert"} => wrap'[u].cert = 0
                   /\ wrap'[u].at \in {"ssl", "relay"} => wrap'[u].cert # 0
        BY <3>18, <4>2, <4>3 DEF TableInv, WrapInv
      <4> QED  BY <3>15, <3>16, <3>18, <4>1, <4>3 DEF WrapInv
    <3>22. PhaseInv'
      <4>1. ~dangling' /\ mitmMain' = mitmMain /\ mitmMain # "clear"
        BY <1>4, <2>1 DEF TableInv, PhaseInv
      <4> QED  BY <1>1, <1>4, <2>1, <4>1 DEF PhaseInv, TableInv
    <3> QED  BY <3>12, <3>19, <3>20, <3>21, <3>22 DEF TableInv
  <2> QED  BY <2>5, <2>6
<1> QED  BY <1>3, <1>4

MitmInv == CaTypes /\ CaInv /\ TableInv

LEMMA ThreadSound ==
    ASSUME MitmInv, NEW t \in Wrappers,
           WrapServer(t) \/ GetCert(t) \/ NoCert(t) \/ UseCert(t) \/ DropCert(t)
    PROVE  MitmInv'
<1>1. /\ wrap \in [Wrappers -> WrapRecords] /\ certs \in Seq(CertRecords) /\ Len(certs) \in Nat
      /\ wrap[t] \in WrapRecords /\ CaTypes /\ CaInv /\ TableInv
  BY DEF MitmInv, CaTypes
<1>2. Free \in WrapRecords /\ Free.at = "idle" /\ Free.cert = 0  BY DEF Free, WrapRecords
<1>3. \A u \in Wrappers : wrap[u].at # "idle" => contexts /\ mitmMain # "start"
  BY <1>1 DEF CaInv
<1>4. \A c \in 1..Len(certs) : certs[c].issuer = certs[c].ca  BY <1>1 DEF CaInv
<1>5. CASE UseFreed
  <2>1. UNCHANGED <<caFiles, engine, mitmMain, acked, cacheVars, wrap>>  BY <1>5 DEF UseFreed
  <2>2. TableInv'  BY <1>1, <2>1, TableKept DEF engine
  <2>3. CaInv'  BY <1>1, <1>3, <1>4, <2>1, ThreadKeepsCa DEF cacheVars
  <2>4. CaTypes'  BY <1>1, <2>1 DEF CaTypes, caFiles, engine, cacheVars
  <2> QED  BY <2>2, <2>3, <2>4 DEF MitmInv
<1>6. ASSUME NEW w \in WrapRecords, wrap' = [wrap EXCEPT ![t] = w], w.at # "idle" => contexts,
             UNCHANGED <<caFiles, engine, mitmMain, acked, cacheVars>>, w.cert = wrap[t].cert,
             w.cert # 0 => w.name = wrap[t].name /\ w.at \in {"ssl", "relay"},
             w.at = "cert" => w.name \in Names, w.at \in {"ssl", "relay"} => w.cert # 0,
             mitmMain # "start"
      PROVE  MitmInv'
  <2>1. TableInv'  BY <1>1, <1>6, TableKeptByThread DEF engine
  <2>2. \A u \in Wrappers : wrap'[u].at # "idle" => contexts  BY <1>1, <1>3, <1>6
  <2>3. certs' = certs  BY <1>6 DEF cacheVars
  <2>4. CaInv'  BY <1>1, <1>4, <1>6, <2>2, <2>3, ThreadKeepsCa
  <2>5. CaTypes'
    <3>1. wrap' \in [Wrappers -> WrapRecords]  BY <1>1, <1>6
    <3> QED  BY <1>1, <1>6, <3>1 DEF CaTypes, caFiles, engine, cacheVars
  <2> QED  BY <2>1, <2>4, <2>5 DEF MitmInv
<1>7. CASE WrapServer(t) /\ ~UseFreed
  <2>1. /\ contexts /\ wrap[t].at = "idle" /\ enabled
        /\ \E n \in Names : wrap' = [wrap EXCEPT ![t] = [at |-> "cert", name |-> n, cert |-> 0]]
        /\ UNCHANGED <<caFiles, engine, mitmMain, acked, cacheVars>>
    BY <1>7 DEF WrapServer
  <2>2. PICK n \in Names : wrap' = [wrap EXCEPT ![t] = [at |-> "cert", name |-> n, cert |-> 0]]
    BY <2>1
  <2>3. PICK w : w = [at |-> "cert", name |-> n, cert |-> 0]  OBVIOUS
  <2>4. w \in WrapRecords /\ w.at = "cert" /\ w.name = n /\ w.cert = 0
    BY <2>3 DEF WrapRecords
  <2>5. wrap[t].cert = 0  BY <1>1, <2>1 DEF TableInv, WrapInv
  <2>6. mitmMain # "start"  BY <1>1, <2>1 DEF CaInv
  <2>7. wrap' = [wrap EXCEPT ![t] = w]  BY <2>2, <2>3
  <2> QED  BY <1>6, <2>1, <2>4, <2>5, <2>6, <2>7
<1>8. CASE NoCert(t)
  <2>1. /\ wrap[t].at = "cert" /\ wrap' = [wrap EXCEPT ![t] = Free]
        /\ UNCHANGED <<caFiles, engine, mitmMain, acked, cacheVars>>
    BY <1>8 DEF NoCert
  <2>2. wrap[t].cert = 0  BY <1>1, <2>1 DEF TableInv, WrapInv
  <2> QED  BY <1>2, <1>3, <1>6, <2>1, <2>2
<1>9. CASE UseCert(t) /\ ~UseFreed
  <2>1. /\ wrap[t].at = "ssl" /\ contexts /\ wrap' = [wrap EXCEPT ![t].at = "relay"]
        /\ UNCHANGED <<caFiles, engine, mitmMain, acked, cacheVars>>
    BY <1>9 DEF UseCert
  <2>2. PICK w : w = [wrap[t] EXCEPT !.at = "relay"]  OBVIOUS
  <2>3. w \in WrapRecords /\ w.at = "relay" /\ w.name = wrap[t].name /\ w.cert = wrap[t].cert
    BY <1>1, <2>2 DEF WrapRecords
  <2>4. wrap' = [wrap EXCEPT ![t] = w]  BY <1>1, <2>1, <2>2
  <2>5. wrap[t].cert # 0  BY <1>1, <2>1 DEF TableInv, WrapInv
  <2> QED  BY <1>3, <1>6, <2>1, <2>3, <2>4, <2>5
<1>10. CASE DropCert(t)
  <2>1. /\ wrap[t].at \in {"ssl", "relay"} /\ wrap' = [wrap EXCEPT ![t] = Free]
        /\ UNCHANGED <<caFiles, engine, mitmMain, acked, certs>>
    BY <1>10 DEF DropCert
  <2>2. TableInv'  BY <1>1, <1>10, DropCertSound
  <2>3. wrap' \in [Wrappers -> WrapRecords] /\ \A u \in Wrappers : wrap'[u].at # "idle" => contexts
    BY <1>1, <1>2, <1>3, <2>1
  <2>4. CaInv'  BY <1>1, <1>3, <1>4, <2>1, <2>3, ThreadKeepsCa
  <2>5. CaTypes'  BY <1>1, <2>1, <2>3 DEF CaTypes, caFiles, engine
  <2> QED  BY <2>2, <2>4, <2>5 DEF MitmInv
<1>11. CASE GetCert(t) /\ ~UseFreed
  <2>1. /\ wrap[t].at = "cert" /\ UNCHANGED <<caFiles, engine, mitmMain, acked>>
    BY <1>11, Zenon DEF GetCert
  <2>2. TableInv'  BY <1>1, <1>11, GetCertSound
  <2>3. wrap' \in [Wrappers -> WrapRecords] /\ certs' \in Seq(CertRecords)
    BY <2>2 DEF TableInv, TableTypes
  <2>4. \A u \in Wrappers : wrap'[u].at # "idle" => contexts
    <3>1. \E c : wrap' = [wrap EXCEPT ![t].at = "ssl", ![t].cert = c]  BY <1>11, Zenon DEF GetCert
    <3>2. \A u \in Wrappers : u # t => wrap'[u] = wrap[u]  BY <1>1, <3>1
    <3> QED  BY <1>3, <2>1, <3>2
  <2>5. \A c \in 1..Len(certs') : certs'[c].issuer = certs'[c].ca
    <3>1. CASE certs' = certs  BY <1>4, <3>1
    <3>2. CASE \E d : certs' = Append(certs, [dom |-> d, ca |-> caKey, issuer |-> caCert])
      <4>1. PICK r : certs' = Append(certs, r) /\ r.ca = caKey /\ r.issuer = caCert  BY <3>2
      <4>2. caKey = caCert  BY <1>1, <1>3, <2>1 DEF CaInv
      <4>3. /\ Len(certs') = Len(certs) + 1 /\ certs'[Len(certs) + 1] = r
            /\ \A c \in 1..Len(certs) : certs'[c] = certs[c]
        BY <1>1, <4>1, AppendProperties
      <4>4. \A c \in 1..Len(certs') : c = Len(certs) + 1 \/ c \in 1..Len(certs)  BY <1>1, <4>3
      <4> QED  BY <1>4, <4>1, <4>2, <4>3, <4>4
    <3> QED  BY <1>11, <3>1, <3>2, Zenon DEF GetCert
  <2>6. CaInv'
    <3>1. mitmMain # "start"  BY <1>3, <2>1
    <3> QED  BY <1>1, <2>1, <2>4, <2>5, <3>1, ThreadKeepsCa
  <2>7. CaTypes'  BY <1>1, <2>1, <2>3 DEF CaTypes, caFiles, engine
  <2> QED  BY <2>2, <2>6, <2>7 DEF MitmInv
<1> QED  BY <1>5, <1>7, <1>8, <1>9, <1>10, <1>11

LEMMA MitmStepSound == MitmInv /\ [MitmNext]_mitmVars => MitmInv'
<1> SUFFICES ASSUME MitmInv, [MitmNext]_mitmVars PROVE MitmInv'
  OBVIOUS
<1>1. CaTypes /\ CaInv /\ TableInv  BY DEF MitmInv
<1>2. CASE \/ StartEngine \/ InspectEnable \/ InspectDisable \/ GenerateCa \/ WriteKey
           \/ WriteCert \/ CloseCache \/ Reload \/ Restart
  <2>1. CaTypes' /\ CaInv'  BY <1>1, <1>2, MainKeepsCa
  <2>3. CASE GenerateCa
    <3>1. /\ UNCHANGED <<cacheVars, wrap, dangling, caKey>> /\ mitmMain = "idle"
          /\ mitmMain' \in {"close", "write key"}
      BY <2>3 DEF GenerateCa, engine
    <3>2. mitmMain \notin {"clear", "start"} /\ mitmMain' \notin {"clear", "start"}  BY <3>1
    <3> QED  BY <1>1, <2>1, <3>1, <3>2, TableKept DEF MitmInv
  <2>4. CASE WriteKey \/ WriteCert
    <3>1. /\ UNCHANGED <<cacheVars, wrap, dangling, caKey>>
          /\ mitmMain \in {"write key", "write cert"}
          /\ mitmMain' \in {"write cert", "idle", "close"}
      BY <2>4 DEF WriteKey, WriteCert, engine
    <3>2. mitmMain \notin {"clear", "start"} /\ mitmMain' \notin {"clear", "start"}  BY <3>1
    <3> QED  BY <1>1, <2>1, <3>1, <3>2, TableKept DEF MitmInv
  <2>5. InspectEnable \/ InspectDisable => TableInv'
    <3> SUFFICES ASSUME InspectEnable \/ InspectDisable PROVE TableInv'
      OBVIOUS
    <3>1. UNCHANGED <<cacheVars, wrap, dangling, caKey, mitmMain>>
      BY DEF InspectEnable, InspectDisable
    <3> QED  BY <1>1, <3>1, TableKept
  <2>6. TableInv'
    BY <1>1, <1>2, <2>3, <2>4, <2>5, StartEngineSound, CloseCacheSound, ReloadSound, RestartSound
    DEF MitmInv
  <2> QED  BY <2>1, <2>6 DEF MitmInv
<1>3. CASE UNCHANGED mitmVars
  <2>1. UNCHANGED <<caFiles, engine, mitmMain, acked, cacheVars, wrap>>
    BY <1>3 DEF mitmVars, caFiles, engine, cacheVars
  <2>2. TableInv'  BY <1>1, <2>1, TableKept DEF engine
  <2>3. /\ \A t \in Wrappers : wrap[t].at # "idle" => contexts
        /\ \A c \in 1..Len(certs) : certs[c].issuer = certs[c].ca
    BY <1>1 DEF CaInv
  <2>4. Len(certs) \in Nat  BY <1>1 DEF CaTypes
  <2>5. CaInv'  BY <1>1, <2>1, <2>3, <2>4, ThreadKeepsCa DEF cacheVars
  <2>6. CaTypes'  BY <1>1, <2>1 DEF CaTypes, caFiles, engine, cacheVars
  <2> QED  BY <2>2, <2>5, <2>6 DEF MitmInv
<1> QED  BY <1>2, <1>3, ThreadSound DEF MitmNext

LEMMA MitmStarts == MitmInit => MitmInv
<1> SUFFICES ASSUME MitmInit PROVE MitmInv
  OBVIOUS
<1>1. Free \in WrapRecords /\ Free.at = "idle" /\ Free.cert = 0  BY DEF Free, WrapRecords
<1>2. wrap \in [Wrappers -> WrapRecords] /\ \A t \in Wrappers : wrap[t] = Free
  BY <1>1 DEF MitmInit
<1>3. certs = <<>> /\ refs = <<>> /\ certs \in Seq(CertRecords) /\ 1..Len(certs) = {}
      /\ refs \in [1..Len(certs) -> Int] /\ DOMAIN refs = {}
  BY DEF MitmInit
<1>4. CaTypes
  <2>1. /\ caKeyFile = 0 /\ caCertFile = 0 /\ lastCa = 0 /\ caKey = 0 /\ caCert = 0
    BY DEF MitmInit, Absent
  <2> QED  BY <1>2, <1>3, <2>1 DEF CaTypes
<1>5. CaInv
  <2>1. caCertFile = Absent /\ ~enabled /\ ~contexts /\ ~acked /\ mitmMain = "start"
    BY DEF MitmInit
  <2> QED  BY <1>1, <1>2, <1>3, <2>1 DEF CaInv
<1>6. cache \in [CacheSlots -> CacheEntries] /\ \A i \in CacheSlots : ~cache[i].used
  BY NoEntryFacts DEF MitmInit, CacheSlots
<1>7. UsedSlots = {}  BY <1>6 DEF UsedSlots
<1>8. CacheInv
  <2>1. cacheCount = 0 /\ Cardinality({}) = 0  BY FS_EmptySet DEF MitmInit
  <2> QED  BY <1>7, <2>1 DEF CacheInv
<1>9. ~dangling /\ dangling \in BOOLEAN /\ mitmMain = "start"  BY Zenon DEF MitmInit
<1>10. TableTypes
  <2>1. cacheCount = 0 /\ tick = 0  BY DEF MitmInit
  <2> QED  BY <1>2, <1>3, <1>6, <1>9, <2>1 DEF TableTypes
<1>11. WrapInv  BY <1>1, <1>2 DEF WrapInv
<1>12. CertRefsAreExact  BY <1>3 DEF CertRefsAreExact
<1>13. PhaseInv  BY <1>7, <1>9 DEF PhaseInv
<1> QED  BY <1>4, <1>5, <1>8, <1>10, <1>11, <1>12, <1>13 DEF MitmInv, TableInv

LEMMA MitmInvariance == MitmSpec => []MitmInv
BY MitmStarts, MitmStepSound, PTL DEF MitmSpec

\* Over failed writes, crashes, restarts and reloads, interception is on only
\* with a key, wraps connections only with the key and certificate of one CA,
\* and a CA that was acknowledged is one a restart loads (pf_mitm_generate_ca,
\* pf_mitm_init, inspect.enable).
THEOREM CaStaysWhole == MitmSpec => []CaIsWhole
<1>1. MitmInv => CaIsWhole
  <2> SUFFICES ASSUME MitmInv PROVE CaIsWhole
    OBVIOUS
  <2>1. CaTypes /\ CaInv  BY DEF MitmInv
  <2>2. enabled => caKey # 0  BY <2>1 DEF CaInv
  <2>3. contexts => caKey # 0 /\ caKey = caCert  BY <2>1 DEF CaInv, FilesWhole, Absent
  <2>4. \A c \in DOMAIN certs : certs[c].issuer = certs[c].ca
    <3>1. DOMAIN certs = 1..Len(certs)  BY <2>1 DEF CaTypes
    <3> QED  BY <2>1, <3>1 DEF CaInv
  <2>5. acked => Load.ok /\ Load.key # 0  BY <2>1, LoadFacts DEF CaInv
  <2> QED  BY <2>2, <2>3, <2>4, <2>5 DEF CaIsWhole
<1> QED  BY <1>1, MitmInvariance, PTL

\* A certificate has one reference per cache slot and one per user, across
\* eviction and reload: none is leaked, none is freed in use
\* (pf_mitm_get_cert, pf_mitm_close).
THEOREM CertRefsExact == MitmSpec => []CertRefsAreExact
<1>1. MitmInv => CertRefsAreExact  BY DEF MitmInv, TableInv
<1> QED  BY <1>1, MitmInvariance, PTL

\* The cache stays a hash table by any threads: an entry is found by its probe,
\* no domain is in it twice, cache_count is exact, and a certificate is for its
\* domain and of the CA loaded (pf_mitm_get_cert, pf_mitm_close).
THEOREM CertCacheSound == MitmSpec => []CertCacheIsSound
<1>1. MitmInv => CertCacheIsSound
  <2> SUFFICES ASSUME MitmInv, ~dangling PROVE CertCacheIsSound
    BY DEF CertCacheIsSound
  <2>1. CacheInv /\ WrapInv  BY DEF MitmInv, TableInv
  <2>2. {i \in 0..CacheSize-1 : cache[i].used} = UsedSlots  BY DEF UsedSlots, CacheSlots
  <2>3. ASSUME NEW i \in UsedSlots
        PROVE  /\ \E k \in Hits(cache[i].dom) : Probe(cache[i].dom)[k] = i
               /\ Cardinality(Hits(cache[i].dom)) = 1
    <3>1. PICK d \in Domains : d = cache[i].dom  BY <2>1 DEF CacheInv
    <3>2. PICK k \in 1..CacheProbe :
              Probe(d)[k] = i /\ \A j \in 1..(k - 1) : cache[Probe(d)[j]].used
      BY <2>1, <3>1 DEF CacheInv, Reached
    <3>3. ASSUME NEW j \in 1..k PROVE cache[Probe(d)[j]].used
      <4>1. CASE j = k  BY <3>2, <4>1 DEF UsedSlots
      <4>2. CASE j # k
        <5>1. j \in 1..(k - 1)  BY <4>2
        <5> QED  BY <3>2, <5>1
      <4> QED  BY <4>1, <4>2
    <3>4. k \in 1..Run(d)  BY <3>3, InRun
    <3>5. k \in Hits(d)  BY <3>1, <3>2, <3>4 DEF Hits
    <3>6. ASSUME NEW j \in Hits(d) PROVE j = k
      <4>1. j \in 1..Run(d) /\ cache[Probe(d)[j]].dom = d  BY DEF Hits
      <4>2. j \in 1..CacheProbe /\ cache[Probe(d)[j]].used  BY <4>1, RunFacts
      <4>3. Probe(d)[j] \in UsedSlots  BY <4>2, ProbeFacts DEF UsedSlots
      <4>4. Probe(d)[j] = i  BY <2>1, <3>1, <4>1, <4>3 DEF CacheInv
      <4> QED  BY <3>2, <4>2, <4>4, ProbeFacts
    <3>7. Hits(d) = {k}  BY <3>5, <3>6
    <3>8. Cardinality({k}) = 1  BY FS_Singleton
    <3>9. Cardinality(Hits(d)) = 1  BY <3>7, <3>8, Zenon
    <3> QED  BY <3>1, <3>2, <3>5, <3>9
  <2>4. \A i \in UsedSlots : /\ certs[cache[i].cert].dom = cache[i].dom
                              /\ certs[cache[i].cert].ca = caKey
    BY <2>1 DEF CacheInv
  <2>5. cacheCount = Cardinality(UsedSlots)  BY <2>1 DEF CacheInv
  <2>6. \A t \in Wrappers : wrap[t].cert # 0 => certs[wrap[t].cert].dom = Lower[wrap[t].name]
    BY <2>1 DEF WrapInv
  <2> QED  BY <2>2, <2>3, <2>4, <2>5, <2>6, Zenon DEF CertCacheIsSound
<1> QED  BY <1>1, MitmInvariance, PTL
=============================================================================
