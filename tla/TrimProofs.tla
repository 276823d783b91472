----------------------------- MODULE TrimProofs -----------------------------
(***************************************************************************)
(* What Bytes and Trim of Conversation return, for every sequence of turns *)
(* and every limit.  Both are defined by recursion; what is proved of them *)
(* rests on the principle that a set of natural numbers has a least        *)
(* element, in place of an induction.                                      *)
(***************************************************************************)
EXTENDS Conversation, TLAPS, SequenceTheorems, WellFoundedInduction

(* Every non-empty set of natural numbers has a least element.             *)
LEMMA LeastNat ==
  ASSUME NEW T, T \subseteq Nat, T # {}
  PROVE  \E n \in T : \A m \in T : n <= m
<1> DEFINE R == OpToRel(<, Nat)
<1>1. IsWellFoundedOn(R, Nat)
  BY NatLessThanWellFounded
<1>2. \A x, y \in Nat : x < y => <<x, y>> \in R
  BY DEF OpToRel
<1> HIDE DEF R
<1>3. PICK n \in T : \A y \in T : ~ (<<y, n>> \in R)
  BY <1>1, WFMin
<1>4. ASSUME NEW m \in T PROVE n <= m
  <2>1. n \in Nat /\ m \in Nat
    OBVIOUS
  <2>2. ~ (m < n)
    BY <2>1, <1>2, <1>3
  <2> QED BY <2>1, <2>2
<1> QED BY <1>4

-----------------------------------------------------------------------------
(* Bytes                                                                   *)

\* f sums up the sizes of the first n turns of s, for every n up to m.
Sums(f, s, m) == f = [n \in 0..m |-> IF n = 0 THEN 0 ELSE f[n - 1] + Size[s[n]]]

(* There are such sums for a sequence of turns, and they are numbers.      *)
LEMMA SumsExist ==
  ASSUME NEW s \in Seq(Turns), NEW m \in 0..Len(s)
  PROVE  \E f : Sums(f, s, m) /\ \A n \in 0..m : f[n] \in Nat
<1> DEFINE Sum(k) == \E f : Sums(f, s, k) /\ \A n \in 0..k : f[n] \in Nat
           T == {k \in 0..Len(s) : ~Sum(k)}
<1> SUFFICES ASSUME T # {} PROVE FALSE
  OBVIOUS
<1>0. \A n \in 1..Len(s) : Size[s[n]] \in Nat
  BY MemoryAssumption
<1>1. PICK k \in T : \A n \in T : k <= n
  <2>1. T \subseteq Nat
    OBVIOUS
  <2> HIDE DEF T
  <2> QED BY <2>1, LeastNat
<1>2. k \in 0..Len(s) /\ ~Sum(k)
  BY <1>1
<1>3. CASE k = 0
  <2> DEFINE f == [n \in 0..0 |-> 0]
  <2>1. Sums(f, s, 0) /\ \A n \in 0..0 : f[n] \in Nat
    BY DEF Sums
  <2> QED BY <1>2, <1>3, <2>1
<1>4. CASE k # 0
  <2>1. k - 1 \in 0..Len(s) /\ k - 1 \notin T
    BY <1>1, <1>2, <1>4
  <2>2. PICK f : Sums(f, s, k - 1) /\ \A n \in 0..(k - 1) : f[n] \in Nat
    BY <2>1
  <2> DEFINE g == [n \in 0..k |-> IF n = k THEN f[k - 1] + Size[s[k]] ELSE f[n]]
  <2>3. \A n \in 0..(k - 1) : f[n] = IF n = 0 THEN 0 ELSE f[n - 1] + Size[s[n]]
    BY <2>2 DEF Sums
  <2>4. \A n \in 0..k : g[n] = IF n = 0 THEN 0 ELSE g[n - 1] + Size[s[n]]
    BY <1>2, <1>4, <2>3
  <2>5. \A n \in 0..k : g[n] \in Nat
    BY <1>0, <1>2, <1>4, <2>2
  <2>6. g = [n \in 0..k |-> g[n]]
    OBVIOUS
  <2> HIDE DEF g
  <2>7. Sums(g, s, k)
    BY <2>4, <2>6 DEF Sums
  <2> QED BY <1>2, <2>5, <2>7
<1> QED BY <1>3, <1>4

(* Bytes is the last of the sums.                                          *)
LEMMA BytesIsSum ==
  ASSUME NEW s \in Seq(Turns)
  PROVE  \E f : /\ Bytes(s) = f[Len(s)] /\ f[0] = 0
                /\ \A n \in 1..Len(s) : f[n] = f[n - 1] + Size[s[n]]
                /\ \A n \in 0..Len(s) : f[n] \in Nat
<1> DEFINE f == CHOOSE sum : sum = [n \in 0..Len(s) |-> IF n = 0 THEN 0 ELSE sum[n - 1] + Size[s[n]]]
<1>1. Bytes(s) = f[Len(s)]
  BY DEF Bytes
<1>2. Len(s) \in Nat /\ Len(s) \in 0..Len(s)
  OBVIOUS
<1>3. PICK g : Sums(g, s, Len(s)) /\ \A n \in 0..Len(s) : g[n] \in Nat
  BY <1>2, SumsExist
<1>4. Sums(f, s, Len(s))
  BY <1>3 DEF Sums
<1> HIDE DEF f
<1>5. \A n \in 0..Len(s) : f[n] = IF n = 0 THEN 0 ELSE f[n - 1] + Size[s[n]]
  BY <1>4 DEF Sums
<1>6. \A n \in 0..Len(s) : g[n] = IF n = 0 THEN 0 ELSE g[n - 1] + Size[s[n]]
  BY <1>3 DEF Sums
<1>7. \A n \in 0..Len(s) : f[n] = g[n]
  <2> DEFINE T == {k \in 0..Len(s) : f[k] # g[k]}
  <2> SUFFICES ASSUME T # {} PROVE FALSE
    OBVIOUS
  <2>1. PICK k \in T : \A n \in T : k <= n
    <3>1. T \subseteq Nat
      OBVIOUS
    <3> HIDE DEF T
    <3> QED BY <3>1, LeastNat
  <2>2. k \in 0..Len(s) /\ f[k] # g[k] /\ (k # 0 => f[k - 1] = g[k - 1])
    BY <1>2, <2>1
  <2> QED BY <1>5, <1>6, <2>2
<1>8. f[0] = 0 /\ \A n \in 1..Len(s) : f[n] = f[n - 1] + Size[s[n]]
  BY <1>2, <1>5
<1> QED BY <1>1, <1>3, <1>7, <1>8

(* No turns have no bytes.                                                 *)
LEMMA BytesEmpty == Bytes(<<>>) = 0
<1> DEFINE s == <<>>
<1>1. s \in Seq(Turns) /\ Len(s) = 0
  OBVIOUS
<1> HIDE DEF s
<1>2. Bytes(s) = 0
  BY <1>1, BytesIsSum
<1> QED BY <1>2 DEF s

(* The bytes of turns are a number ...                                     *)
LEMMA BytesNat == ASSUME NEW s \in Seq(Turns) PROVE Bytes(s) \in Nat
<1>1. Len(s) \in 0..Len(s)
  OBVIOUS
<1> QED BY <1>1, BytesIsSum

(* ... and those of one turn more are the sum.                             *)
LEMMA BytesAppend ==
  ASSUME NEW s \in Seq(Turns), NEW x \in Turns
  PROVE  Bytes(Append(s, x)) = Bytes(s) + Size[x]
<1> DEFINE t == Append(s, x)
<1>1. /\ t \in Seq(Turns) /\ Len(t) = Len(s) + 1 /\ t[Len(s) + 1] = x
      /\ \A n \in 1..Len(s) : t[n] = s[n]
      /\ Len(s) \in Nat
  BY AppendProperties
<1> HIDE DEF t
<1>2. PICK f : /\ Bytes(s) = f[Len(s)] /\ f[0] = 0
               /\ \A n \in 1..Len(s) : f[n] = f[n - 1] + Size[s[n]]
               /\ \A n \in 0..Len(s) : f[n] \in Nat
  BY BytesIsSum
<1>3. PICK g : /\ Bytes(t) = g[Len(t)] /\ g[0] = 0
               /\ \A n \in 1..Len(t) : g[n] = g[n - 1] + Size[t[n]]
               /\ \A n \in 0..Len(t) : g[n] \in Nat
  BY <1>1, BytesIsSum
<1>4. \A n \in 0..Len(s) : f[n] = g[n]
  <2> DEFINE T == {k \in 0..Len(s) : f[k] # g[k]}
  <2> SUFFICES ASSUME T # {} PROVE FALSE
    OBVIOUS
  <2>1. PICK k \in T : \A n \in T : k <= n
    <3>1. T \subseteq Nat
      OBVIOUS
    <3> HIDE DEF T
    <3> QED BY <3>1, LeastNat
  <2>2. k \in 0..Len(s) /\ f[k] # g[k] /\ (k # 0 => f[k - 1] = g[k - 1])
    BY <1>1, <2>1
  <2>3. k # 0 /\ k \in 1..Len(s) /\ k \in 1..Len(t)
    BY <1>1, <1>2, <1>3, <2>2
  <2>4. f[k] = f[k - 1] + Size[s[k]] /\ g[k] = g[k - 1] + Size[t[k]] /\ s[k] = t[k]
    BY <1>1, <1>2, <1>3, <2>3
  <2> QED BY <2>2, <2>3, <2>4
<1>5. g[Len(t)] = g[Len(s)] + Size[x]
  BY <1>1, <1>3
<1>6. Len(s) \in 0..Len(s)
  BY <1>1
<1> QED BY <1>2, <1>3, <1>4, <1>5, <1>6 DEF t

-----------------------------------------------------------------------------
(* Trim                                                                    *)

\* The last m turns of s; those fit in the file; no more of them would.
Suffix(s, m) == SubSeq(s, Len(s) - m + 1, Len(s))
Fits(s, m) == m <= MaxTurns /\ Bytes(Suffix(s, m)) <= MaxBytes
Longest(s, m) == Fits(s, m) /\ \A k \in 0..Len(s) : Fits(s, k) => k <= m

(* A suffix is a sequence of turns of that length, and names its turns.    *)
LEMMA SuffixProperties ==
  ASSUME NEW s \in Seq(Turns), NEW m \in 0..Len(s)
  PROVE  /\ Suffix(s, m) \in Seq(Turns) /\ Len(Suffix(s, m)) = m
         /\ \A i \in 1..m : Suffix(s, m)[i] = s[Len(s) - m + i]
<1> DEFINE a == Len(s) - m + 1
<1>1. Len(s) \in Nat /\ a \in Int /\ a \in 1..(Len(s) + 1)
  OBVIOUS
<1>2. \A i \in a..Len(s) : s[i] \in Turns
  BY <1>1
<1>3. /\ SubSeq(s, a, Len(s)) \in Seq(Turns)
      /\ Len(SubSeq(s, a, Len(s))) = IF a <= Len(s) THEN Len(s) - a + 1 ELSE 0
      /\ \A i \in 1..(Len(s) - a + 1) : SubSeq(s, a, Len(s))[i] = s[a + i - 1]
  BY <1>1, <1>2, SubSeqProperties
<1>4. \A i \in 1..m : i \in 1..(Len(s) - a + 1) /\ a + i - 1 = Len(s) - m + i
  BY <1>1
<1>5. Len(SubSeq(s, a, Len(s))) = m
  BY <1>1, <1>3
<1> QED BY <1>3, <1>4, <1>5 DEF Suffix

(* A suffix of a suffix is one.                                            *)
LEMMA SuffixOfSuffix ==
  ASSUME NEW s \in Seq(Turns), NEW m \in 0..Len(s), NEW k \in 0..m
  PROVE  Suffix(Suffix(s, m), k) = Suffix(s, k)
<1>0. k \in 0..Len(s) /\ Len(s) \in Nat /\ m \in Nat /\ k \in Nat
  OBVIOUS
<1>1. /\ Suffix(s, m) \in Seq(Turns) /\ Len(Suffix(s, m)) = m
      /\ \A i \in 1..m : Suffix(s, m)[i] = s[Len(s) - m + i]
  BY SuffixProperties
<1> DEFINE p == Suffix(s, m)
<1> HIDE DEF p
<1>2. /\ Suffix(p, k) \in Seq(Turns) /\ Len(Suffix(p, k)) = k
      /\ \A i \in 1..k : Suffix(p, k)[i] = p[m - k + i]
  <2>1. p \in Seq(Turns) /\ Len(p) = m /\ k \in 0..Len(p)
    BY <1>1 DEF p
  <2> QED BY <2>1, SuffixProperties
<1>3. /\ Suffix(s, k) \in Seq(Turns) /\ Len(Suffix(s, k)) = k
      /\ \A i \in 1..k : Suffix(s, k)[i] = s[Len(s) - k + i]
  BY <1>0, SuffixProperties
<1>4. ASSUME NEW i \in 1..k PROVE Suffix(p, k)[i] = Suffix(s, k)[i]
  <2>1. m - k + i \in 1..m /\ Len(s) - m + (m - k + i) = Len(s) - k + i
    BY <1>0
  <2>2. p[m - k + i] = s[Len(s) - k + i]
    BY <1>1, <2>1 DEF p
  <2> QED BY <1>2, <1>3, <2>2
<1>5. Suffix(p, k) = Suffix(s, k)
  BY <1>2, <1>3, <1>4, SeqEqual
<1> QED BY <1>5 DEF p

(* load_conversation takes the last turns, as many as the file may hold.   *)
LEMMA LastTurnsIsSuffix ==
  ASSUME NEW s \in Seq(Turns)
  PROVE  \E c \in 0..Len(s) : /\ LastTurns(s) = Suffix(s, c) /\ c <= MaxTurns
                              /\ \A k \in 0..Len(s) : k <= MaxTurns => k <= c
<1> DEFINE c == IF Len(s) > MaxTurns THEN MaxTurns ELSE Len(s)
<1>1. Len(s) \in Nat /\ MaxTurns \in Nat
  BY MemoryAssumption
<1>2. c \in 0..Len(s) /\ c <= MaxTurns /\ \A k \in 0..Len(s) : k <= MaxTurns => k <= c
  BY <1>1
<1>3. Len(s) - c + 1 = IF Len(s) > MaxTurns THEN Len(s) - MaxTurns + 1 ELSE 1
  BY <1>1
<1>4. LastTurns(s) = Suffix(s, c)
  BY <1>3 DEF LastTurns, Suffix
<1> HIDE DEF c
<1> QED BY <1>2, <1>4

(* The suffixes that Trim chooses from are the last turns of s, as many as *)
(* the file may hold.                                                      *)
LEMMA LastTurnsSuffixes ==
  ASSUME NEW s \in Seq(Turns)
  PROVE  \A y : y \in Suffixes(LastTurns(s)) <=>
                 \E k \in 0..Len(s) : k <= MaxTurns /\ y = Suffix(s, k)
<1> DEFINE p == LastTurns(s)
<1>1. PICK c \in 0..Len(s) : /\ p = Suffix(s, c) /\ c <= MaxTurns
                             /\ \A k \in 0..Len(s) : k <= MaxTurns => k <= c
  BY LastTurnsIsSuffix
<1>0. Len(s) \in Nat /\ MaxTurns \in Nat /\ c \in Nat
  BY MemoryAssumption
<1>2. p \in Seq(Turns) /\ Len(p) = c
  BY <1>0, <1>1, SuffixProperties
<1> HIDE DEF p
<1>3. Suffix(s, 0) = <<>>
  <2>1. Suffix(s, 0) \in Seq(Turns) /\ Len(Suffix(s, 0)) = 0
    BY <1>0, SuffixProperties
  <2> QED BY <2>1, EmptySeq
<1>4. ASSUME NEW k \in 1..c
      PROVE  SubSeq(p, c - k + 1, c) = Suffix(s, k)
  <2>1. Suffix(p, k) = Suffix(s, k)
    BY <1>0, <1>1, SuffixOfSuffix
  <2> QED BY <1>2, <2>1 DEF Suffix
<1>5. ASSUME NEW y, y \in Suffixes(p)
      PROVE  \E k \in 0..Len(s) : k <= MaxTurns /\ y = Suffix(s, k)
  <2>1. CASE y = <<>>
    BY <1>0, <1>3, <2>1
  <2>2. CASE \E l \in 1..Len(p) : y = SubSeq(p, l, Len(p))
    <3>1. PICK l \in 1..c : y = SubSeq(p, l, c)
      BY <1>2, <2>2
    <3>2. c - l + 1 \in 1..c /\ c - (c - l + 1) + 1 = l
      BY <1>0, <3>1
    <3>3. y = Suffix(s, c - l + 1)
      BY <1>4, <3>1, <3>2
    <3>4. c - l + 1 \in 0..Len(s) /\ c - l + 1 <= MaxTurns
      BY <1>0, <1>1, <3>2
    <3> QED BY <3>3, <3>4
  <2> QED BY <1>5, <2>1, <2>2 DEF Suffixes
<1>6. ASSUME NEW k \in 0..Len(s), k <= MaxTurns
      PROVE  Suffix(s, k) \in Suffixes(p)
  <2>1. CASE k = 0
    BY <1>3, <2>1 DEF Suffixes
  <2>2. CASE k # 0
    <3>1. k \in 1..c /\ c - k + 1 \in 1..c
      BY <1>0, <1>1, <1>6, <2>2
    <3>2. Suffix(s, k) = SubSeq(p, c - k + 1, Len(p))
      BY <1>2, <1>4, <3>1
    <3> QED BY <1>2, <3>1, <3>2 DEF Suffixes
  <2> QED BY <2>1, <2>2
<1> QED BY <1>5, <1>6 DEF p

(* Trim returns the longest suffix that fits.                              *)
LEMMA TrimIsLongest ==
  ASSUME NEW s \in Seq(Turns)
  PROVE  \E m \in 0..Len(s) : Longest(s, m) /\ Trim(s) = Suffix(s, m)
<1>0. Len(s) \in Nat /\ MaxTurns \in Nat /\ MaxBytes \in Nat
  BY MemoryAssumption
<1>1. \E m \in 0..Len(s) : Longest(s, m)
  <2> DEFINE T == {n \in 0..Len(s) : Fits(s, Len(s) - n)}
  <2>1. Fits(s, 0)
    <3>1. Suffix(s, 0) = <<>>
      BY <1>0, SuffixProperties, EmptySeq
    <3> QED BY <1>0, <3>1, BytesEmpty DEF Fits
  <2>2. Len(s) \in T
    BY <1>0, <2>1
  <2>3. T \subseteq Nat
    OBVIOUS
  <2>4. PICK n \in T : \A k \in T : n <= k
    <3> HIDE DEF T
    <3> QED BY <2>2, <2>3, LeastNat
  <2>5. n \in 0..Len(s) /\ Len(s) - n \in 0..Len(s) /\ Fits(s, Len(s) - n)
    BY <1>0, <2>4
  <2>6. ASSUME NEW k \in 0..Len(s), Fits(s, k) PROVE k <= Len(s) - n
    <3>1. Len(s) - k \in 0..Len(s) /\ Len(s) - (Len(s) - k) = k
      BY <1>0
    <3>2. n <= Len(s) - k
      BY <2>4, <2>6, <3>1
    <3> QED BY <1>0, <2>5, <3>2
  <2> QED BY <2>5, <2>6 DEF Longest
<1>2. PICK m \in 0..Len(s) : Longest(s, m)
  BY <1>1
<1> DEFINE S == Suffixes(LastTurns(s))
           Best(x) == Bytes(x) <= MaxBytes /\ \A y \in S : Bytes(y) <= MaxBytes => Len(y) <= Len(x)
<1>3. \A y : y \in S <=> \E k \in 0..Len(s) : k <= MaxTurns /\ y = Suffix(s, k)
  BY LastTurnsSuffixes
<1>4. \A k \in 0..Len(s) : Len(Suffix(s, k)) = k
  BY SuffixProperties
<1>5. Trim(s) = CHOOSE x \in S : Best(x)
  BY DEF Trim
<1> HIDE DEF S
<1>6. Suffix(s, m) \in S /\ Best(Suffix(s, m))
  BY <1>2, <1>3, <1>4 DEF Longest, Fits
<1>7. Trim(s) \in S /\ Best(Trim(s))
  <2> HIDE DEF Best
  <2> QED BY <1>5, <1>6
<1>8. PICK k \in 0..Len(s) : k <= MaxTurns /\ Trim(s) = Suffix(s, k)
  BY <1>3, <1>7
<1>9. k <= m
  BY <1>2, <1>7, <1>8 DEF Longest, Fits
<1>10. m <= k
  BY <1>2, <1>4, <1>6, <1>7, <1>8 DEF Longest, Fits
<1>11. k = m
  BY <1>9, <1>10
<1> QED BY <1>2, <1>8, <1>11

(* ... and no other is the longest.                                        *)
LEMMA LongestIsTrim ==
  ASSUME NEW s \in Seq(Turns), NEW m \in 0..Len(s), Longest(s, m)
  PROVE  Trim(s) = Suffix(s, m)
<1>1. PICK k \in 0..Len(s) : Longest(s, k) /\ Trim(s) = Suffix(s, k)
  BY TrimIsLongest
<1>2. k <= m /\ m <= k
  BY <1>1 DEF Longest
<1>3. k = m
  BY <1>2
<1> QED BY <1>1, <1>3

(* A turn added to the file: the longest suffix that fits with it begins   *)
(* in the longest one that fitted before, so nothing that Trim or          *)
(* LastTurns once dropped would be there otherwise.                        *)
LEMMA KeepTurns ==
  ASSUME NEW s \in Seq(Turns), NEW x \in Turns, NEW m \in 0..Len(s),
         \A k \in 0..Len(s) : k < MaxTurns /\ Fits(s, k) => k <= m
  PROVE  Trim(Append(Suffix(s, m), x)) = Trim(Append(s, x))
<1> DEFINE p == Suffix(s, m)
           A == Append(s, x)
           P == Append(p, x)
<1>0. Len(s) \in Nat /\ MaxTurns \in Nat /\ MaxBytes \in Nat /\ Size[x] \in Nat
  BY MemoryAssumption
<1>1. p \in Seq(Turns) /\ Len(p) = m
  BY SuffixProperties
<1>2. A \in Seq(Turns) /\ Len(A) = Len(s) + 1 /\ P \in Seq(Turns) /\ Len(P) = m + 1
  BY <1>1, AppendProperties
<1>3. ASSUME NEW t \in Seq(Turns), NEW k \in 0..Len(t)
      PROVE  Suffix(Append(t, x), k + 1) = Append(Suffix(t, k), x)
  <2> DEFINE u == Append(t, x)
             v == Append(Suffix(t, k), x)
  <2>1. /\ u \in Seq(Turns) /\ Len(u) = Len(t) + 1 /\ u[Len(t) + 1] = x
        /\ \A i \in 1..Len(t) : u[i] = t[i]
    BY AppendProperties
  <2>2. /\ Suffix(t, k) \in Seq(Turns) /\ Len(Suffix(t, k)) = k
        /\ \A i \in 1..k : Suffix(t, k)[i] = t[Len(t) - k + i]
    BY SuffixProperties
  <2>3. /\ v \in Seq(Turns) /\ Len(v) = k + 1 /\ v[k + 1] = x
        /\ \A i \in 1..k : v[i] = Suffix(t, k)[i]
    BY <2>2, AppendProperties
  <2> HIDE DEF u, v
  <2>4. /\ Suffix(u, k + 1) \in Seq(Turns) /\ Len(Suffix(u, k + 1)) = k + 1
        /\ \A i \in 1..(k + 1) : Suffix(u, k + 1)[i] = u[Len(u) - (k + 1) + i]
    <3>1. k + 1 \in 0..Len(u)
      BY <2>1
    <3> QED BY <2>1, <3>1, SuffixProperties
  <2>5. ASSUME NEW i \in 1..(k + 1) PROVE Suffix(u, k + 1)[i] = v[i]
    <3>1. Len(u) - (k + 1) + i = Len(t) - k + i /\ Len(t) \in Nat
      BY <2>1
    <3>2. CASE i = k + 1
      <4>1. Len(t) - k + i = Len(t) + 1
        BY <3>1, <3>2
      <4> QED BY <2>1, <2>3, <2>4, <3>1, <3>2, <4>1
    <3>3. CASE i # k + 1
      <4>1. i \in 1..k /\ Len(t) - k + i \in 1..Len(t)
        BY <3>1, <3>3
      <4>2. u[Len(t) - k + i] = t[Len(t) - k + i]
        BY <2>1, <4>1
      <4> QED BY <2>2, <2>3, <2>4, <3>1, <4>1, <4>2
    <3> QED BY <3>2, <3>3
  <2>6. Suffix(u, k + 1) = v
    BY <2>3, <2>4, <2>5, SeqEqual
  <2> QED BY <2>6 DEF u, v
<1>4. \A k \in 0..m : Suffix(p, k) = Suffix(s, k)
  BY SuffixOfSuffix
<1>5. ASSUME NEW k \in 0..(m + 1) PROVE Suffix(P, k) = Suffix(A, k)
  <2>1. CASE k = 0
    <3>1. Suffix(P, 0) = <<>> /\ Suffix(A, 0) = <<>>
      <4> HIDE DEF A, P
      <4>1. 0 \in 0..Len(P) /\ 0 \in 0..Len(A)
        BY <1>2
      <4> QED BY <1>2, <4>1, SuffixProperties, EmptySeq
    <3> QED BY <2>1, <3>1
  <2>2. CASE k # 0
    <3>1. k - 1 \in 0..Len(p) /\ k - 1 \in 0..Len(s) /\ k - 1 \in 0..m /\ k - 1 + 1 = k
      BY <1>0, <1>1, <2>2
    <3>2. Suffix(P, k - 1 + 1) = Append(Suffix(p, k - 1), x)
      BY <1>1, <1>3, <3>1
    <3>3. Suffix(A, k - 1 + 1) = Append(Suffix(s, k - 1), x)
      BY <1>3, <3>1
    <3>4. Suffix(p, k - 1) = Suffix(s, k - 1)
      BY <1>4, <3>1
    <3> HIDE DEF A, P, p
    <3> QED BY <3>1, <3>2, <3>3, <3>4
  <2> QED BY <2>1, <2>2
<1>6. ASSUME NEW k \in 0..Len(A), Fits(A, k) PROVE k <= m + 1
  <2>1. CASE k = 0
    BY <2>1
  <2>2. CASE k # 0
    <3>1. k - 1 \in 0..Len(s) /\ k - 1 + 1 = k /\ k - 1 < MaxTurns
      BY <1>0, <1>2, <1>6, <2>2 DEF Fits
    <3>2. Suffix(A, k - 1 + 1) = Append(Suffix(s, k - 1), x)
      BY <1>3, <3>1
    <3>3. Bytes(Append(Suffix(s, k - 1), x)) <= MaxBytes
      <4> HIDE DEF A
      <4> QED BY <1>6, <3>1, <3>2 DEF Fits
    <3>4. Suffix(s, k - 1) \in Seq(Turns)
      BY <3>1, SuffixProperties
    <3>5. /\ Bytes(Append(Suffix(s, k - 1), x)) = Bytes(Suffix(s, k - 1)) + Size[x]
          /\ Bytes(Suffix(s, k - 1)) \in Nat
      BY <3>4, BytesAppend, BytesNat
    <3>6. Fits(s, k - 1)
      BY <1>0, <3>1, <3>3, <3>5 DEF Fits
    <3>7. k - 1 <= m
      BY <3>1, <3>6
    <3> QED BY <3>1, <3>7
  <2> QED BY <2>1, <2>2
<1> HIDE DEF A, P
<1>7. PICK k \in 0..Len(A) : Longest(A, k) /\ Trim(A) = Suffix(A, k)
  BY <1>2, TrimIsLongest
<1>8. k \in 0..(m + 1) /\ k \in 0..Len(P)
  BY <1>2, <1>6, <1>7 DEF Longest
<1>9. Longest(P, k)
  <2>1. Fits(P, k)
    BY <1>5, <1>7, <1>8 DEF Longest, Fits
  <2>2. ASSUME NEW j \in 0..Len(P), Fits(P, j) PROVE j <= k
    <3>1. j \in 0..(m + 1) /\ j \in 0..Len(A)
      BY <1>0, <1>2
    <3>2. Fits(A, j)
      BY <1>5, <2>2, <3>1 DEF Fits
    <3> QED BY <1>7, <3>1, <3>2 DEF Longest
  <2> QED BY <2>1, <2>2 DEF Longest
<1>10. Trim(P) = Suffix(P, k)
  BY <1>2, <1>8, <1>9, LongestIsTrim
<1>11. Trim(P) = Trim(A)
  BY <1>5, <1>7, <1>8, <1>10
<1> QED BY <1>11 DEF A, P

(* What a turn appends to: the file as it was loaded.                      *)
LEMMA TrimProperties ==
  ASSUME NEW s \in Seq(Turns)
  PROVE  /\ Trim(s) \in Seq(Turns) /\ LastTurns(Trim(s)) = Trim(s)
         /\ LastTurns(s) \in Seq(Turns)
         /\ ToSet(LastTurns(s)) \subseteq ToSet(s) /\ ToSet(Trim(s)) \subseteq ToSet(s)
<1>0. Len(s) \in Nat /\ MaxTurns \in Nat
  BY MemoryAssumption
<1>1. PICK c \in 0..Len(s) : /\ LastTurns(s) = Suffix(s, c) /\ c <= MaxTurns
                             /\ \A k \in 0..Len(s) : k <= MaxTurns => k <= c
  BY LastTurnsIsSuffix
<1>2. PICK m \in 0..Len(s) : Longest(s, m) /\ Trim(s) = Suffix(s, m)
  BY TrimIsLongest
<1>3. /\ Trim(s) \in Seq(Turns) /\ LastTurns(s) \in Seq(Turns)
      /\ Len(Trim(s)) = m /\ m <= MaxTurns
  BY <1>0, <1>1, <1>2, SuffixProperties DEF Longest, Fits
<1>4. LastTurns(Trim(s)) = Trim(s)
  <2> DEFINE p == Trim(s)
  <2>1. p \in Seq(Turns) /\ ~ (Len(p) > MaxTurns)
    BY <1>0, <1>3
  <2> HIDE DEF p
  <2>2. SubSeq(p, 1, Len(p)) = p
    BY <2>1, SubSeqFull
  <2>3. LastTurns(p) = p
    BY <2>1, <2>2 DEF LastTurns
  <2> QED BY <2>3 DEF p
<1>5. ASSUME NEW k \in 0..Len(s) PROVE ToSet(Suffix(s, k)) \subseteq ToSet(s)
  <2>1. /\ Suffix(s, k) \in Seq(Turns) /\ Len(Suffix(s, k)) = k
        /\ \A i \in 1..k : Suffix(s, k)[i] = s[Len(s) - k + i]
    BY SuffixProperties
  <2>2. \A i \in 1..k : Len(s) - k + i \in DOMAIN s
    BY <1>0
  <2>3. DOMAIN Suffix(s, k) = 1..k
    BY <2>1
  <2> QED BY <2>1, <2>2, <2>3 DEF ToSet
<1> QED BY <1>0, <1>1, <1>2, <1>3, <1>4, <1>5

(* A turn added to a file longer than the limits, or to one trimmed.       *)
LEMMA AppendToLoaded ==
  ASSUME NEW s \in Seq(Turns), NEW x \in Turns
  PROVE  /\ Trim(Append(LastTurns(s), x)) = Trim(Append(s, x))
         /\ Trim(Append(LastTurns(Trim(s)), x)) = Trim(Append(s, x))
<1>0. Len(s) \in Nat /\ MaxTurns \in Nat
  BY MemoryAssumption
<1>1. PICK c \in 0..Len(s) : /\ LastTurns(s) = Suffix(s, c) /\ c <= MaxTurns
                             /\ \A k \in 0..Len(s) : k <= MaxTurns => k <= c
  BY LastTurnsIsSuffix
<1>2. \A k \in 0..Len(s) : k < MaxTurns /\ Fits(s, k) => k <= c
  BY <1>0, <1>1
<1>3. Trim(Append(LastTurns(s), x)) = Trim(Append(s, x))
  BY <1>0, <1>1, <1>2, KeepTurns
<1>4. PICK m \in 0..Len(s) : Longest(s, m) /\ Trim(s) = Suffix(s, m)
  BY TrimIsLongest
<1>5. Trim(Append(Trim(s), x)) = Trim(Append(s, x))
  BY <1>4, KeepTurns DEF Longest
<1> QED BY <1>3, <1>5, TrimProperties
=============================================================================
