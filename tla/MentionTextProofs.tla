-------------------------- MODULE MentionTextProofs --------------------------
(***************************************************************************)
(* The clean-up of a message keeps what its author says, for texts and     *)
(* lists of mentions of any length.                                        *)
(***************************************************************************)
EXTENDS MentionCleaning, FiniteSetTheorems, SequenceTheorems, TLAPS

-----------------------------------------------------------------------------
(* Min and Max, which are given by CHOOSE, exist. *)

(* The least of some natural numbers: intervals from 1 are well-founded. *)
LEMMA LeastExists ==
  ASSUME NEW S \in SUBSET Nat, S # {}
  PROVE  \E x \in S : \A y \in S : x <= y
<1> DEFINE T == {1..x : x \in S}
           R == StrictSubsetOrdering(Nat)
<1>1. IsWellFoundedOn(R, FiniteSubsetsOf(Nat))
  BY FS_StrictSubsetOrderingWellFounded
<1>2. T \subseteq FiniteSubsetsOf(Nat) /\ T # {}
  <2>1. \A x \in S : IsFiniteSet(1..x) /\ 1..x \in SUBSET Nat
    BY FS_Interval
  <2> QED
    BY <2>1 DEF FiniteSubsetsOf
<1>3. PICK X \in T : \A Y \in T : <<Y, X>> \notin R
  <2> HIDE DEF T, R
  <2> QED
    BY <1>1, <1>2, WFMin
<1>4. PICK x \in S : X = 1..x
  OBVIOUS
<1>5. ASSUME NEW y \in S, y < x
      PROVE  FALSE
  <2>1. 1..y \subseteq 1..x /\ x \in 1..x /\ x \notin 1..y
    BY <1>5
  <2>2. <<1..y, X>> \in R
    BY <1>4, <2>1 DEF StrictSubsetOrdering
  <2> QED
    BY <1>3, <2>2
<1> QED
  BY <1>5

LEMMA MinIsLeast ==
  ASSUME NEW S \in SUBSET Nat, S # {}
  PROVE  Min(S) \in S /\ \A y \in S : Min(S) <= y
BY LeastExists DEF Min

(* The greatest is the least distance from the bound. *)
LEMMA MaxIsGreatest ==
  ASSUME NEW n \in Nat, NEW S \in SUBSET (1..n), S # {}
  PROVE  Max(S) \in S /\ \A y \in S : Max(S) >= y
<1> DEFINE T == {n - x : x \in S}
<1>1. T \in SUBSET Nat /\ T # {}
  <2>1. \A x \in S : n - x \in Nat
    OBVIOUS
  <2> QED
    BY <2>1
<1>2. PICK d \in T : \A e \in T : d <= e
  <2> HIDE DEF T
  <2> QED
    BY <1>1, LeastExists
<1>3. PICK x \in S : d = n - x
  OBVIOUS
<1>4. ASSUME NEW y \in S
      PROVE  x >= y
  <2>1. n - x <= n - y
    BY <1>2, <1>3
  <2> QED
    BY <2>1
<1> QED
  BY <1>4 DEF Max

-----------------------------------------------------------------------------
(* TrimSpace *)

(* A text of space becomes empty; any other keeps what is between its first *)
(* and its last rune that is no space.                                      *)
LEMMA TrimSpaceShape ==
  ASSUME NEW t \in Seq(Runes)
  PROVE  \/ TrimSpace(t) = <<>> /\ \A p \in 1..Len(t) : t[p] \in Space
         \/ \E i, j \in 1..Len(t) :
              /\ i <= j /\ TrimSpace(t) = SubSeq(t, i, j)
              /\ t[i] \notin Space /\ t[j] \notin Space
              /\ \A p \in 1..Len(t) : p < i \/ p > j => t[p] \in Space
<1> DEFINE kept == {i \in 1..Len(t) : t[i] \notin Space}
<1>1. TrimSpace(t) = IF kept = {} THEN <<>> ELSE SubSeq(t, Min(kept), Max(kept))
  BY DEF TrimSpace
<1>2. \A p \in 1..Len(t) : p \in kept <=> t[p] \notin Space
  OBVIOUS
<1>3. Len(t) \in Nat /\ kept \in SUBSET (1..Len(t)) /\ kept \in SUBSET Nat
  OBVIOUS
<1> HIDE DEF kept
<1>4. CASE kept = {}
  BY <1>1, <1>2, <1>4
<1>5. CASE kept # {}
  <2> DEFINE i == Min(kept)
             j == Max(kept)
  <2>1. i \in kept /\ \A y \in kept : i <= y
    BY <1>3, <1>5, MinIsLeast
  <2>2. j \in kept /\ \A y \in kept : j >= y
    BY <1>3, <1>5, MaxIsGreatest
  <2>3. TrimSpace(t) = SubSeq(t, i, j)
    BY <1>1, <1>5
  <2> HIDE DEF i, j
  <2>4. i \in 1..Len(t) /\ j \in 1..Len(t) /\ i <= j
    BY <1>3, <2>1, <2>2
  <2>5. \A p \in 1..Len(t) : p < i \/ p > j => t[p] \in Space
    BY <1>2, <1>3, <2>1, <2>2, <2>4
  <2>6. t[i] \notin Space /\ t[j] \notin Space
    BY <1>2, <2>1, <2>2, <2>4
  <2> QED
    BY <2>3, <2>4, <2>5, <2>6
<1> QED
  BY <1>4, <1>5

(* The runes of a part of a text. *)
LEMMA PartOfText ==
  ASSUME NEW t \in Seq(Runes), NEW i \in 1..Len(t), NEW j \in 1..Len(t), i <= j
  PROVE  /\ SubSeq(t, i, j) \in Seq(Runes)
         /\ Len(SubSeq(t, i, j)) = j - i + 1
         /\ \A k \in 1..j - i + 1 : SubSeq(t, i, j)[k] = t[i + k - 1]
BY SubSeqProperties

(* A trimmed text is the text but for the space around it. *)
LEMMA TrimSpaceTrims ==
  ASSUME NEW t \in Seq(Runes)
  PROVE  TrimSpace(t) \in Seq(Runes) /\ IsTrimmed(TrimSpace(t), t, 1..Len(t))
<1> DEFINE c == TrimSpace(t)
<1>1. CASE c = <<>> /\ \A p \in 1..Len(t) : t[p] \in Space
  <2> DEFINE at == [k \in 1..0 |-> k]
  <2>1. Len(c) = 0 /\ c \in Seq(Runes)
    BY <1>1
  <2>2. at \in Origins(c, t)
    BY <2>1 DEF Origins
  <2>3. {at[k] : k \in 1..Len(c)} = {} /\ {1, Len(c)} \cap 1..Len(c) = {}
    BY <2>1
  <2> HIDE DEF at, c
  <2> QED
    BY <1>1, <2>1, <2>2, <2>3 DEF IsTrimmed, c
<1>2. ASSUME NEW i \in 1..Len(t), NEW j \in 1..Len(t),
             i <= j, c = SubSeq(t, i, j), t[i] \notin Space, t[j] \notin Space,
             \A p \in 1..Len(t) : p < i \/ p > j => t[p] \in Space
      PROVE  c \in Seq(Runes) /\ IsTrimmed(c, t, 1..Len(t))
  <2> DEFINE n == j - i + 1
             at == [k \in 1..n |-> i + k - 1]
             held == {at[k] : k \in 1..n}
  <2>0. Len(t) \in Nat /\ n \in Nat /\ n >= 1
    BY <1>2
  <2>1. c \in Seq(Runes) /\ Len(c) = n /\ \A k \in 1..n : c[k] = t[i + k - 1]
    BY <1>2, PartOfText
  <2> HIDE DEF c
  <2>2. at \in [1..n -> 1..Len(t)] /\ \A k \in 1..n : at[k] = i + k - 1
    BY <2>0
  <2> HIDE DEF at
  <2>3. at \in Origins(c, t)
    BY <2>0, <2>1, <2>2 DEF Origins
  <2>4. \A p \in 1..Len(t) : p \in held <=> i <= p /\ p <= j
    <3> SUFFICES ASSUME NEW p \in 1..Len(t)
                 PROVE  p \in held <=> i <= p /\ p <= j
      OBVIOUS
    <3>1. p \in held => i <= p /\ p <= j
      BY <2>0, <2>2
    <3>2. ASSUME i <= p, p <= j PROVE p \in held
      <4>1. p - i + 1 \in 1..n /\ at[p - i + 1] = p
        BY <2>0, <2>2, <3>2
      <4> QED
        BY <4>1
    <3> QED
      BY <3>1, <3>2
  <2>5. held \subseteq 1..Len(t)
    BY <2>2
  <2> HIDE DEF held
  <2>6. ASSUME NEW p \in (1..Len(t)) \ held
        PROVE  /\ t[p] \in Space
               /\ (\A h \in held : p < h) \/ (\A h \in held : p > h)
    <3>1. p < i \/ p > j
      BY <2>4
    <3>2. \A h \in held : i <= h /\ h <= j
      BY <2>4, <2>5
    <3> QED
      BY <1>2, <2>5, <3>1, <3>2
  <2>7. c[1] \notin Space /\ c[n] \notin Space
    <3>1. c[1] = t[i] /\ c[n] = t[j]
      BY <2>0, <2>1
    <3> QED
      BY <1>2, <3>1
  <2>8. \A k \in {1, Len(c)} \cap 1..Len(c) : c[k] \notin Space
    BY <2>1, <2>7
  <2> QED
    BY <2>1, <2>3, <2>5, <2>6, <2>8 DEF IsTrimmed, held
<1> QED
  BY <1>1, <1>2, TrimSpaceShape

(* Nothing is left to trim of a trimmed text. *)
LEMMA TrimSpaceTwice ==
  ASSUME NEW t \in Seq(Runes)
  PROVE  TrimSpace(TrimSpace(t)) = TrimSpace(t)
<1> DEFINE c == TrimSpace(t)
<1>1. c \in Seq(Runes) /\ \A k \in {1, Len(c)} \cap 1..Len(c) : c[k] \notin Space
  BY TrimSpaceTrims DEF IsTrimmed
<1> SUFFICES TrimSpace(c) = c
  OBVIOUS
<1> HIDE DEF c
<1>2. Len(c) \in Nat
  BY <1>1
<1>3. CASE TrimSpace(c) = <<>> /\ \A p \in 1..Len(c) : c[p] \in Space
  <2>1. Len(c) = 0
    <3>1. CASE Len(c) >= 1
      BY <1>1, <1>2, <1>3, <3>1
    <3> QED
      BY <1>2, <3>1
  <2>2. c = <<>>
    BY <1>1, <2>1, EmptySeq
  <2> QED
    BY <1>3, <2>2
<1>4. ASSUME NEW i \in 1..Len(c), NEW j \in 1..Len(c), TrimSpace(c) = SubSeq(c, i, j),
             \A p \in 1..Len(c) : p < i \/ p > j => c[p] \in Space
      PROVE  TrimSpace(c) = c
  <2>1. c[1] \notin Space /\ c[Len(c)] \notin Space
    BY <1>1, <1>2
  <2>2. i = 1 /\ j = Len(c)
    BY <1>2, <1>4, <2>1
  <2> QED
    BY <1>1, <1>4, <2>2, SubSeqFull
<1>5. \/ TrimSpace(c) = <<>> /\ \A p \in 1..Len(c) : c[p] \in Space
      \/ \E i, j \in 1..Len(c) :
           /\ TrimSpace(c) = SubSeq(c, i, j)
           /\ \A p \in 1..Len(c) : p < i \/ p > j => c[p] \in Space
  BY <1>1, TrimSpaceShape
<1> QED
  BY <1>3, <1>4, <1>5

-----------------------------------------------------------------------------
(* Origins compose, and so does what a text keeps. *)

LEMMA TrimmedPart ==
  ASSUME NEW t \in Seq(Runes), NEW s \in Seq(Runes), NEW c \in Seq(Runes),
         NEW from \in Origins(s, t), IsTrimmed(c, s, 1..Len(s))
  PROVE  IsTrimmed(c, t, {from[q] : q \in 1..Len(s)})
<1> DEFINE whole == {from[q] : q \in 1..Len(s)}
<1>1. PICK at \in Origins(c, s) :
        /\ \A q \in (1..Len(s)) \ {at[k] : k \in 1..Len(c)} :
             /\ s[q] \in Space
             /\ \/ \A h \in {at[k] : k \in 1..Len(c)} : q < h
                \/ \A h \in {at[k] : k \in 1..Len(c)} : q > h
        /\ \A k \in {1, Len(c)} \cap 1..Len(c) : c[k] \notin Space
  BY DEF IsTrimmed
<1>2. /\ at \in [1..Len(c) -> 1..Len(s)]
      /\ \A k \in 1..Len(c) : c[k] = s[at[k]]
      /\ \A j, k \in 1..Len(c) : j < k => at[j] < at[k]
  BY DEF Origins
<1>3. /\ from \in [1..Len(s) -> 1..Len(t)]
      /\ \A q \in 1..Len(s) : s[q] = t[from[q]]
      /\ \A p, q \in 1..Len(s) : p < q => from[p] < from[q]
  BY DEF Origins
<1> DEFINE to == [k \in 1..Len(c) |-> from[at[k]]]
           held == {to[k] : k \in 1..Len(c)}
<1>4. to \in [1..Len(c) -> 1..Len(t)] /\ \A k \in 1..Len(c) : to[k] = from[at[k]]
  BY <1>2, <1>3
<1> HIDE DEF to
<1>5. to \in Origins(c, t)
  <2>1. \A k \in 1..Len(c) : c[k] = t[to[k]]
    BY <1>2, <1>3, <1>4
  <2>2. \A j, k \in 1..Len(c) : j < k => to[j] < to[k]
    <3> SUFFICES ASSUME NEW j \in 1..Len(c), NEW k \in 1..Len(c), j < k
                 PROVE  to[j] < to[k]
      OBVIOUS
    <3>1. at[j] \in 1..Len(s) /\ at[k] \in 1..Len(s) /\ at[j] < at[k]
      BY <1>2
    <3>2. from[at[j]] < from[at[k]]
      BY <1>3, <3>1
    <3> QED
      BY <1>4, <3>2
  <2> QED
    BY <1>4, <2>1, <2>2 DEF Origins
<1>6. held \subseteq whole
  BY <1>2, <1>4
<1>7. ASSUME NEW p \in whole \ held
      PROVE  t[p] \in Space /\ ((\A h \in held : p < h) \/ (\A h \in held : p > h))
  <2>1. PICK q \in 1..Len(s) : p = from[q]
    OBVIOUS
  <2>2. \A k \in 1..Len(c) : q # at[k]
    BY <1>4, <1>7, <2>1
  <2>3. t[p] \in Space
    BY <1>1, <1>3, <2>1, <2>2
  <2>4. CASE \A k \in 1..Len(c) : q < at[k]
    <3>1. ASSUME NEW k \in 1..Len(c) PROVE p < to[k]
      <4>1. at[k] \in 1..Len(s) /\ q < at[k]
        BY <1>2, <2>4
      <4>2. from[q] < from[at[k]]
        BY <1>3, <4>1
      <4> QED
        BY <1>3, <1>4, <2>1, <4>1, <4>2
    <3> QED
      BY <2>3, <3>1
  <2>5. CASE \A k \in 1..Len(c) : q > at[k]
    <3>1. ASSUME NEW k \in 1..Len(c) PROVE p > to[k]
      <4>1. at[k] \in 1..Len(s) /\ at[k] < q
        BY <1>2, <2>5
      <4>2. from[at[k]] < from[q]
        BY <1>3, <4>1
      <4> QED
        BY <1>3, <1>4, <2>1, <4>1, <4>2
    <3> QED
      BY <2>3, <3>1
  <2>6. (\A k \in 1..Len(c) : q < at[k]) \/ (\A k \in 1..Len(c) : q > at[k])
    BY <1>1, <2>2
  <2> QED
    BY <2>3, <2>4, <2>5, <2>6
<1> QED
  BY <1>1, <1>5, <1>6, <1>7 DEF IsTrimmed

(* The text without the mention, before it is trimmed. *)
LEMMA CutOut ==
  ASSUME NEW t \in Seq(Runes), NEW m \in Mentionee,
         m.index >= 0, m.index < Len(t), ~Backwards(t, m)
  PROVE  \E s \in Seq(Runes) :
           /\ RemoveMentionText(t, m) = TrimSpace(s)
           /\ \E from \in Origins(s, t) : Outside(t, m) = {from[q] : q \in 1..Len(s)}
<1> DEFINE n == Len(t)
           a == m.index
           end == Min({EndIndex(m), n})
           s == SubSeq(t, 1, a) \o SubSeq(t, end + 1, n)
<1>0. m.index \in Int /\ m.length \in Int /\ MaxInt \in Nat
  BY MentionAssumption DEF Mentionee, Ints
<1>1. n \in Nat /\ a \in Nat /\ m.length \in Nat /\ a < n /\ EndIndex(m) = a + m.length
  BY <1>0 DEF Backwards, EndIndex
<1>2. end \in Nat /\ a <= end /\ end <= n /\ (end = a + m.length \/ (end = n /\ n <= a + m.length))
  <2>0. end = Min({a + m.length, n})
    BY <1>1
  <2>1. {a + m.length, n} \in SUBSET Nat /\ {a + m.length, n} # {}
    BY <1>1
  <2>2. end \in {a + m.length, n} /\ \A y \in {a + m.length, n} : end <= y
    BY <2>0, <2>1, MinIsLeast
  <2> HIDE DEF end
  <2>3. end = a + m.length \/ end = n
    BY <2>2
  <2>4. end <= a + m.length /\ end <= n
    BY <2>2
  <2> QED
    BY <1>1, <2>3, <2>4
<1>3. RemoveMentionText(t, m) = TrimSpace(s)
  BY <1>1, <1>2 DEF RemoveMentionText
<1> HIDE DEF end
<1>4. /\ SubSeq(t, 1, a) \in Seq(Runes) /\ Len(SubSeq(t, 1, a)) = a
      /\ \A q \in 1..a : SubSeq(t, 1, a)[q] = t[q]
  BY <1>1, SubSeqProperties
<1>5. /\ SubSeq(t, end + 1, n) \in Seq(Runes) /\ Len(SubSeq(t, end + 1, n)) = n - end
      /\ \A q \in 1..n - end : SubSeq(t, end + 1, n)[q] = t[end + q]
  BY <1>1, <1>2, SubSeqProperties
<1> DEFINE head == SubSeq(t, 1, a)
           tail == SubSeq(t, end + 1, n)
<1>6. /\ s \in Seq(Runes) /\ Len(s) = a + (n - end)
      /\ \A q \in 1..a + (n - end) :
           s[q] = IF q <= a THEN head[q] ELSE tail[q - a]
  <2>1. head \in Seq(Runes) /\ tail \in Seq(Runes)
    BY <1>4, <1>5
  <2>2. Len(head) = a /\ Len(tail) = n - end
    BY <1>4, <1>5
  <2>3. s = head \o tail
    OBVIOUS
  <2> HIDE DEF head, tail, s
  <2>4. /\ head \o tail \in Seq(Runes)
        /\ Len(head \o tail) = Len(head) + Len(tail)
        /\ \A q \in 1..Len(head) + Len(tail) :
             (head \o tail)[q] = IF q <= Len(head) THEN head[q] ELSE tail[q - Len(head)]
    BY <2>1, ConcatProperties
  <2> QED
    BY <2>2, <2>3, <2>4
<1> HIDE DEF s
<1> DEFINE from == [q \in 1..Len(s) |-> IF q <= a THEN q ELSE end + (q - a)]
<1>7. \A q \in 1..Len(s) : from[q] \in 1..n /\ s[q] = t[from[q]]
  <2> SUFFICES ASSUME NEW q \in 1..Len(s)
               PROVE  from[q] \in 1..n /\ s[q] = t[from[q]]
    OBVIOUS
  <2>1. CASE q <= a
    <3>1. from[q] = q /\ q \in 1..a /\ q \in 1..n
      BY <1>1, <2>1
    <3>2. s[q] = t[q]
      BY <1>4, <1>6, <3>1
    <3> QED
      BY <3>1, <3>2
  <2>2. CASE q > a
    <3>0. Len(s) = a + (n - end) /\ a \in Nat /\ end \in Nat /\ n \in Nat /\ end <= n
      BY <1>1, <1>2, <1>6
    <3>1. from[q] = end + (q - a) /\ q - a \in 1..n - end /\ from[q] \in 1..n
      <4>1. q \in Nat /\ q > a /\ q <= a + (n - end)
        BY <2>2, <3>0
      <4>2. from[q] = end + (q - a)
        BY <3>0, <4>1
      <4> HIDE DEF from, a, n
      <4> QED
        BY <3>0, <4>1, <4>2
    <3>2. s[q] = tail[q - a]
      <4>1. q \in 1..a + (n - end) /\ ~(q <= a)
        BY <1>1, <1>6, <2>2
      <4> QED
        BY <1>6, <4>1
    <3> QED
      BY <1>5, <3>1, <3>2
  <2> QED
    BY <1>1, <1>6, <2>1, <2>2
<1>8. ASSUME NEW p \in 1..Len(s), NEW q \in 1..Len(s), p < q
      PROVE  from[p] < from[q]
  <2>1. /\ from[p] = IF p <= a THEN p ELSE end + (p - a)
        /\ from[q] = IF q <= a THEN q ELSE end + (q - a)
    OBVIOUS
  <2>2. a \in Nat /\ end \in Nat /\ a <= end /\ p \in Nat /\ q \in Nat
    BY <1>1, <1>2, <1>6
  <2> HIDE DEF from, a
  <2>3. CASE q <= a
    BY <1>8, <2>1, <2>2, <2>3
  <2>4. CASE p <= a /\ q > a
    BY <2>1, <2>2, <2>4
  <2>5. CASE p > a
    BY <1>8, <2>1, <2>2, <2>5
  <2> QED
    BY <2>2, <2>3, <2>4, <2>5
<1>9. from \in Origins(s, t)
  <2>1. from \in [1..Len(s) -> 1..n]
    BY <1>7
  <2> HIDE DEF from
  <2> QED
    BY <1>7, <1>8, <2>1 DEF Origins
<1>10. Outside(t, m) = {from[q] : q \in 1..Len(s)}
  <2>1. ASSUME NEW q \in 1..Len(s) PROVE from[q] \in Outside(t, m)
    <3>1. from[q] \in 1..n /\ (from[q] <= a \/ from[q] > end)
      BY <1>1, <1>2, <1>6, <1>7
    <3> HIDE DEF from
    <3> QED
      BY <1>1, <1>2, <3>1 DEF Outside
  <2>2. ASSUME NEW p \in Outside(t, m) PROVE \E q \in 1..Len(s) : p = from[q]
    <3>1. p \in 1..n /\ (p <= a \/ p > a + m.length)
      BY <1>1 DEF Outside
    <3>2. CASE p <= a
      <4>1. p \in 1..Len(s) /\ from[p] = p
        BY <1>1, <1>2, <1>6, <3>1, <3>2
      <4> QED
        BY <4>1
    <3>3. CASE p > end
      <4> DEFINE q == p - end + a
      <4>1. /\ Len(s) = a + (n - end) /\ p \in 1..n
            /\ a \in Nat /\ end \in Nat /\ n \in Nat /\ a <= end /\ end <= n
        BY <1>1, <1>2, <1>6, <3>1
      <4>2. q \in 1..Len(s) /\ q > a /\ end + (q - a) = p
        <5> HIDE DEF a, n
        <5> QED
          BY <3>3, <4>1
      <4>3. from[q] = p
        BY <4>1, <4>2
      <4> QED
        BY <4>2, <4>3
    <3> QED
      BY <1>1, <1>2, <3>1, <3>2, <3>3
  <2> HIDE DEF from
  <2> QED
    BY <2>1, <2>2
<1> QED
  BY <1>3, <1>6, <1>9, <1>10

(* The lesser of two integers. *)
LEMMA MinOfTwo ==
  ASSUME NEW a \in Int, NEW b \in Int
  PROVE  Min({a, b}) \in {a, b} /\ Min({a, b}) <= a /\ Min({a, b}) <= b
<1>1. \E x \in {a, b} : \A y \in {a, b} : x <= y
  OBVIOUS
<1>2. Min({a, b}) \in {a, b} /\ \A y \in {a, b} : Min({a, b}) <= y
  BY <1>1 DEF Min
<1> QED
  BY <1>2

(* A panic is not a text. *)
LEMMA NoTextPanics ==
  ASSUME NEW t \in Seq(Runes)
  PROVE  t # Panic
<1>1. CASE t = Panic
  <2>1. Len(t) = 1 /\ t[1] = "panic"
    BY <1>1 DEF Panic
  <2>2. t[1] \in Runes
    BY <2>1, ElementOfSeq
  <2> QED
    BY <2>1, <2>2, MentionAssumption
<1> QED
  BY <1>1

(* The handler panics of a mention in the text that ends before its start, *)
(* and leaves a text otherwise.                                            *)
LEMMA RemovePanics ==
  ASSUME NEW t \in Seq(Runes), NEW m \in Mentionee
  PROVE  \/ RemoveMentionText(t, m) \in Seq(Runes)
         \/ Backwards(t, m) /\ m.index + m.length \notin 0..MaxInt
<1> DEFINE n == Len(t)
           a == m.index
           end == Min({EndIndex(m), n})
           s == SubSeq(t, 1, a) \o SubSeq(t, end + 1, n)
<1>1. n \in Nat /\ a \in Int /\ m.length \in Int /\ MaxInt \in Nat
  BY MentionAssumption DEF Mentionee, Ints
<1>2. EndIndex(m) \in Int
  BY <1>1 DEF EndIndex
<1>3. end \in {EndIndex(m), n} /\ end <= EndIndex(m) /\ end <= n
  <2>1. n \in Int
    BY <1>1
  <2> HIDE DEF n
  <2> QED
    BY <1>2, <2>1, MinOfTwo, Zenon
<1>4. end \in Int
  BY <1>1, <1>2, <1>3
<1>5. CASE a < 0 \/ a >= n
  BY <1>5 DEF RemoveMentionText
<1>6. CASE a >= 0 /\ a < n /\ end < 0
  <2> HIDE DEF end
  <2>1. EndIndex(m) < 0
    BY <1>1, <1>3, <1>6
  <2>2. m.index + m.length \notin 0..MaxInt
    BY <1>1, <2>1 DEF EndIndex
  <2> QED
    BY <1>1, <1>6, <2>2 DEF Backwards
<1>7. CASE a >= 0 /\ a < n /\ end >= 0
  <2>1. RemoveMentionText(t, m) = TrimSpace(s)
    BY <1>1, <1>4, <1>7 DEF RemoveMentionText
  <2> HIDE DEF end
  <2>2. SubSeq(t, 1, a) \in Seq(Runes) /\ SubSeq(t, end + 1, n) \in Seq(Runes)
    BY <1>1, <1>3, <1>4, <1>7, SubSeqProperties
  <2>3. s \in Seq(Runes)
    BY <2>2, ConcatProperties
  <2> QED
    BY <2>1, <2>3, TrimSpaceTrims
<1> QED
  BY <1>1, <1>4, <1>5, <1>6, <1>7

(* The handler takes the bot's first mention. *)
LEMMA FirstMention ==
  ASSUME NEW ms \in Seq(Mentionee), BotMentions(ms) # {}
  PROVE  \E m \in DOMAIN ms :
           /\ ms[m].userId = BotUserID
           /\ \A k \in 1..m - 1 : ms[k].userId # BotUserID
           /\ FindBotMention(ms) = ms[m]
           /\ ms[m] \in Mentionee
<1> DEFINE i == Min(BotMentions(ms))
<1>1. BotMentions(ms) \in SUBSET Nat /\ DOMAIN ms = 1..Len(ms) /\ Len(ms) \in Nat
  BY DEF BotMentions
<1>2. i \in BotMentions(ms) /\ \A k \in BotMentions(ms) : i <= k
  BY <1>1, MinIsLeast
<1>3. FindBotMention(ms) = ms[i]
  BY DEF FindBotMention
<1> HIDE DEF i
<1>4. i \in DOMAIN ms /\ ms[i].userId = BotUserID /\ ms[i] \in Mentionee
  BY <1>1, <1>2 DEF BotMentions
<1>5. \A k \in 1..i - 1 : ms[k].userId # BotUserID
  BY <1>1, <1>2, <1>4 DEF BotMentions
<1> QED
  BY <1>3, <1>4, <1>5

(* The cleaned text keeps what is outside the mention of the bot. *)
LEMMA CleanedKeeps ==
  ASSUME NEW t \in Seq(Runes), NEW ms \in Seq(Mentionee), NEW m \in Mentionee,
         m = FindBotMention(ms), ~Backwards(t, m)
  PROVE  /\ CleanedText(t, ms) \in Seq(Runes)
         /\ IsTrimmed(CleanedText(t, ms), t, Outside(t, m))
<1>0. m.index \in Int /\ m.length \in Int
  BY MentionAssumption DEF Mentionee, Ints
<1>1. RemoveMentionText(t, m) # Panic
  BY RemovePanics, NoTextPanics
<1>2. CleanedText(t, ms) = TrimSpace(RemoveMentionText(t, m))
  BY <1>1 DEF CleanedText
<1>3. CASE m.index < 0 \/ m.index >= Len(t)
  <2>1. Outside(t, m) = 1..Len(t)
    BY <1>0, <1>3 DEF Outside
  <2>2. CleanedText(t, ms) = TrimSpace(t)
    BY <1>2, <1>3 DEF RemoveMentionText
  <2> QED
    BY <2>1, <2>2, TrimSpaceTrims
<1>4. CASE m.index >= 0 /\ m.index < Len(t)
  <2>1. PICK s \in Seq(Runes) :
          /\ RemoveMentionText(t, m) = TrimSpace(s)
          /\ \E from \in Origins(s, t) : Outside(t, m) = {from[q] : q \in 1..Len(s)}
    BY <1>4, CutOut
  <2>2. CleanedText(t, ms) = TrimSpace(s)
    BY <1>2, <2>1, TrimSpaceTwice
  <2>3. TrimSpace(s) \in Seq(Runes) /\ IsTrimmed(TrimSpace(s), s, 1..Len(s))
    BY TrimSpaceTrims
  <2>4. PICK from \in Origins(s, t) : Outside(t, m) = {from[q] : q \in 1..Len(s)}
    BY <2>1
  <2>5. IsTrimmed(TrimSpace(s), t, {from[q] : q \in 1..Len(s)})
    BY <2>3, TrimmedPart
  <2> QED
    BY <2>2, <2>3, <2>4, <2>5
<1> QED
  BY <1>0, <1>3, <1>4

(* A cleaning that panics was given a mention that ends before its start. *)
LEMMA CleanedPanics ==
  ASSUME NEW t \in Seq(Runes), NEW ms \in Seq(Mentionee), NEW m \in Mentionee,
         m = FindBotMention(ms), CleanedText(t, ms) = Panic
  PROVE  Backwards(t, m) /\ m.index + m.length \notin 0..MaxInt
<1> DEFINE rest == RemoveMentionText(t, m)
<1>1. CASE rest \in Seq(Runes)
  <2>1. CleanedText(t, ms) = TrimSpace(rest)
    BY <1>1, NoTextPanics DEF CleanedText
  <2>2. TrimSpace(rest) \in Seq(Runes)
    BY <1>1, TrimSpaceTrims
  <2> QED
    BY <2>1, <2>2, NoTextPanics
<1> QED
  BY <1>1, RemovePanics

(***************************************************************************)
(* The handler passes over a mention of the bot, for a cleaned text that   *)
(* is empty, just when its author wrote nothing but space besides the      *)
(* bot's first mention: wherever the mention starts, and for every end     *)
(* that does not come before a start in the text.                          *)
(***************************************************************************)
THEOREM PassedOverWhenEmpty ==
  ASSUME NEW t \in Seq(Runes), NEW ms \in Seq(Mentionee), BotMentions(ms) # {},
         ~Backwards(t, FindBotMention(ms))
  PROVE  CleanedText(t, ms) = <<>>
           <=> \A p \in Outside(t, FindBotMention(ms)) : t[p] \in Space
<1> DEFINE c == CleanedText(t, ms)
           whole == Outside(t, FindBotMention(ms))
<1>1. c \in Seq(Runes) /\ IsTrimmed(c, t, whole)
  BY FirstMention, CleanedKeeps
<1> HIDE DEF c, whole
<1>2. PICK at \in Origins(c, t) :
        /\ \A k \in 1..Len(c) : at[k] \in whole
        /\ \A p \in whole \ {at[k] : k \in 1..Len(c)} : t[p] \in Space
        /\ \A k \in {1, Len(c)} \cap 1..Len(c) : c[k] \notin Space
  BY <1>1 DEF IsTrimmed
<1>3. ASSUME c = <<>>
      PROVE  \A p \in whole : t[p] \in Space
  <2>1. 1..Len(c) = {}
    BY <1>3
  <2> QED
    BY <1>2, <2>1
<1>4. ASSUME c # <<>>
      PROVE  \E p \in whole : t[p] \notin Space
  <2>1. 1 \in 1..Len(c)
    BY <1>1, <1>4, EmptySeq
  <2>2. c[1] = t[at[1]] /\ at[1] \in whole /\ c[1] \notin Space
    BY <1>2, <2>1 DEF Origins
  <2> QED
    BY <2>2
<1> QED
  BY <1>3, <1>4 DEF c, whole

-----------------------------------------------------------------------------
(* Where a cleaning can be. *)
CleaningInv ==
  /\ text \in Texts /\ mentionees \in MentionLists
  /\ cleaned # NotYet => /\ BotMentions(mentionees) # {}
                         /\ cleaned = CleanedText(text, mentionees)

(* A cleaning is where this says, from its start on. *)
LEMMA CleaningInvariant == CleaningSpec => []CleaningInv
<1>1. CleaningInit => CleaningInv
  BY DEF CleaningInit, CleaningInv
<1>2. CleaningInv /\ [Clean]_cleaningVars => CleaningInv'
  BY DEF CleaningInv, Clean, cleaningVars
<1> QED
  BY <1>1, <1>2, PTL DEF CleaningSpec

(***************************************************************************)
(* What removeMentionText and TrimSpace leave is the author's text without *)
(* the bot's first mention, for texts of any length, any index an int can  *)
(* hold, and any length that does not end a mention before its start.      *)
(***************************************************************************)
THEOREM AuthorsTextKept == CleaningSpec => []KeepsTheRest
<1>1. CleaningInv => KeepsTheRest
  BY CleaningAssumption, FirstMention, CleanedKeeps
  DEF CleaningInv, KeepsTheRest, FirstOfBot
<1> QED
  BY <1>1, CleaningInvariant, PTL

(***************************************************************************)
(* The two checks of removeMentionText let it panic only of a mention in   *)
(* the text whose end is before the text or beyond the greatest int.       *)
(***************************************************************************)
THEOREM PanicsExplained == CleaningSpec => []PanicsOnlyBackwards
<1>1. CleaningInv => PanicsOnlyBackwards
  <2> SUFFICES ASSUME CleaningInv, cleaned = Panic
               PROVE  \E m \in DOMAIN mentionees :
                        /\ FirstOfBot(m)
                        /\ Backwards(text, mentionees[m])
                        /\ mentionees[m].index + mentionees[m].length \notin 0..MaxInt
    BY DEF PanicsOnlyBackwards
  <2>1. cleaned # NotYet
    <3>1. Panic[1] = "panic" /\ NotYet[1] = "not yet"
      BY DEF Panic, NotYet
    <3> QED
      BY <3>1
  <2>2. /\ text \in Seq(Runes) /\ mentionees \in Seq(Mentionee)
        /\ BotMentions(mentionees) # {} /\ CleanedText(text, mentionees) = Panic
    BY <2>1, CleaningAssumption DEF CleaningInv
  <2>3. PICK m \in DOMAIN mentionees :
          /\ FirstOfBot(m)
          /\ FindBotMention(mentionees) = mentionees[m]
          /\ mentionees[m] \in Mentionee
    BY <2>2, FirstMention DEF FirstOfBot
  <2> QED
    BY <2>2, <2>3, CleanedPanics
<1> QED
  BY <1>1, CleaningInvariant, PTL

=============================================================================
