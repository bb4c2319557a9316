----------------------------- MODULE StateProofs -----------------------------
(***************************************************************************)
(* Proofs about StateCheck, for any table of boots whose entries are as    *)
(* the entries of data/boot_table_redfish.json are, and any machine whose  *)
(* Redfish service gives every property a value.                           *)
(***************************************************************************)
EXTENDS StateCheck, WellFoundedInduction, SequenceTheorems, TLAPS

-----------------------------------------------------------------------------
(* The least and the greatest of a set of positions.                       *)
LEMMA LeastIsIn == ASSUME NEW S, S \subseteq Nat, S # {}
                   PROVE  Min(S) \in S /\ \A y \in S : Min(S) <= y
<1>1. PICK x \in S : \A y \in S : ~(<<y, x>> \in OpToRel(<, Nat))
  BY NatLessThanWellFounded, WFMin
<1>2. \A y \in S : y < x => <<y, x>> \in OpToRel(<, Nat)
  BY DEF OpToRel
<1>3. ASSUME NEW y \in S PROVE x =< y
  <2>1. x \in Nat /\ y \in Nat /\ ~(y < x)
    BY <1>1, <1>2
  <2> QED BY <2>1
<1>4. \E z \in S : \A y \in S : z =< y
  BY <1>3
<1> QED BY <1>4 DEF Min

LEMMA GreatestIsIn == ASSUME NEW n \in Nat, NEW S, S \subseteq 0..n, S # {}
                      PROVE  Max(S) \in S /\ \A y \in S : y <= Max(S)
<1> DEFINE T == {n - y : y \in S}
<1>0. \A y \in S : y \in Nat /\ n - y \in Nat
  OBVIOUS
<1>1. T \subseteq Nat /\ T # {}
  BY <1>0
<1>2. Min(T) \in T /\ \A z \in T : Min(T) <= z
  BY <1>1, LeastIsIn
<1>3. PICK x \in S : Min(T) = n - x
  BY <1>2
<1>4. ASSUME NEW y \in S PROVE x >= y
  <2>1. n - x <= n - y
    BY <1>2, <1>3
  <2> QED BY <2>1, <1>0
<1>5. \E z \in S : \A y \in S : z >= y
  BY <1>4
<1>6. Max(S) \in S /\ \A y \in S : Max(S) >= y
  BY <1>5 DEF Max
<1> QED BY <1>6, <1>0

-----------------------------------------------------------------------------
(* A text between anchors.                                                 *)
Framed(b) == <<"^">> \o b \o <<"$">>

LEMMA TokensAre == /\ \A w \in Word : w \in Token /\ NotAnchor(w) /\ w # "|"
                   /\ "^" \in Token /\ "$" \in Token /\ "|" \in Token
                   /\ ~NotAnchor("^") /\ ~NotAnchor("$") /\ NotAnchor("|")
BY StateAssumption DEF Token, NotAnchor, Anchors

LEMMA TextIsTokens == ASSUME NEW t \in Seq(Word)
                      PROVE  t \in Seq(Token) /\ Len(t) \in Nat
                             /\ \A i \in 1..Len(t) : t[i] \in Word
BY TokensAre

LEMMA FramedIs ==
  ASSUME NEW b \in Seq(Token)
  PROVE  /\ Framed(b) \in Seq(Token) /\ Len(Framed(b)) = Len(b) + 2
         /\ Framed(b)[1] = "^" /\ Framed(b)[Len(b) + 2] = "$"
         /\ \A i \in 2..Len(b) + 1 : Framed(b)[i] = b[i - 1]
<1> DEFINE h == <<"^">> \o b
<1>0. <<"^">> \in Seq(Token) /\ <<"$">> \in Seq(Token) /\ Len(<<"^">>) = 1 /\ Len(<<"$">>) = 1
      /\ <<"^">>[1] = "^" /\ <<"$">>[1] = "$" /\ Len(b) \in Nat
  BY TokensAre
<1>1. h \in Seq(Token) /\ Len(h) = 1 + Len(b)
      /\ \A i \in 1..1 + Len(b) : h[i] = IF i <= 1 THEN <<"^">>[i] ELSE b[i - 1]
  BY <1>0, ConcatProperties
<1>2. Framed(b) \in Seq(Token) /\ Len(Framed(b)) = (1 + Len(b)) + 1
      /\ \A i \in 1..(1 + Len(b)) + 1 :
           Framed(b)[i] = IF i <= 1 + Len(b) THEN h[i] ELSE <<"$">>[i - (1 + Len(b))]
  BY <1>0, <1>1, ConcatProperties DEF Framed
<1> HIDE DEF h
<1>3. Framed(b)[1] = "^"
  BY <1>0, <1>1, <1>2
<1>4. Framed(b)[Len(b) + 2] = "$"
  BY <1>0, <1>1, <1>2
<1>5. ASSUME NEW i \in 2..Len(b) + 1 PROVE Framed(b)[i] = b[i - 1]
  BY <1>0, <1>1, <1>2
<1> QED BY <1>0, <1>2, <1>3, <1>4, <1>5

(* What strip leaves of a text is from its first word to its last.         *)
LEMMA StripIs ==
  ASSUME NEW p \in Seq(Token), NEW lo \in 1..Len(p), NEW hi \in 1..Len(p),
         NotAnchor(p[lo]), NotAnchor(p[hi]),
         \A i \in 1..Len(p) : NotAnchor(p[i]) => lo <= i /\ i <= hi
  PROVE  strip(p) = SubSeq(p, lo, hi)
<1> DEFINE kept == {i \in DOMAIN p : NotAnchor(p[i])}
<1>1. kept \subseteq Nat /\ kept \subseteq 0..Len(p) /\ lo \in kept /\ hi \in kept /\ Len(p) \in Nat
  OBVIOUS
<1>2. Min(kept) \in kept /\ Min(kept) <= lo
  BY <1>1, LeastIsIn
<1>3. Max(kept) \in kept /\ hi <= Max(kept)
  BY <1>1, GreatestIsIn
<1>4. Min(kept) = lo /\ Max(kept) = hi
  BY <1>1, <1>2, <1>3
<1>5. kept # {}
  BY <1>1
<1> QED BY <1>4, <1>5 DEF strip

(* A text of anchors alone strips to the blank one.                        *)
LEMMA StripOfAnchors ==
  ASSUME NEW p \in Seq(Token), \A i \in 1..Len(p) : ~NotAnchor(p[i])
  PROVE  strip(p) = Blank
BY DEF strip

(* What a text without bars has to match is the whole of it.               *)
LEMMA OneAlternative ==
  ASSUME NEW p \in Seq(Token), \A i \in 1..Len(p) : p[i] # "|"
  PROVE  Alternatives(p) = {p}
<1>1. Bars(p) = {0, Len(p) + 1} /\ Len(p) \in Nat
  BY DEF Bars
<1>2. Bars(p) \ {Len(p) + 1} = {0}
  BY <1>1
<1>3. {j \in Bars(p) : j > 0} = {Len(p) + 1}
  BY <1>1
<1>4. Min({Len(p) + 1}) = Len(p) + 1
  BY <1>1 DEF Min
<1>5. SubSeq(p, 0 + 1, (Len(p) + 1) - 1) = p
  BY <1>1
<1> DEFINE Alt(i) == SubSeq(p, i + 1, Min({j \in Bars(p) : j > i}) - 1)
<1>6. Alt(0) = p
  BY <1>3, <1>4, <1>5
<1>7. Alternatives(p) = {Alt(i) : i \in {0}}
  BY <1>2 DEF Alternatives
<1> QED BY <1>6, <1>7

(* The anchored text of a sample is matched by that text and no other; an  *)
(* anchored blank is matched by a blank one.                               *)
LEMMA AnchoredMatchesItself ==
  ASSUME NEW t \in Seq(Word), NEW s \in Seq(Word)
  PROVE  re_match(Framed(t), s) <=> s = t
<1> DEFINE p == Framed(t)
<1>1. /\ p \in Seq(Token) /\ Len(p) = Len(t) + 2 /\ p[1] = "^" /\ p[Len(t) + 2] = "$"
      /\ \A i \in 2..Len(t) + 1 : p[i] = t[i - 1]
      /\ t \in Seq(Token) /\ s \in Seq(Token) /\ Len(t) \in Nat /\ Len(s) \in Nat
  BY FramedIs, TextIsTokens
<1>2. \A i \in 2..Len(t) + 1 : NotAnchor(p[i]) /\ p[i] # "|"
  BY <1>1, TextIsTokens, TokensAre
<1>3. ~NotAnchor(p[1]) /\ ~NotAnchor(p[Len(t) + 2])
  BY <1>1 DEF NotAnchor, Anchors
<1>4. \A i \in 1..Len(p) : p[i] # "|"
  BY <1>1, <1>2
<1>5. Alternatives(p) = {p}
  BY <1>1, <1>4, OneAlternative
<1>6. strip(p) = t
  <2>1. CASE t = <<>>
    <3>1. \A i \in 1..Len(p) : ~NotAnchor(p[i])
      BY <2>1, <1>1, <1>3
    <3> QED BY <3>1, <1>1, <2>1, StripOfAnchors DEF Blank
  <2>2. CASE t # <<>>
    <3>1. Len(t) > 0
      BY <2>2, <1>1
    <3>2. strip(p) = SubSeq(p, 2, Len(t) + 1)
      <4>1. \A i \in 1..Len(p) : NotAnchor(p[i]) => 2 <= i /\ i <= Len(t) + 1
        BY <1>1, <1>3
      <4>2. 2 \in 1..Len(p) /\ Len(t) + 1 \in 1..Len(p)
        BY <1>1, <3>1
      <4>3. 2 \in 2..Len(t) + 1 /\ Len(t) + 1 \in 2..Len(t) + 1
        BY <1>1, <3>1
      <4>4. NotAnchor(p[2]) /\ NotAnchor(p[Len(t) + 1])
        BY <1>2, <4>3
      <4> QED BY <1>1, <4>1, <4>2, <4>4, StripIs
    <3>3. Len(SubSeq(p, 2, Len(t) + 1)) = Len(t) /\ SubSeq(p, 2, Len(t) + 1) \in Seq(Token)
      BY <1>1, <3>1
    <3>4. \A i \in 1..Len(t) : SubSeq(p, 2, Len(t) + 1)[i] = t[i]
      BY <1>1, <3>1
    <3> QED BY <1>1, <3>2, <3>3, <3>4, SeqEqual
  <2> QED BY <2>1, <2>2
<1>7. matches_head(p, s) <=> t = s
  <2>1. \A i \in DOMAIN p : p[i] = "^" => {j \in DOMAIN p : j < i /\ NotAnchor(p[j])} = {}
    <3>1. \A i \in DOMAIN p : p[i] = "^" => i = 1
      BY <1>1, <1>2 DEF NotAnchor, Anchors
    <3> QED BY <3>1, <1>1
  <2>2. \A i \in DOMAIN p : p[i] = "$" => {j \in DOMAIN p : j > i /\ NotAnchor(p[j])} = {}
    <3>1. \A i \in DOMAIN p : p[i] = "$" => i = Len(p)
      BY <1>1, <1>2 DEF NotAnchor, Anchors
    <3> QED BY <3>1, <1>1
  <2>3. Len(p) \in DOMAIN p /\ p[Len(p)] = "$"
    BY <1>1
  <2>4. t = s => Len(t) <= Len(s) /\ t = SubSeq(s, 1, Len(t))
    BY <1>1
  <2> QED BY <1>6, <2>1, <2>2, <2>3, <2>4 DEF matches_head
<1> QED BY <1>5, <1>7 DEF re_match

LEMMA BlankMatchesBlank ==
  ASSUME NEW s \in Seq(Token)
  PROVE  re_match(<<"^", "$">>, s) <=> s = Blank
<1> DEFINE p == <<"^", "$">>
<1>1. p \in Seq(Token) /\ Len(p) = 2 /\ p[1] = "^" /\ p[2] = "$" /\ DOMAIN p = 1..2 /\ Len(s) \in Nat
  BY TokensAre
<1> HIDE DEF p
<1>2. \A i \in 1..Len(p) : p[i] # "|" /\ ~NotAnchor(p[i])
  BY <1>1, TokensAre
<1>3. Alternatives(p) = {p}
  BY <1>1, <1>2, OneAlternative
<1>4. strip(p) = Blank
  BY <1>1, <1>2, StripOfAnchors
<1>5. matches_head(p, s) <=> s = Blank
  <2>1. \A i : {j \in DOMAIN p : j < i /\ NotAnchor(p[j])} = {} /\ {j \in DOMAIN p : j > i /\ NotAnchor(p[j])} = {}
    BY <1>1, <1>2
  <2>2. Len(Blank) <= Len(s) /\ Blank = SubSeq(s, 1, Len(Blank))
    BY <1>1 DEF Blank
  <2>3. 2 \in DOMAIN p /\ p[2] = "$"
    BY <1>1
  <2> QED BY <1>4, <2>1, <2>2, <2>3 DEF matches_head
<1>6. re_match(p, s) <=> s = Blank
  BY <1>3, <1>5 DEF re_match
<1> QED BY <1>6 DEF p

-----------------------------------------------------------------------------
(* Entries of the table.                                                   *)
LEMMA Places ==
  ASSUME NEW n \in Nat, n >= 3, NEW i \in 1..n
  PROVE  /\ i = 1 \/ i = n \/ i \in 2..n - 1
         /\ i \in 2..n - 1 /\ i - 1 # 1 /\ i + 1 # n => i \in 3..n - 2
OBVIOUS

(* Where the anchors, the bars and the words of an entry are.              *)
LEMMA EntryTokens ==
  ASSUME NEW p, IsEntry(p)
  PROVE  /\ p \in Seq(Token) /\ Len(p) \in Nat /\ Len(p) >= 3 /\ DOMAIN p = 1..Len(p)
         /\ \A i \in 1..Len(p) : p[i] = "^" <=> i = 1
         /\ \A i \in 1..Len(p) : p[i] = "$" <=> i = Len(p)
         /\ \A i \in 1..Len(p) : NotAnchor(p[i]) <=> i \in 2..Len(p) - 1
         /\ \A i \in 1..Len(p) : p[i] = "|" => i \in 3..Len(p) - 2 /\ p[i + 1] \in Word
         /\ p[2] \in Word
<1>1. p \in Seq(Token) /\ Len(p) \in Nat /\ Len(p) >= 3 /\ DOMAIN p = 1..Len(p)
      /\ p[1] = "^" /\ p[Len(p)] = "$"
  BY DEF IsEntry
<1>2. ASSUME NEW i \in 2..Len(p) - 1
      PROVE  NotAnchor(p[i]) /\ p[i] # "^" /\ p[i] # "$"
  BY TokensAre DEF IsEntry
<1>3. \A i \in 1..Len(p) : i = 1 \/ i = Len(p) \/ i \in 2..Len(p) - 1
  BY <1>1, Places
<1>4. ASSUME NEW i \in 1..Len(p), p[i] = "|"
      PROVE  i \in 3..Len(p) - 2 /\ p[i + 1] \in Word
  <2>1. i \in 2..Len(p) - 1
    BY <1>1, <1>3, <1>4
  <2>2. p[i] \notin Word
    BY <1>4, TokensAre
  <2>3. p[i - 1] \in Word /\ p[i + 1] \in Word
    BY <2>1, <2>2 DEF IsEntry
  <2>4. i - 1 # 1 /\ i + 1 # Len(p)
    BY <2>3, <1>1, TokensAre
  <2> QED BY <1>1, <2>1, <2>3, <2>4, Places
<1>5. p[2] \in Word
  <2>1. 2 \in 2..Len(p) - 1
    BY <1>1
  <2>2. CASE p[2] = "|"
    BY <2>1, <2>2, <1>1, <1>4
  <2> QED BY <2>1, <2>2 DEF IsEntry
<1>6. ASSUME NEW i \in 1..Len(p)
      PROVE  /\ p[i] = "^" <=> i = 1
             /\ p[i] = "$" <=> i = Len(p)
             /\ NotAnchor(p[i]) <=> i \in 2..Len(p) - 1
  <2>1. CASE i = 1
    BY <2>1, <1>1, TokensAre
  <2>2. CASE i = Len(p)
    BY <2>2, <1>1, TokensAre
  <2>3. CASE i \in 2..Len(p) - 1
    BY <2>3, <1>1, <1>2
  <2> QED BY <1>3, <2>1, <2>2, <2>3
<1> QED BY <1>1, <1>4, <1>5, <1>6

LEMMA EntryStripped ==
  ASSUME NEW p, IsEntry(p)
  PROVE  /\ strip(p) = SubSeq(p, 2, Len(p) - 1)
         /\ strip(p) \in Seq(Token) /\ Len(strip(p)) = Len(p) - 2 /\ strip(p) # Blank
         /\ \A i \in 1..Len(p) - 2 : strip(p)[i] = p[i + 1]
<1>1. strip(p) = SubSeq(p, 2, Len(p) - 1)
  <2>1. 2 \in 1..Len(p) /\ Len(p) - 1 \in 1..Len(p)
    BY EntryTokens
  <2>2. NotAnchor(p[2]) /\ NotAnchor(p[Len(p) - 1])
    BY <2>1, EntryTokens
  <2>3. \A i \in 1..Len(p) : NotAnchor(p[i]) => 2 <= i /\ i <= Len(p) - 1
    BY EntryTokens
  <2> QED BY <2>1, <2>2, <2>3, EntryTokens, StripIs
<1>2. /\ SubSeq(p, 2, Len(p) - 1) \in Seq(Token) /\ Len(SubSeq(p, 2, Len(p) - 1)) = Len(p) - 2
      /\ \A i \in 1..Len(p) - 2 : SubSeq(p, 2, Len(p) - 1)[i] = p[i + 1]
  BY EntryTokens
<1>3. Len(Blank) = 0 /\ Len(p) - 2 # 0
  BY EntryTokens DEF Blank
<1> QED BY <1>1, <1>2, <1>3

(* The alternatives of an entry: each begins and ends at a bar, or at an   *)
(* end, and none is between.                                               *)
LEMMA NextBar ==
  ASSUME NEW p, IsEntry(p), NEW i \in Bars(p) \ {Len(p) + 1}
  PROVE  LET j == Min({k \in Bars(p) : k > i})
         IN  /\ i \in {0} \cup 3..Len(p) - 2 /\ j \in 1..Len(p) + 1 /\ j > i /\ j # Len(p)
             /\ \A k \in i + 1..j - 1 : p[k] # "|"
             /\ i > 0 => p[i] = "|" /\ j > i + 1
             /\ i = 0 => j > 2
             /\ j # Len(p) + 1 => j \in 3..Len(p) - 2 /\ p[j] = "|"
<1> DEFINE J == {k \in Bars(p) : k > i}
<1>1. Len(p) \in Nat /\ Len(p) >= 3 /\ DOMAIN p = 1..Len(p)
  BY EntryTokens
<1>2. \A k \in Bars(p) : k = 0 \/ k = Len(p) + 1 \/ (k \in 3..Len(p) - 2 /\ p[k] = "|" /\ p[k + 1] # "|")
  BY EntryTokens, TokensAre DEF Bars
<1>3. i \in {0} \cup 3..Len(p) - 2 /\ (i > 0 => p[i] = "|" /\ p[i + 1] # "|")
  BY <1>1, <1>2
<1>4. Len(p) + 1 \in Bars(p)
  BY DEF Bars
<1>5. J \subseteq Nat /\ J # {}
  <2>1. \A k \in Bars(p) : k \in Nat
    BY <1>1, <1>2
  <2>2. Len(p) + 1 > i
    BY <1>1, <1>3
  <2> QED BY <2>1, <2>2, <1>4
<1>6. Min(J) \in J /\ \A k \in J : Min(J) <= k
  BY <1>5, LeastIsIn
<1> DEFINE j == Min(J)
<1>7. j \in Bars(p) /\ j > i /\ j \in Nat
  BY <1>5, <1>6
<1>8. j \in 1..Len(p) + 1 /\ j # Len(p) /\ (j # Len(p) + 1 => j \in 3..Len(p) - 2 /\ p[j] = "|")
  BY <1>1, <1>2, <1>3, <1>7
<1>9. ASSUME NEW k \in i + 1..j - 1 PROVE p[k] # "|"
  <2>1. k \in 1..Len(p) /\ k < j /\ k > i
    BY <1>1, <1>3, <1>8
  <2>2. p[k] = "|" => k \in J
    BY <2>1, <1>1 DEF Bars
  <2>3. k \in J => j <= k
    BY <1>6
  <2> QED BY <2>1, <2>2, <2>3, <1>8
<1>10. i > 0 => j > i + 1
  <2>1. i > 0 /\ j = i + 1 => p[j] # "|" /\ j <= Len(p) - 1
    BY <1>1, <1>3
  <2> QED BY <2>1, <1>1, <1>3, <1>7, <1>8
<1>11. i = 0 => j > 2
  BY <1>1, <1>8
<1> HIDE DEF j
<1> QED BY <1>3, <1>7, <1>8, <1>9, <1>10, <1>11 DEF j

(* A text that an entry is pretended to show is matched by the entry: its  *)
(* first alternative is at its head.                                       *)
LEMMA EntryMatchesStripped ==
  ASSUME NEW p, IsEntry(p)
  PROVE  re_match(p, strip(p))
<1> DEFINE j == Min({k \in Bars(p) : k > 0})
           a == SubSeq(p, 1, j - 1)
           n == Len(p)
           b == strip(p)
<1>1. n \in Nat /\ n >= 3 /\ p \in Seq(Token) /\ DOMAIN p = 1..n
  BY EntryTokens
<1>2. 0 \in Bars(p) \ {n + 1}
  BY <1>1 DEF Bars
<1>3. /\ j \in 3..n + 1 /\ j # n
      /\ j # n + 1 => j \in 3..n - 2
  <2>1. /\ j \in 1..n + 1 /\ j # n /\ (0 = 0 => j > 2)
        /\ j # n + 1 => j \in 3..n - 2 /\ p[j] = "|"
    BY <1>2, NextBar
  <2> QED BY <2>1, <1>1
<1>4. SubSeq(p, 0 + 1, j - 1) \in Alternatives(p)
  BY <1>2 DEF Alternatives
<1>5. a \in Alternatives(p)
  BY <1>4
<1>6. b \in Seq(Token) /\ Len(b) = n - 2 /\ (\A i \in 1..n - 2 : b[i] = p[i + 1])
      /\ b = SubSeq(p, 2, n - 1)
  BY EntryStripped
<1> HIDE DEF j, b
<1>7. matches_head(a, b)
  <2>1. CASE j = n + 1
    <3>1. a = p
      BY <2>1, <1>1
    <3>2. strip(a) = b /\ Len(b) <= Len(b) /\ b = SubSeq(b, 1, Len(b))
      <4>1. strip(a) = b
        BY <3>1 DEF b
      <4> QED BY <4>1, <1>6, <1>1
    <3>3. ASSUME NEW i \in 1..n, p[i] = "^"
          PROVE  {k \in DOMAIN p : k < i /\ NotAnchor(p[k])} = {}
      BY <3>3, <1>1, EntryTokens
    <3>4. ASSUME NEW i \in 1..n, p[i] = "$"
          PROVE  {k \in DOMAIN p : k > i /\ NotAnchor(p[k])} = {}
      BY <3>4, <1>1, EntryTokens
    <3> QED BY <3>1, <3>2, <3>3, <3>4, <1>1 DEF matches_head
  <2>2. CASE j # n + 1
    <3>1. j \in 3..n - 2
      BY <2>2, <1>3
    <3>2. a \in Seq(Token) /\ Len(a) = j - 1 /\ DOMAIN a = 1..j - 1 /\ \A i \in 1..j - 1 : a[i] = p[i]
      BY <3>1, <1>1
    <3> HIDE DEF a
    <3>3. ASSUME NEW i \in 1..j - 1 PROVE NotAnchor(a[i]) <=> i >= 2
      <4>1. i \in 1..n /\ (i \in 2..n - 1 <=> i >= 2)
        BY <3>1, <1>1
      <4>2. NotAnchor(p[i]) <=> i \in 2..n - 1
        BY <4>1, EntryTokens
      <4> QED BY <4>1, <4>2, <3>2
    <3>4. strip(a) = SubSeq(a, 2, j - 1)
      <4>1. 2 \in 1..Len(a) /\ j - 1 \in 1..Len(a)
        BY <3>1, <3>2
      <4>2. \A i \in 1..Len(a) : NotAnchor(a[i]) => 2 <= i /\ i <= j - 1
        BY <3>1, <3>2, <3>3
      <4>3. NotAnchor(a[2]) /\ NotAnchor(a[j - 1])
        BY <3>1, <3>3
      <4> QED BY <4>1, <4>2, <4>3, <3>2, StripIs
    <3>5. /\ SubSeq(a, 2, j - 1) \in Seq(Token) /\ Len(SubSeq(a, 2, j - 1)) = j - 2
          /\ \A i \in 1..j - 2 : SubSeq(a, 2, j - 1)[i] = p[i + 1]
      BY <3>1, <3>2
    <3>6. /\ SubSeq(b, 1, j - 2) \in Seq(Token) /\ Len(SubSeq(b, 1, j - 2)) = j - 2
          /\ \A i \in 1..j - 2 : SubSeq(b, 1, j - 2)[i] = p[i + 1]
      BY <3>1, <1>1, <1>6
    <3>7. SubSeq(a, 2, j - 1) = SubSeq(b, 1, j - 2)
      <4> DEFINE u == SubSeq(a, 2, j - 1)
                 v == SubSeq(b, 1, j - 2)
      <4>1. u \in Seq(Token) /\ v \in Seq(Token) /\ Len(u) = Len(v)
        BY <3>5, <3>6
      <4>2. \A i \in 1..Len(u) : u[i] = v[i]
        BY <3>5, <3>6
      <4> HIDE DEF u, v
      <4>3. u = v
        BY <4>1, <4>2, SeqEqual
      <4> QED BY <4>3 DEF u, v
    <3>8. Len(strip(a)) = j - 2 /\ Len(strip(a)) <= Len(b) /\ strip(a) = SubSeq(b, 1, Len(strip(a)))
      BY <3>1, <3>4, <3>5, <3>7, <1>1, <1>6
    <3>9. ASSUME NEW i \in DOMAIN a
          PROVE  a[i] # "$" /\ (a[i] = "^" => {k \in DOMAIN a : k < i /\ NotAnchor(a[k])} = {})
      BY <3>1, <3>2, <1>1, EntryTokens
    <3> QED BY <3>8, <3>9 DEF matches_head
  <2> QED BY <2>1, <2>2
<1> QED BY <1>5, <1>7 DEF re_match, b

(* An alternative of an entry has a word, and nothing but words stands     *)
(* between its anchors.                                                    *)
LEMMA AlternativeIs ==
  ASSUME NEW p, IsEntry(p), NEW a \in Alternatives(p)
  PROVE  /\ a \in Seq(Token) /\ strip(a) \in Seq(Token) /\ Len(strip(a)) >= 1
         /\ NotAnchor(strip(a)[1])
         /\ \A k \in DOMAIN a : a[k] = "^" => \A l \in DOMAIN a : ~(l < k)
         /\ \A k \in DOMAIN a : a[k] = "$" => \A l \in DOMAIN a : ~(l > k)
<1>0. PICK i \in Bars(p) \ {Len(p) + 1} : a = SubSeq(p, i + 1, Min({k \in Bars(p) : k > i}) - 1)
  BY DEF Alternatives
<1> DEFINE j == Min({k \in Bars(p) : k > i})
           n == Len(p)
           kept == {k \in DOMAIN a : NotAnchor(a[k])}
<1>1. n \in Nat /\ n >= 3 /\ p \in Seq(Token) /\ DOMAIN p = 1..n
  BY EntryTokens
<1>2. /\ i \in {0} \cup 3..n - 2 /\ j \in 1..n + 1 /\ j > i /\ (i > 0 => p[i] = "|" /\ j > i + 1) /\ (i = 0 => j > 2)
  BY NextBar
<1>3. a = SubSeq(p, i + 1, j - 1)
  BY <1>0
<1> HIDE DEF j
<1>4. /\ a \in Seq(Token) /\ Len(a) = j - 1 - i /\ DOMAIN a = 1..j - 1 - i
      /\ \A k \in 1..j - 1 - i : a[k] = p[i + k]
  BY <1>1, <1>2, <1>3
<1>5. kept # {}
  <2>1. CASE i = 0
    <3>1. 2 \in DOMAIN a /\ a[2] = p[2]
      BY <2>1, <1>1, <1>2, <1>4
    <3> QED BY <3>1, EntryTokens, TokensAre
  <2>2. CASE i > 0
    <3>1. 1 \in DOMAIN a /\ a[1] = p[i + 1]
      BY <2>2, <1>1, <1>2, <1>4
    <3>2. p[i + 1] \in Word
      BY <2>2, <1>1, <1>2, EntryTokens
    <3> QED BY <3>1, <3>2, TokensAre
  <2> QED BY <2>1, <2>2, <1>2
<1>6. kept \subseteq Nat /\ kept \subseteq 0..Len(a) /\ Len(a) \in Nat
  BY <1>1, <1>2, <1>4
<1>7. Min(kept) \in kept /\ Max(kept) \in kept /\ Min(kept) <= Max(kept)
  BY <1>5, <1>6, LeastIsIn, GreatestIsIn
<1>8. strip(a) = SubSeq(a, Min(kept), Max(kept))
  BY <1>5 DEF strip
<1>9. Min(kept) \in 1..Len(a) /\ Max(kept) \in 1..Len(a) /\ NotAnchor(a[Min(kept)])
  BY <1>4, <1>7
<1> HIDE DEF kept
<1>10. Len(strip(a)) >= 1 /\ strip(a) \in Seq(Token) /\ strip(a)[1] = a[Min(kept)]
  BY <1>4, <1>7, <1>8, <1>9
<1>11. ASSUME NEW k \in DOMAIN a, a[k] = "^" PROVE \A l \in DOMAIN a : ~(l < k)
  <2>1. i + k \in 1..n /\ p[i + k] = "^"
    BY <1>1, <1>2, <1>4, <1>11
  <2>2. i + k = 1
    BY <2>1, EntryTokens
  <2> QED BY <2>2, <1>2, <1>4
<1>12. ASSUME NEW k \in DOMAIN a, a[k] = "$" PROVE \A l \in DOMAIN a : ~(l > k)
  <2>1. i + k \in 1..n /\ p[i + k] = "$"
    BY <1>1, <1>2, <1>4, <1>12
  <2>2. i + k = n
    BY <2>1, EntryTokens
  <2> QED BY <2>2, <1>1, <1>2, <1>4
<1> QED BY <1>4, <1>9, <1>10, <1>11, <1>12

(* A text of at most one word is matched by an entry just if the word is   *)
(* one of its alternatives.                                                *)
LEMMA OneWordIsMet ==
  ASSUME NEW p, IsEntry(p), NEW t \in Seq(Token), Len(t) <= 1
  PROVE  re_match(p, t) <=> \E a \in Alternatives(p) : t = strip(a)
<1>1. ASSUME NEW a \in Alternatives(p), matches_head(a, t) PROVE t = strip(a)
  <2> DEFINE w == strip(a)
  <2>1. Len(w) <= Len(t) /\ w = SubSeq(t, 1, Len(w))
    BY <1>1 DEF matches_head
  <2>2. Len(w) >= 1 /\ Len(w) \in Nat /\ Len(t) \in Nat
    <3>1. w \in Seq(Token) /\ Len(w) >= 1
      BY AlternativeIs
    <3> QED BY <3>1
  <2> HIDE DEF w
  <2>3. Len(w) = 1 /\ Len(t) = 1
    <3>1. Len(w) <= Len(t)
      BY <2>1
    <3>2. \A x, y \in Nat : x >= 1 /\ x <= y /\ y <= 1 => x = 1 /\ y = 1
      OBVIOUS
    <3> QED BY ONLY <3>1, <3>2, <2>2, Len(t) <= 1
  <2>4. SubSeq(t, 1, 1) = t
    BY <2>3
  <2> QED BY <2>1, <2>3, <2>4 DEF w
<1>2. ASSUME NEW a \in Alternatives(p), t = strip(a) PROVE matches_head(a, t)
  <2>1. /\ \A k \in DOMAIN a : a[k] = "^" => \A l \in DOMAIN a : ~(l < k)
        /\ \A k \in DOMAIN a : a[k] = "$" => \A l \in DOMAIN a : ~(l > k)
    BY AlternativeIs
  <2>2. Len(t) \in Nat /\ t = SubSeq(t, 1, Len(t))
    OBVIOUS
  <2>3. ASSUME NEW k \in DOMAIN a, a[k] = "^"
        PROVE  {l \in DOMAIN a : l < k /\ NotAnchor(a[l])} = {}
    BY <2>1, <2>3
  <2>4. ASSUME NEW k \in DOMAIN a, a[k] = "$"
        PROVE  {l \in DOMAIN a : l > k /\ NotAnchor(a[l])} = {}
    BY <2>1, <2>4
  <2> QED BY <1>2, <2>2, <2>3, <2>4 DEF matches_head
<1> QED BY <1>1, <1>2 DEF re_match

-----------------------------------------------------------------------------
(* What a sample has: a text for each field that was asked for, those of   *)
(* the operating system only if there is one, blank or NA where the        *)
(* service did not answer.                                                 *)
RedfishFields == {"redfish"} \cup RfFields
SampleFields == RedfishFields \cup (IF OsHost THEN OsFields ELSE {})

LEMMA WordsAreTexts == ASSUME NEW w \in Word PROVE <<w>> \in Seq(Word) /\ <<w>> # Blank
BY DEF Blank

LEMMA BitIs == ASSUME NEW b \in BOOLEAN
               PROVE  /\ Bit(b) \in Seq(Word) /\ Bit(b) # Blank
                      /\ Bit(b) = <<"0">> <=> ~b
<1>1. <<"0">> \in Seq(Word) /\ <<"0">> # Blank /\ <<"1">> \in Seq(Word) /\ <<"1">> # Blank
  BY StateAssumption, WordsAreTexts
<1>2. <<"1">> # <<"0">>
  OBVIOUS
<1> QED BY <1>1, <1>2 DEF Bit

LEMMA RedfishIs ==
  ASSUME NEW m \in Machines, NEW req, RedfishFields \subseteq req, req \subseteq RedfishFields \cup OsFields
  PROVE  LET s == bmc_state(m, req)
         IN  /\ s = [k \in RedfishFields |-> s[k]]
             /\ \A k \in RedfishFields : s[k] \in Seq(Word)
             /\ s["redfish"] = Bit(m.redfish)
             /\ m.redfish => \A k \in RfFields : s[k] # Blank
             /\ ~m.redfish => s["chassis"] = Blank
<1> DEFINE s == bmc_state(m, req)
<1>1. req \cap master_req_rf # {} /\ req \ OsFields = RedfishFields /\ "redfish" \in RedfishFields
      /\ RfFields \subseteq RedfishFields /\ "redfish" \notin RfFields
  BY DEF RedfishFields, RfFields, OsFields, master_req_rf
<1>2. m.redfish \in BOOLEAN /\ \A k \in RfFields : m[k] \in Seq(Word) /\ m[k] # Blank
  BY StateAssumption
<1>3. s = [field \in RedfishFields |->
             CASE field = "redfish" -> Bit(m.redfish)
               [] field \in RfFields /\ m.redfish -> m[field]
               [] OTHER -> IF field = "boot_progress" THEN <<"NA">> ELSE Blank]
  <2>1. (req \ OsFields) \cup {"redfish"} \cup (IF m.redfish THEN RfFields ELSE {}) = RedfishFields
    BY <1>1
  <2> QED BY <1>1, <1>2, <2>1 DEF bmc_state
<1> HIDE DEF s
<1>4. <<"NA">> \in Seq(Word) /\ Blank \in Seq(Word) /\ <<"NA">> # Blank
  BY StateAssumption, WordsAreTexts DEF Blank
<1>5. s["redfish"] = Bit(m.redfish) /\ s["redfish"] \in Seq(Word)
  BY <1>1, <1>2, <1>3, BitIs
<1>6. ASSUME NEW k \in RfFields
      PROVE  s[k] = IF m.redfish THEN m[k] ELSE IF k = "boot_progress" THEN <<"NA">> ELSE Blank
  BY <1>1, <1>2, <1>3
<1>7. s = [k \in RedfishFields |-> s[k]]
  BY <1>3
<1>8. \A k \in RedfishFields : k = "redfish" \/ k \in RfFields
  BY DEF RedfishFields
<1>9. "chassis" \in RfFields
  BY DEF RfFields
<1>10. \A k \in RedfishFields : s[k] \in Seq(Word)
  BY <1>2, <1>4, <1>5, <1>6, <1>8
<1>11. m.redfish => \A k \in RfFields : s[k] # Blank
  BY <1>2, <1>6
<1>12. ~m.redfish => s["chassis"] = Blank
  BY <1>6, <1>9
<1> QED BY <1>5, <1>7, <1>10, <1>11, <1>12 DEF s

(* What get_state returns: every field the driver asks for, with a value   *)
(* for those of Redfish just if the service answered.                      *)
LEMMA SampleIs ==
  ASSUME NEW m \in Machines, NEW req, RedfishFields \subseteq req, req \subseteq RedfishFields \cup OsFields,
         OsHost => OsFields \subseteq req
  PROVE  LET s == get_state(m, req)
         IN  /\ s = [k \in SampleFields |-> s[k]]
             /\ \A k \in SampleFields : s[k] \in Seq(Word)
             /\ s["redfish"] = Bit(m.redfish)
             /\ m.redfish => \A k \in RfFields : s[k] # Blank
             /\ ~m.redfish => s["chassis"] = Blank
<1> DEFINE r == bmc_state(m, req)
<1>1. /\ r = [k \in RedfishFields |-> r[k]]
      /\ \A k \in RedfishFields : r[k] \in Seq(Word)
      /\ r["redfish"] = Bit(m.redfish)
      /\ m.redfish => \A k \in RfFields : r[k] # Blank
      /\ ~m.redfish => r["chassis"] = Blank
  BY RedfishIs
<1> HIDE DEF r
<1>2. CASE ~OsHost
  <2>1. get_state(m, req) = r /\ SampleFields = RedfishFields
    BY <1>2 DEF get_state, r, SampleFields
  <2> QED BY <1>1, <2>1
<1>3. CASE OsHost
  <2> DEFINE up == os_up(r, req)
             o == get_os_state(m, OsFields, up)
             s == get_state(m, req)
  <2>1. req \cap OsFields = OsFields /\ OsFields # {}
    BY <1>3 DEF OsFields
  <2>2. s = [k \in DOMAIN r \cup DOMAIN o |-> IF k \in DOMAIN o THEN o[k] ELSE r[k]]
    BY <2>1, <1>3 DEF get_state, r
  <2>3. up \in BOOLEAN
    BY DEF os_up, compare_states
  <2>4. o = [k \in OsFields |-> o[k]] /\ \A k \in OsFields : o[k] \in Seq(Word)
    <3>1. (up /\ m.os_ping) \in BOOLEAN /\ (up /\ m.os_ssh) \in BOOLEAN
      BY <2>3, StateAssumption
    <3> HIDE DEF up
    <3>2. o = [field \in OsFields |->
                 CASE field = "os_ping" -> Bit(up /\ m.os_ping)
                   [] field \in {"os_login", "os_run_cmd"} -> Bit(up /\ m.os_ssh)]
      BY DEF get_os_state
    <3>3. \A k \in OsFields : k = "os_ping" \/ k \in {"os_login", "os_run_cmd"}
      BY DEF OsFields
    <3> HIDE DEF o
    <3>4. \A k \in OsFields : o[k] = Bit(up /\ m.os_ping) \/ o[k] = Bit(up /\ m.os_ssh)
      BY <3>2, <3>3
    <3>5. Bit(up /\ m.os_ping) \in Seq(Word) /\ Bit(up /\ m.os_ssh) \in Seq(Word)
      BY <3>1, BitIs
    <3> QED BY <3>2, <3>4, <3>5
  <2> HIDE DEF o, up
  <2>5. DOMAIN r = RedfishFields /\ DOMAIN o = OsFields /\ RedfishFields \cup OsFields = SampleFields
    BY <1>1, <2>4, <1>3 DEF SampleFields
  <2>6. s = [k \in SampleFields |-> IF k \in OsFields THEN o[k] ELSE r[k]]
    BY <2>2, <2>5
  <2> HIDE DEF s
  <2>7. \A k \in RedfishFields : k \notin OsFields /\ s[k] = r[k]
    <3>1. RedfishFields \cap OsFields = {}
      BY DEF RedfishFields, RfFields, OsFields
    <3> QED BY <3>1, <2>5, <2>6
  <2>8. \A k \in SampleFields : s[k] \in Seq(Word)
    BY <1>1, <2>4, <2>5, <2>6
  <2>9. RfFields \subseteq RedfishFields /\ "redfish" \in RedfishFields /\ "chassis" \in RedfishFields
    BY DEF RedfishFields, RfFields
  <2>10. s = [k \in SampleFields |-> s[k]]
    BY <2>6
  <2> QED BY <1>1, <2>7, <2>8, <2>9, <2>10 DEF s
<1> QED BY <1>2, <1>3, StateAssumption

LEMMA DefaultsFit ==
  /\ RedfishFields \subseteq default_req_states /\ default_req_states \subseteq RedfishFields \cup OsFields
  /\ OsFields \subseteq default_req_states
  /\ RedfishFields \subseteq SampleFields /\ SampleFields \subseteq RedfishFields \cup OsFields
  /\ OsHost => OsFields \subseteq SampleFields
BY DEF default_req_states, RedfishFields, SampleFields

-----------------------------------------------------------------------------
(* A sample, however long ago it was taken.                                *)
IsSample(s) == \E m \in Machines : s = get_state(m, default_req_states)

LEMMA SampleHas ==
  ASSUME NEW s, IsSample(s)
  PROVE  /\ s = [k \in SampleFields |-> s[k]] /\ DOMAIN s = SampleFields
         /\ \A k \in SampleFields : s[k] \in Seq(Word)
         /\ s["redfish"] = <<"0">> <=> \E k \in RedfishFields : s[k] = Blank
<1>1. PICK m \in Machines : s = get_state(m, default_req_states)
  BY DEF IsSample
<1>2. /\ s = [k \in SampleFields |-> s[k]]
      /\ \A k \in SampleFields : s[k] \in Seq(Word)
      /\ s["redfish"] = Bit(m.redfish)
      /\ m.redfish => \A k \in RfFields : s[k] # Blank
      /\ ~m.redfish => s["chassis"] = Blank
  BY <1>1, DefaultsFit, SampleIs
<1>3. m.redfish \in BOOLEAN
  BY StateAssumption
<1>4. s["redfish"] # Blank /\ (s["redfish"] = <<"0">> <=> ~m.redfish)
  BY <1>2, <1>3, BitIs
<1>5. "chassis" \in RedfishFields /\ \A k \in RedfishFields : k = "redfish" \/ k \in RfFields
  BY DEF RedfishFields, RfFields
<1>6. s["redfish"] = <<"0">> <=> \E k \in RedfishFields : s[k] = Blank
  BY <1>2, <1>3, <1>4, <1>5
<1>7. DOMAIN s = SampleFields
  BY <1>2
<1> QED BY <1>2, <1>6, <1>7

(* A sample compared, anchored, with what is read now: it is matched just  *)
(* if nothing has changed.                                                 *)
LEMMA ChangeIsCompared ==
  ASSUME NEW s, IsSample(s), NEW m \in Machines
  PROVE  check_state(m, anchor_state(s), TRUE) <=> get_state(m, DOMAIN s) # s
<1> DEFINE a == anchor_state(s)
           n == get_state(m, DOMAIN s)
<1>1. /\ s = [k \in SampleFields |-> s[k]] /\ DOMAIN s = SampleFields
      /\ \A k \in SampleFields : s[k] \in Seq(Word)
  BY SampleHas
<1>2. n = [k \in SampleFields |-> n[k]] /\ \A k \in SampleFields : n[k] \in Seq(Word)
  BY <1>1, DefaultsFit, SampleIs
<1>3. DOMAIN a = SampleFields /\ \A k \in SampleFields : a[k] = Framed(s[k])
  BY <1>1 DEF anchor_state, Framed
<1>4. \A k \in SampleFields : a[k] # Blank
  <2>1. \A k \in SampleFields : s[k] \in Seq(Token) /\ Len(s[k]) \in Nat
    BY <1>1, TextIsTokens
  <2>2. \A k \in SampleFields : Len(Framed(s[k])) = Len(s[k]) + 2
    BY <2>1, FramedIs
  <2>3. Len(Blank) = 0
    BY DEF Blank
  <2> QED BY <1>3, <2>1, <2>2, <2>3
<1>5. considered(a) = SampleFields
  BY <1>3, <1>4 DEF considered
<1>6. \A k \in SampleFields : entry_matches(n, a, k) <=> n[k] = s[k]
  <2>1. DOMAIN n = SampleFields
    BY <1>2
  <2>2. \A k \in SampleFields : re_match(a[k], n[k]) <=> n[k] = s[k]
    <3> TAKE k \in SampleFields
    <3>1. s[k] \in Seq(Word) /\ n[k] \in Seq(Word) /\ a[k] = Framed(s[k])
      BY <1>1, <1>2, <1>3
    <3> HIDE DEF a, n
    <3>2. re_match(Framed(s[k]), n[k]) <=> n[k] = s[k]
      BY <3>1, AnchoredMatchesItself
    <3> QED BY <3>1, <3>2
  <2> QED BY <2>1, <2>2 DEF entry_matches
<1>7. compare_states(n, a, "and") <=> n = s
  <2>1. compare_states(n, a, "and") <=> \A k \in SampleFields : n[k] = s[k]
    BY <1>5, <1>6 DEF compare_states
  <2>2. (\A k \in SampleFields : n[k] = s[k]) <=> n = s
    BY <1>1, <1>2
  <2> QED BY <2>1, <2>2
<1>8. check_state(m, a, TRUE) = (compare_states(n, a, "and") # TRUE)
  BY <1>1, <1>3 DEF check_state
<1>9. compare_states(n, a, "and") \in BOOLEAN
  BY DEF compare_states
<1> QED BY <1>7, <1>8, <1>9

(* Only a blank text is matched by an entry of invalid_state_match.        *)
LEMMA InvalidIsBlank ==
  ASSUME NEW s, \A k \in RedfishFields \cap DOMAIN s : s[k] \in Seq(Token)
  PROVE  compare_states(s, invalid_state_match, "or") <=>
           \E k \in RedfishFields \cap DOMAIN s : s[k] = Blank
<1> DEFINE v == invalid_state_match
<1>1. DOMAIN v = RedfishFields /\ \A k \in RedfishFields : v[k] = <<"^", "$">>
  BY DEF invalid_state_match, RedfishFields
<1> HIDE DEF v
<1>2. considered(v) = RedfishFields
  BY <1>1 DEF considered, Blank
<1>3. \A k \in RedfishFields : entry_matches(s, v, k) <=> k \in DOMAIN s /\ s[k] = Blank
  BY <1>1, BlankMatchesBlank DEF entry_matches
<1>4. compare_states(s, v, "or") <=> \E k \in RedfishFields : entry_matches(s, v, k)
  BY <1>2 DEF compare_states
<1> QED BY <1>3, <1>4 DEF v

-----------------------------------------------------------------------------
(* A state is a sample or an end entry with its anchors taken off.         *)
ScInv ==
  /\ machine \in Machines
  /\ boot \in DOMAIN Table \cup {"none"}
  /\ checked \in {"none", "succeeded", "failed"}
  /\ boot = "none" => IsSample(state)
  /\ boot # "none" => state = strip_anchor_state(Table[boot].end)
  /\ checked # "none" => boot = "none"
  /\ ChangeIsSeen

LEMMA ScStarts == ScInit => ScInv
BY DEF ScInit, ScInv, IsSample, ChangeIsSeen

LEMMA ScStays == ScInv /\ [ScNext]_scvars => ScInv'
<1> SUFFICES ASSUME ScInv, [ScNext]_scvars PROVE ScInv'
  OBVIOUS
<1>1. CASE MachineChanges
  BY <1>1 DEF ScInv, MachineChanges, ChangeIsSeen
<1>2. CASE my_get_state
  BY <1>2 DEF ScInv, my_get_state, ChangeIsSeen, IsSample
<1>3. CASE CheckChange
  <2>1. boot = "none" /\ IsSample(state) /\ machine \in Machines /\ UNCHANGED <<machine, state, boot>>
    BY <1>3 DEF ScInv, CheckChange
  <2>2. check_state(machine, anchor_state(state), TRUE) <=> get_state(machine, DOMAIN state) # state
    BY <2>1, ChangeIsCompared
  <2>3. checked' = IF get_state(machine, DOMAIN state) # state THEN "succeeded" ELSE "failed"
    BY <1>3, <2>2 DEF CheckChange
  <2>4. get_state(machine, DOMAIN state)' = get_state(machine, DOMAIN state)
    BY <2>1
  <2>5. ChangeIsSeen'
    BY <2>1, <2>3 DEF ChangeIsSeen
  <2> QED BY <2>1, <2>3, <2>5 DEF ScInv
<1>4. ASSUME NEW b \in DOMAIN Table, Pretend(b) PROVE ScInv'
  BY <1>4, StateAssumption DEF ScInv, Pretend, ChangeIsSeen
<1>5. CASE UNCHANGED scvars
  BY <1>5 DEF ScInv, scvars, ChangeIsSeen
<1> QED BY <1>1, <1>2, <1>3, <1>4, <1>5 DEF ScNext

LEMMA AlwaysScInv == ScSpec => []ScInv
<1> QED BY ScStarts, ScStays, PTL DEF ScSpec

-----------------------------------------------------------------------------
(* What run_boot waits for in wait_state, a state that differs from the    *)
(* one it began with, is found just if the machine shows one.              *)
THEOREM ChangesAreSeen == ScSpec => []ChangeIsSeen
<1>1. ScInv => ChangeIsSeen
  BY DEF ScInv
<1> QED BY <1>1, AlwaysScInv, PTL

(* valid_state in obmc_boot_test.py refuses a sample just if the Redfish   *)
(* service did not answer when it was taken.                               *)
THEOREM UnreadIsRefused == ScSpec => []RefusesUnread
<1>1. ASSUME ScInv, boot = "none"
      PROVE  compare_states(state, invalid_state_match, "or") <=> state["redfish"] = <<"0">>
  <2>1. /\ DOMAIN state = SampleFields /\ \A k \in SampleFields : state[k] \in Seq(Word)
        /\ state["redfish"] = <<"0">> <=> \E k \in RedfishFields : state[k] = Blank
    BY <1>1, SampleHas DEF ScInv
  <2>2. RedfishFields \cap DOMAIN state = RedfishFields
        /\ \A k \in RedfishFields : state[k] \in Seq(Token)
    BY <2>1, DefaultsFit, TextIsTokens
  <2> QED BY <2>1, <2>2, InvalidIsBlank
<1>2. ScInv => RefusesUnread
  BY <1>1 DEF RefusesUnread
<1> QED BY <1>2, AlwaysScInv, PTL

(* An end entry, made into a sample in test mode, is met by itself and     *)
(* found valid.                                                            *)
LEMMA PretendedHolds ==
  ASSUME NEW b \in DOMAIN Table
  PROVE  LET s == strip_anchor_state(Table[b].end)
         IN  compare_states(s, Table[b].end, "and") /\ ~compare_states(s, invalid_state_match, "or")
<1> DEFINE e == Table[b].end
           s == strip_anchor_state(e)
<1>1. \A k \in DOMAIN e : IsEntry(e[k])
  BY StateAssumption DEF AreEntries
<1>2. DOMAIN s = DOMAIN e /\ \A k \in DOMAIN e : s[k] = strip(e[k])
  BY DEF strip_anchor_state
<1>3. \A k \in DOMAIN e : s[k] \in Seq(Token) /\ s[k] # Blank /\ re_match(e[k], s[k])
  BY <1>1, <1>2, EntryStripped, EntryMatchesStripped
<1>4. compare_states(s, e, "and")
  BY <1>2, <1>3 DEF compare_states, considered, entry_matches
<1>5. ~compare_states(s, invalid_state_match, "or")
  BY <1>2, <1>3, InvalidIsBlank
<1> QED BY <1>4, <1>5

(* A sample of words meets the entries whose alternatives it shows.        *)
LEMMA EntryIsMet ==
  ASSUME NEW s, NEW e, AreEntries(e),
         \A k \in DOMAIN e \cap DOMAIN s : s[k] \in Seq(Token) /\ Len(s[k]) <= 1
  PROVE  compare_states(s, e, "and") <=>
           \A k \in DOMAIN e : k \in DOMAIN s /\ \E a \in Alternatives(e[k]) : s[k] = strip(a)
<1>1. \A k \in DOMAIN e : IsEntry(e[k])
  BY DEF AreEntries
<1>2. ASSUME NEW k \in DOMAIN e PROVE e[k] # Blank
  <2>1. Len(e[k]) >= 3 /\ Len(Blank) = 0
    BY <1>1, EntryTokens DEF Blank
  <2> QED BY <2>1
<1>3. considered(e) = DOMAIN e
  BY <1>2 DEF considered
<1>4. ASSUME NEW k \in DOMAIN e
      PROVE  entry_matches(s, e, k) <=> (k \in DOMAIN s /\ \E a \in Alternatives(e[k]) : s[k] = strip(a))
  <2>1. CASE k \in DOMAIN s
    <3>1. s[k] \in Seq(Token) /\ Len(s[k]) <= 1 /\ IsEntry(e[k])
      BY <2>1, <1>1
    <3>2. re_match(e[k], s[k]) <=> \E a \in Alternatives(e[k]) : s[k] = strip(a)
      BY <3>1, OneWordIsMet
    <3> QED BY <2>1, <3>2 DEF entry_matches
  <2>2. CASE k \notin DOMAIN s
    BY <2>2 DEF entry_matches
  <2> QED BY <2>1, <2>2
<1> QED BY <1>3, <1>4 DEF compare_states

(* Every text of the state is a sequence of tokens.                        *)
LEMMA StateTexts == ASSUME ScInv PROVE \A k \in DOMAIN state : state[k] \in Seq(Token)
<1>1. CASE boot = "none"
  <2>1. DOMAIN state = SampleFields /\ \A k \in SampleFields : state[k] \in Seq(Word)
    BY <1>1, SampleHas DEF ScInv
  <2> QED BY <2>1, TextIsTokens
<1>2. CASE boot # "none"
  <2>1. boot \in DOMAIN Table /\ state = strip_anchor_state(Table[boot].end)
    BY <1>2 DEF ScInv
  <2>2. \A k \in DOMAIN Table[boot].end : IsEntry(Table[boot].end[k])
    BY <2>1, StateAssumption DEF AreEntries
  <2> QED BY <2>1, <2>2, EntryStripped DEF strip_anchor_state
<1> QED BY <1>1, <1>2

(* In test mode the end entry pretended to be a sample satisfies itself and*)
(* is found valid; and a sample of words, read or pretended, is found in   *)
(* just those start and end states whose alternatives it shows.            *)
THEOREM EntriesAlwaysHold == ScSpec => []EntriesHold
<1>1. ASSUME ScInv PROVE EntriesHold
  <2>1. ScTypeOK
    BY <1>1, SampleHas DEF ScInv, ScTypeOK, SampleFields, RedfishFields
  <2>2. PretendedEndHolds
    BY <1>1, PretendedHolds DEF ScInv, PretendedEndHolds
  <2>3. MetByAlternatives
    <3>1. \A k \in DOMAIN state : state[k] \in Seq(Token)
      BY <1>1, StateTexts
    <3>2. \A b \in DOMAIN Table : AreEntries(Table[b].start) /\ AreEntries(Table[b].end)
      BY StateAssumption
    <3> QED BY <3>1, <3>2, EntryIsMet DEF MetByAlternatives
  <2> QED BY <2>1, <2>2, <2>3 DEF EntriesHold
<1> QED BY <1>1, AlwaysScInv, PTL
=============================================================================
