----------------------------- MODULE ResultsProofs -----------------------------
(***************************************************************************)
(* Proofs about BootResults and SaveStack: for every number of pids, boot  *)
(* types and boots, whatever is killed and whenever, the results of a call *)
(* add up; whatever the parameters and values of the keyword, and wherever *)
(* a call is cut short, its teardown gives the globals back.               *)
(*                                                                         *)
(* The totals of a table are folds.  A fold takes the elements of a finite *)
(* set one by one; what it gives is proved by induction over the subsets   *)
(* of the set, and that from the least counterexample (WFMin).             *)
(***************************************************************************)
EXTENDS MCResults, FiniteSetTheorems, WellFoundedInduction, SequenceTheorems, TLAPS

(* A set of naturals that is not empty has a least element.                *)
LEMMA LeastNatural == ASSUME NEW T, T \subseteq Nat, T # {}
                      PROVE  \E n \in T : \A m \in T : ~(m < n)
<1>1. PICK x \in T : \A y \in T : ~(<<y, x>> \in OpToRel(<, Nat))
  BY NatLessThanWellFounded, WFMin
<1>2. \A y \in T : y < x => <<y, x>> \in OpToRel(<, Nat)
  BY DEF OpToRel
<1> QED BY <1>1, <1>2

(* The element of a set that a fold takes next.                            *)
Pick(s) == CHOOSE x \in s : TRUE

LEMMA PickIs == ASSUME NEW S, IsFiniteSet(S), NEW s \in SUBSET S, s # {}
                PROVE  /\ Pick(s) \in s /\ s \ {Pick(s)} \in SUBSET S
                       /\ Cardinality(s) \in Nat \ {0}
                       /\ Cardinality(s \ {Pick(s)}) = Cardinality(s) - 1
<1>1. Pick(s) \in s
  BY Zenon DEF Pick
<1>2. IsFiniteSet(s)
  BY FS_Subset
<1>3. Cardinality(s) \in Nat /\ Cardinality(s) # 0
  BY <1>2, FS_CardinalityType, FS_EmptySet
<1> QED BY <1>1, <1>2, <1>3, FS_RemoveElement

(* Induction over the subsets of a finite set, as the fold goes.           *)
LEMMA SubsetInduction ==
  ASSUME NEW S, IsFiniteSet(S), NEW Good, {} \in Good,
         \A s \in SUBSET S : s # {} /\ s \ {Pick(s)} \in Good => s \in Good
  PROVE  \A s \in SUBSET S : s \in Good
<1> SUFFICES ASSUME NEW bad \in SUBSET S, bad \notin Good PROVE FALSE
  OBVIOUS
<1> DEFINE T == {Cardinality(s) : s \in {t \in SUBSET S : t \notin Good}}
<1>1. T \subseteq Nat
  <2>1. \A s \in SUBSET S : Cardinality(s) \in Nat
    BY FS_Subset, FS_CardinalityType
  <2> QED BY <2>1
<1>2. T # {}
  OBVIOUS
<1>3. PICK n \in T : \A m \in T : ~(m < n)
  <2> HIDE DEF T
  <2> QED BY <1>1, <1>2, LeastNatural
<1>4. PICK s \in SUBSET S : s \notin Good /\ Cardinality(s) = n
  OBVIOUS
<1>5. s # {}
  BY <1>4
<1>6. s \ {Pick(s)} \in SUBSET S /\ Cardinality(s \ {Pick(s)}) < n
  BY <1>4, <1>5, PickIs
<1>7. s \ {Pick(s)} \in Good
  BY <1>3, <1>6
<1> QED BY <1>4, <1>5, <1>7

(* The sums of a function over the subsets of its domain.                  *)
SumsOf(v, S, g) ==
  \A s \in SUBSET S : g[s] = IF s = {} THEN 0 ELSE v[Pick(s)] + g[s \ {Pick(s)}]

UpTo(S, n) == {s \in SUBSET S : Cardinality(s) <= n}

SumsUpToExist(v, S, n) ==
  \E g \in [UpTo(S, n) -> Nat] :
    \A s \in UpTo(S, n) : g[s] = IF s = {} THEN 0 ELSE v[Pick(s)] + g[s \ {Pick(s)}]

(* There are partial sums for the subsets of up to n elements, by the least*)
(* n for which there would be none.                                        *)
LEMMA SumsUpTo ==
  ASSUME NEW S, IsFiniteSet(S), NEW v \in [S -> Nat], NEW n \in Nat
  PROVE  SumsUpToExist(v, S, n)
<1> USE DEF UpTo
<1> DEFINE Is(g, k) == \A s \in UpTo(S, k) : g[s] = IF s = {} THEN 0 ELSE v[Pick(s)] + g[s \ {Pick(s)}]
           T == {k \in Nat : ~ \E g \in [UpTo(S, k) -> Nat] : Is(g, k)}
<1>0. \A s \in SUBSET S : Cardinality(s) \in Nat /\ (Cardinality(s) = 0 <=> s = {})
  BY FS_Subset, FS_CardinalityType, FS_EmptySet
<1>1. ASSUME T # {} PROVE FALSE
  <2>1. PICK k \in T : \A m \in T : ~(m < k)
    BY <1>1, LeastNatural
  <2>2. k \in Nat /\ ~ \E g \in [UpTo(S, k) -> Nat] : Is(g, k)
    BY <2>1
  <2>3. CASE k = 0
    <3> DEFINE g == [s \in UpTo(S, 0) |-> 0]
    <3>1. UpTo(S, 0) = {{}}
      BY <1>0
    <3>2. g \in [UpTo(S, 0) -> Nat] /\ Is(g, 0)
      BY <3>1
    <3> QED BY <2>2, <2>3, <3>2
  <2>4. CASE k # 0
    <3>1. k - 1 \in Nat /\ k - 1 \notin T
      <4>1. k - 1 \in Nat /\ k - 1 < k
        BY <2>2, <2>4
      <4> HIDE DEF T
      <4> QED BY <4>1, <2>1
    <3>2. PICK g \in [UpTo(S, k - 1) -> Nat] : Is(g, k - 1)
      BY <3>1
    <3> DEFINE h == [s \in UpTo(S, k) |-> IF s = {} THEN 0 ELSE v[Pick(s)] + g[s \ {Pick(s)}]]
    <3>3. \A s \in UpTo(S, k) : s # {} => s \ {Pick(s)} \in UpTo(S, k - 1) /\ v[Pick(s)] \in Nat
      <4> TAKE s \in UpTo(S, k)
      <4> HAVE s # {}
      <4>1. Pick(s) \in s /\ s \ {Pick(s)} \in SUBSET S /\ Cardinality(s) \in Nat
            /\ Cardinality(s \ {Pick(s)}) = Cardinality(s) - 1
        BY PickIs
      <4> QED BY <4>1, <2>2
    <3>4. h \in [UpTo(S, k) -> Nat]
      BY <3>2, <3>3
    <3>5. \A s \in UpTo(S, k - 1) : s \in UpTo(S, k) /\ h[s] = g[s]
      <4>1. \A s \in UpTo(S, k - 1) : s \in UpTo(S, k)
        BY <1>0, <2>2
      <4> QED BY <3>2, <4>1
    <3>6. Is(h, k)
      <4> SUFFICES ASSUME NEW s \in UpTo(S, k)
                   PROVE  h[s] = IF s = {} THEN 0 ELSE v[Pick(s)] + h[s \ {Pick(s)}]
        OBVIOUS
      <4> QED BY <3>3, <3>5
    <3> QED BY <2>2, <3>4, <3>6
  <2> QED BY <2>3, <2>4
<1> QED BY <1>1 DEF SumsUpToExist

LEMMA SumsExist ==
  ASSUME NEW S, IsFiniteSet(S), NEW v \in [S -> Nat]
  PROVE  \E g \in [SUBSET S -> Nat] : SumsOf(v, S, g)
<1>1. PICK n \in Nat : n = Cardinality(S)
  BY FS_CardinalityType
<1>2. UpTo(S, n) = SUBSET S
  BY <1>1, FS_Subset DEF UpTo
<1>3. \E g \in [UpTo(S, n) -> Nat] :
        \A s \in UpTo(S, n) : g[s] = IF s = {} THEN 0 ELSE v[Pick(s)] + g[s \ {Pick(s)}]
  <2>1. SumsUpToExist(v, S, n)
    BY <1>1, SumsUpTo
  <2> QED BY <2>1 DEF SumsUpToExist
<1> QED BY <1>2, <1>3 DEF SumsOf

(* A sum is zero if everything is; two differ by what one element does.    *)
LEMMA SumsOfZeroes ==
  ASSUME NEW S, IsFiniteSet(S), NEW v, \A x \in S : v[x] = 0, NEW g, SumsOf(v, S, g)
  PROVE  g[S] = 0
<1> DEFINE Good == {s \in SUBSET S : g[s] = 0}
<1>1. {} \in Good
  BY DEF SumsOf
<1>2. ASSUME NEW s \in SUBSET S, s # {}, s \ {Pick(s)} \in Good PROVE s \in Good
  <2>1. g[s] = v[Pick(s)] + g[s \ {Pick(s)}] /\ Pick(s) \in S
    BY <1>2, PickIs DEF SumsOf
  <2> QED BY <1>2, <2>1
<1> HIDE DEF Good
<1>3. \A s \in SUBSET S : s \in Good
  BY <1>1, <1>2, SubsetInduction
<1> QED BY <1>3 DEF Good

DifferBy(v, w, S, c, k) == \A x \in S : w[x] = v[x] + (IF x = c THEN k ELSE 0)
SumsDifferBy(g, h, s, c, k) == h[s] = g[s] + (IF c \in s THEN k ELSE 0)

LEMMA SumsDiffer ==
  ASSUME NEW S, NEW v, NEW w, NEW c, NEW k, NEW g, NEW h,
         IsFiniteSet(S), v \in [S -> Nat], w \in [S -> Nat], k \in Nat,
         g \in [SUBSET S -> Nat], SumsOf(v, S, g), SumsOf(w, S, h), DifferBy(v, w, S, c, k)
  PROVE  SumsDifferBy(g, h, S, c, k)
<1> DEFINE Good == {s \in SUBSET S : h[s] = g[s] + (IF c \in s THEN k ELSE 0)}
<1>1. {} \in Good
  <2>1. g[{}] = 0 /\ h[{}] = 0
    BY DEF SumsOf
  <2> QED BY <2>1
<1>2. ASSUME NEW s \in SUBSET S, s # {}, s \ {Pick(s)} \in Good PROVE s \in Good
  <2>1. /\ g[s] = v[Pick(s)] + g[s \ {Pick(s)}] /\ h[s] = w[Pick(s)] + h[s \ {Pick(s)}]
        /\ Pick(s) \in s /\ Pick(s) \in S /\ s \ {Pick(s)} \in SUBSET S
    BY <1>2, PickIs DEF SumsOf
  <2> DEFINE x == Pick(s)
             r == s \ {x}
  <2>2. g[r] \in Nat /\ v[x] \in Nat /\ h[r] = g[r] + (IF c \in r THEN k ELSE 0)
    BY <1>2, <2>1
  <2>3. w[x] = v[x] + (IF x = c THEN k ELSE 0)
    BY <2>1 DEF DifferBy
  <2>4. c \in s <=> (c \in r \/ x = c)
    BY <2>1
  <2>5. ~(c \in r /\ x = c)
    OBVIOUS
  <2> HIDE DEF x, r
  <2>6. h[s] = g[s] + (IF c \in s THEN k ELSE 0)
    BY <2>1, <2>2, <2>3, <2>4, <2>5 DEF x, r
  <2> QED BY <2>6
<1> HIDE DEF Good
<1>3. \A s \in SUBSET S : s \in Good
  BY <1>1, <1>2, SubsetInduction
<1> QED BY <1>3 DEF Good, SumsDifferBy
-----------------------------------------------------------------------------
(* The sums of a field over the rows of a table.                           *)
Row == [total : Nat, pass : Nat, fail : Nat]
Field == {"total", "pass", "fail"}

LEMMA ColumnIsSum ==
  ASSUME NEW rows \in [Boot -> Row], NEW f \in Field
  PROVE  \E g \in [SUBSET Boot -> Nat] :
           SumsOf([b \in Boot |-> rows[b][f]], Boot, g) /\ Column(rows, f) = g[Boot]
<1> DEFINE v == [b \in Boot |-> rows[b][f]]
           Is(g) == g = [s \in SUBSET DOMAIN rows |->
                           IF s = {} THEN 0
                           ELSE rows[CHOOSE x \in s : TRUE][f] + g[s \ {CHOOSE x \in s : TRUE}]]
           iter == CHOOSE g : Is(g)
<1>1. DOMAIN rows = Boot /\ IsFiniteSet(Boot) /\ v \in [Boot -> Nat]
  BY ResultsAssumption DEF Row, Field
<1>2. PICK g \in [SUBSET Boot -> Nat] : SumsOf(v, Boot, g)
  BY <1>1, SumsExist
<1>3. \A s \in SUBSET Boot : s # {} => v[Pick(s)] = rows[Pick(s)][f]
  BY <1>1, PickIs
<1>4. Is(g)
  <2>1. \A s \in SUBSET Boot : g[s] = IF s = {} THEN 0 ELSE rows[Pick(s)][f] + g[s \ {Pick(s)}]
    BY <1>2, <1>3 DEF SumsOf
  <2>2. g = [s \in SUBSET Boot |-> IF s = {} THEN 0 ELSE rows[Pick(s)][f] + g[s \ {Pick(s)}]]
    BY <2>1
  <2> QED BY <2>2, <1>1 DEF Pick
<1>5. Is(iter)
  BY <1>4, Zenon
<1>6. \A s \in SUBSET Boot : iter[s] = IF s = {} THEN 0 ELSE rows[Pick(s)][f] + iter[s \ {Pick(s)}]
  BY <1>1, <1>5, Zenon DEF Pick
<1>7. Column(rows, f) = iter[Boot]
  BY <1>1 DEF Column, FoldFunction, FoldFunctionOnSet, MapThenFoldSet
<1> DEFINE Good == {s \in SUBSET Boot : iter[s] = g[s]}
<1>8. {} \in Good
  <2>1. iter[{}] = 0 /\ g[{}] = 0
    <3> HIDE DEF v, iter
    <3> QED BY <1>2, <1>6 DEF SumsOf
  <2> QED BY <2>1
<1>9. ASSUME NEW s \in SUBSET Boot, s # {}, s \ {Pick(s)} \in Good PROVE s \in Good
  <2>1. iter[s] = g[s]
    <3>1. iter[s \ {Pick(s)}] = g[s \ {Pick(s)}]
      BY <1>9
    <3> HIDE DEF v, iter
    <3> QED BY <3>1, <1>2, <1>3, <1>6, <1>9 DEF SumsOf
  <2> QED BY <2>1
<1>10. \A s \in SUBSET Boot : s \in Good
  <2> HIDE DEF Good
  <2> QED BY <1>1, <1>8, <1>9, SubsetInduction
<1>11. iter[Boot] = g[Boot]
  BY <1>10
<1> QED BY <1>2, <1>7, <1>11

LEMMA ColumnIsNatural == ASSUME NEW rows \in [Boot -> Row], NEW f \in Field
                         PROVE  Column(rows, f) \in Nat
<1>1. PICK g \in [SUBSET Boot -> Nat] : Column(rows, f) = g[Boot]
  BY ColumnIsSum
<1> QED BY <1>1

LEMMA ColumnOfZeroes == ASSUME NEW f \in Field
                        PROVE  Column([b \in Boot |-> Zero], f) = 0
<1> DEFINE rows == [b \in Boot |-> Zero]
<1>1. rows \in [Boot -> Row] /\ \A b \in Boot : rows[b][f] = 0
  BY DEF Zero, Row, Field
<1> DEFINE v == [b \in Boot |-> rows[b][f]]
<1> HIDE DEF rows
<1>3. PICK g : SumsOf(v, Boot, g) /\ Column(rows, f) = g[Boot]
  BY <1>1, ColumnIsSum
<1>4. \A b \in Boot : v[b] = 0
  BY <1>1
<1> HIDE DEF v
<1>5. g[Boot] = 0
  BY <1>3, <1>4, SumsOfZeroes, ResultsAssumption
<1> QED BY <1>3, <1>5 DEF rows

(* What a row gains in a field the column gains.                           *)
LEMMA ColumnGrows ==
  ASSUME NEW rows \in [Boot -> Row], NEW new \in [Boot -> Row], NEW f \in Field,
         NEW c \in Boot, NEW k \in Nat,
         \A b \in Boot : new[b][f] = rows[b][f] + (IF b = c THEN k ELSE 0)
  PROVE  Column(new, f) = Column(rows, f) + k
<1> DEFINE v == [b \in Boot |-> rows[b][f]]
           w == [b \in Boot |-> new[b][f]]
<1>1. v \in [Boot -> Nat] /\ w \in [Boot -> Nat]
  BY DEF Row, Field
<1>2. DifferBy(v, w, Boot, c, k)
  BY DEF DifferBy
<1>3. PICK g \in [SUBSET Boot -> Nat] : SumsOf(v, Boot, g) /\ Column(rows, f) = g[Boot]
  BY ColumnIsSum
<1>4. PICK h \in [SUBSET Boot -> Nat] : SumsOf(w, Boot, h) /\ Column(new, f) = h[Boot]
  BY ColumnIsSum
<1> HIDE DEF v, w
<1>5. SumsDifferBy(g, h, Boot, c, k)
  <2>1. IsFiniteSet(Boot)
    BY ResultsAssumption
  <2>2. SumsOf(v, Boot, g) /\ SumsOf(w, Boot, h)
    BY <1>3, <1>4
  <2>3. g \in [SUBSET Boot -> Nat]
    BY <1>3
  <2> QED BY <1>1, <1>2, <2>1, <2>2, <2>3, SumsDiffer
<1> QED BY <1>3, <1>4, <1>5 DEF SumsDifferBy
-----------------------------------------------------------------------------
(* The results that a process has, or a file: totals that fit the rows.    *)
Balanced(rows) == \A b \in Boot : rows[b].total = rows[b].pass + rows[b].fail
Table(r) ==
  /\ r = [rows |-> r.rows, totals_line |-> r.totals_line]
  /\ r.rows \in [Boot -> Row] /\ Balanced(r.rows)
  /\ r.totals_line = [total |-> Column(r.rows, "total"), pass |-> Column(r.rows, "pass"),
                      fail |-> Column(r.rows, "fail")]

LEMMA AddedUp == ASSUME NEW rows \in [Boot -> Row]
                 PROVE  AddUp(rows, Zero) = [total |-> Column(rows, "total"),
                                             pass |-> Column(rows, "pass"),
                                             fail |-> Column(rows, "fail")]
<1>1. /\ Column(rows, "total") \in Nat /\ Column(rows, "pass") \in Nat
      /\ Column(rows, "fail") \in Nat
  BY ColumnIsNatural DEF Field
<1> QED BY <1>1 DEF AddUp, Zero

LEMMA FreshIsTable == Table(Fresh)
<1> DEFINE rows == [b \in Boot |-> Zero]
<1>1. rows \in [Boot -> Row] /\ Balanced(rows)
  BY DEF Zero, Row, Balanced
<1>2. Column(rows, "total") = 0 /\ Column(rows, "pass") = 0 /\ Column(rows, "fail") = 0
  BY ColumnOfZeroes DEF Field
<1> HIDE DEF rows
<1>3. Fresh = [rows |-> rows, totals_line |-> [total |-> 0, pass |-> 0, fail |-> 0]]
  BY DEF Fresh, Zero, rows
<1> QED BY <1>1, <1>2, <1>3 DEF Table

(* What calc makes of a table it has made before is the same.              *)
LEMMA CalcMakesTable ==
  ASSUME NEW r, r.rows \in [Boot -> Row]
  PROVE  /\ Table(calc(r))
         /\ calc(r).rows = [b \in Boot |-> [r.rows[b] EXCEPT !.total = r.rows[b].pass + r.rows[b].fail]]
<1> DEFINE rows == [b \in Boot |-> [r.rows[b] EXCEPT !.total = r.rows[b].pass + r.rows[b].fail]]
<1>1. rows \in [Boot -> Row] /\ Balanced(rows)
  BY DEF Row, Balanced
<1>2. calc(r) = [rows |-> rows, totals_line |-> AddUp(rows, Zero)]
  BY DEF calc
<1> HIDE DEF rows
<1>3. Table(calc(r)) /\ calc(r).rows = rows
  BY <1>1, <1>2, AddedUp DEF Table
<1> QED BY <1>3 DEF rows

LEMMA CalcOfTable == ASSUME NEW r, Table(r)
                     PROVE  /\ calc(r).rows = r.rows
                            /\ total_pass(r) = Column(r.rows, "pass") + boot_pass
                            /\ total_fail(r) = Column(r.rows, "fail")
<1>1. r.rows \in [Boot -> Row] /\ Balanced(r.rows)
  BY DEF Table
<1>2. [b \in Boot |-> [r.rows[b] EXCEPT !.total = r.rows[b].pass + r.rows[b].fail]] = r.rows
  BY <1>1 DEF Row, Balanced
<1>3. Table(calc(r)) /\ calc(r).rows = r.rows
  BY <1>1, <1>2, CalcMakesTable
<1> QED BY <1>3 DEF Table, total_pass, total_fail

LEMMA ClassHasNoRows == ASSUME NEW b \in Boot, NEW r, r.rows \in [Boot -> Row]
                        PROVE  r # Class
<1>1. DOMAIN r.rows = Boot /\ DOMAIN Class.rows = {}
  BY DEF Class
<1> QED BY <1>1

LEMMA TableIsNoClass == ASSUME NEW r, Table(r) PROVE r # Class
<1>1. PICK b \in Boot : TRUE
  BY ResultsAssumption
<1> QED BY <1>1, ClassHasNoRows DEF Table

(* A boot is added to its own cell of the table and to the total.          *)
OneMore(rows, more, boot, status) == \A b \in Boot, s \in {"pass", "fail"} :
  more[b][s] = rows[b][s] + (IF b = boot /\ s = status THEN 1 ELSE 0)

LEMMA BootIsCounted ==
  ASSUME NEW r, Table(r), NEW boot \in Boot, NEW status \in {"pass", "fail"}
  PROVE  LET new == calc(inc_row_field(r, boot, status))
         IN /\ Table(new) /\ new # Class
            /\ OneMore(r.rows, new.rows, boot, status)
            /\ Column(new.rows, "fail") = Column(r.rows, "fail") + (IF status = "fail" THEN 1 ELSE 0)
<1> DEFINE in == inc_row_field(r, boot, status)
           new == calc(in)
<1>0. r.rows \in [Boot -> Row] /\ r = [rows |-> r.rows, totals_line |-> r.totals_line]
  BY DEF Table
<1>1. in.rows = [r.rows EXCEPT ![boot] = [r.rows[boot] EXCEPT ![status] = r.rows[boot][status] + 1]]
  <2>1. in = [r EXCEPT !.rows = [r.rows EXCEPT ![boot] = [r.rows[boot] EXCEPT ![status] = r.rows[boot][status] + 1]]]
    BY DEF inc_row_field
  <2> HIDE DEF in
  <2> QED BY <2>1, <1>0
<1>2. /\ in.rows \in [Boot -> Row]
      /\ \A b \in Boot, s \in {"pass", "fail"} :
           in.rows[b][s] = r.rows[b][s] + (IF b = boot /\ s = status THEN 1 ELSE 0)
  <2> HIDE DEF in
  <2>1. CASE status = "pass"
    BY <1>0, <1>1, <2>1 DEF Row
  <2>2. CASE status = "fail"
    BY <1>0, <1>1, <2>2 DEF Row
  <2> QED BY <2>1, <2>2
<1> HIDE DEF in
<1>3. /\ Table(new) 
      /\ new.rows = [b \in Boot |-> [in.rows[b] EXCEPT !.total = in.rows[b].pass + in.rows[b].fail]]
  BY <1>2, CalcMakesTable
<1> HIDE DEF new
<1>4. new.rows \in [Boot -> Row] /\ \A b \in Boot, s \in {"pass", "fail"} : new.rows[b][s] = in.rows[b][s]
  BY <1>2, <1>3 DEF Row
<1>5. new # Class
  BY <1>4, ClassHasNoRows
<1>6. Column(new.rows, "fail") = Column(r.rows, "fail") + (IF status = "fail" THEN 1 ELSE 0)
  <2> DEFINE k == IF status = "fail" THEN 1 ELSE 0
  <2>1. k \in Nat /\ \A b \in Boot : new.rows[b]["fail"] = r.rows[b]["fail"] + (IF b = boot THEN k ELSE 0)
    BY <1>2, <1>4
  <2> HIDE DEF k
  <2>2. Column(new.rows, "fail") = Column(r.rows, "fail") + k
    <3>1. "fail" \in Field
      BY DEF Field
    <3>2. r.rows \in [Boot -> Row] /\ new.rows \in [Boot -> Row]
      BY <1>0, <1>4
    <3> QED BY <2>1, <3>1, <3>2, ColumnGrows
  <2> QED BY <2>2 DEF k
<1>7. OneMore(r.rows, new.rows, boot, status)
  BY <1>2, <1>4 DEF OneMore
<1> QED BY <1>3, <1>5, <1>6, <1>7 DEF new, in
-----------------------------------------------------------------------------
Outcome == Boot \X {"pass", "fail"}

(* How many of a sequence are in a set, and one more.                      *)
HowMany(all, T) == Cardinality({i \in DOMAIN all : all[i] \in T})

LEMMA HowManyNone == ASSUME NEW T PROVE HowMany(<<>>, T) = 0
<1>1. {i \in DOMAIN <<>> : <<>>[i] \in T} = {}
  OBVIOUS
<1> QED BY <1>1, FS_EmptySet DEF HowMany

LEMMA HowManyMore ==
  ASSUME NEW all \in Seq(Outcome), NEW x \in Outcome, NEW T
  PROVE  /\ HowMany(all, T) \in Nat
         /\ HowMany(Append(all, x), T) = HowMany(all, T) + (IF x \in T THEN 1 ELSE 0)
<1> DEFINE more == Append(all, x)
           I == {i \in DOMAIN all : all[i] \in T}
           J == {i \in DOMAIN more : more[i] \in T}
           n == Len(all) + 1
<1>1. /\ Len(all) \in Nat /\ DOMAIN all = 1..Len(all) /\ DOMAIN more = 1..n
      /\ more[n] = x /\ \A i \in 1..Len(all) : more[i] = all[i]
  BY AppendProperties
<1>2. IsFiniteSet(I) /\ Cardinality(I) \in Nat
  <2>1. I \in SUBSET (1..Len(all)) /\ IsFiniteSet(1..Len(all))
    BY <1>1, FS_Interval
  <2> HIDE DEF I
  <2> QED BY <2>1, FS_Subset, FS_CardinalityType
<1>3. n \notin I
  BY <1>1
<1>4. CASE x \in T
  <2>1. J = I \cup {n}
    <3> HIDE DEF more
    <3> QED BY <1>1, <1>4
  <2>2. Cardinality(J) = Cardinality(I) + 1
    <3> HIDE DEF I, J, n
    <3> QED BY <1>2, <1>3, <2>1, FS_AddElement
  <2> QED BY <1>2, <1>4, <2>2 DEF HowMany
<1>5. CASE x \notin T
  <2>1. J = I
    <3> HIDE DEF more
    <3> QED BY <1>1, <1>5
  <2>2. HowMany(all, T) = Cardinality(I) /\ HowMany(more, T) = Cardinality(J)
    BY DEF HowMany
  <2> HIDE DEF I, J, more
  <2> QED BY <1>2, <1>5, <2>1, <2>2 DEF more
<1> QED BY <1>4, <1>5

Times(all, b, s) == HowMany(all, {<<b, s>>})
Failures(all) == HowMany(all, {x \in Outcome : x[2] = "fail"})

(* The history after a message is the last of the longer one.              *)
Recent(all) ==
  LET n == IF Len(all) < max_boot_history THEN Len(all) ELSE max_boot_history
  IN [i \in 1..n |-> all[Len(all) - n + i]]

LEMMA RecentOfNone == Recent(<<>>) = <<>>
<1>1. max_boot_history \in Nat /\ Len(<<>>) = 0
  BY ResultsAssumption
<1>2. Recent(<<>>) = [i \in 1..0 |-> <<>>[Len(<<>>) - 0 + i]]
  BY <1>1 DEF Recent
<1> QED BY <1>2

(* update_boot_history keeps the most recent of all messages.              *)
LEMMA RecentIsUpdated ==
  ASSUME NEW all \in Seq(Message), NEW x \in Message
  PROVE  update_boot_history(Recent(all), x) = Recent(Append(all, x))
<1> DEFINE more == Append(all, x)
           m == max_boot_history
           k == Len(all)
           n == IF k < m THEN k ELSE m
           h == Recent(all)
           longer == Append(h, x)
<1>0. m \in Nat /\ k \in Nat /\ n \in Nat /\ n <= k /\ n <= m
  BY ResultsAssumption
<1>2. /\ Len(more) = k + 1 /\ more[k + 1] = x
      /\ \A i \in 1..k : more[i] = all[i] /\ all[i] \in Message
  BY AppendProperties, ElementOfSeq
<1>3. h = [i \in 1..n |-> all[k - n + i]]
  BY DEF Recent
<1>4. h \in Seq(Message) /\ Len(h) = n
  <2>1. \A i \in 1..n : k - n + i \in 1..k
    BY <1>0
  <2>2. \A i \in 1..n : all[k - n + i]\in Message
    BY <1>2, <2>1
  <2>3. h \in [1..n -> Message]
    <3> HIDE DEF n, k, h
    <3> QED BY <1>3, <2>2
  <2> HIDE DEF n, k, h
  <2> QED BY <1>0, <2>3, LenProperties, SeqDef
<1>5. /\ longer \in Seq(Message) /\ Len(longer) = n + 1 /\ longer[n + 1] = x
      /\ \A i \in 1..n : longer[i] = all[k - n + i]
  <2> HIDE DEF n, k, h
  <2>1. \A i \in 1..n : h[i] = all[k - n + i]
    BY <1>3
  <2> QED BY <1>0, <1>4, <2>1, AppendProperties
<1>6. CASE n < m
  <2>1. n = k /\ k < m
    BY <1>0, <1>6
  <2>2. update_boot_history(h, x) = longer
    <3>1. ~(Len(longer) - m > 0)
      <4> HIDE DEF n, longer, m
      <4> QED BY <1>0, <1>5, <1>6
    <3> HIDE DEF h
    <3> QED BY <3>1 DEF update_boot_history
  <2>3. Recent(more) = [i \in 1..(k + 1) |-> more[i]]
    <3> DEFINE l == IF Len(more) < m THEN Len(more) ELSE m
    <3>1. l = k + 1
      <4> HIDE DEF n, more, m, k
      <4> QED BY <1>0, <1>2, <2>1
    <3>2. Recent(more) = [i \in 1..l |-> more[Len(more) - l + i]]
      BY DEF Recent
    <3>3. \A i \in 1..l : Len(more) - l + i = i
      <4> HIDE DEF l, more, k
      <4> QED BY <3>1, <1>0, <1>2
    <3> HIDE DEF l, more, k
    <3> QED BY <3>1, <3>2, <3>3
  <2>4. \A i \in 1..(k + 1) : longer[i] = more[i]
    <3> SUFFICES ASSUME NEW i \in 1..(k + 1) PROVE longer[i] = more[i]
      OBVIOUS
    <3> HIDE DEF n, k, longer, more
    <3>1. CASE i = k + 1
      BY <3>1, <1>2, <1>5, <2>1
    <3>2. CASE i # k + 1
      <4>1. i \in 1..k /\ k - n + i = i
        BY <3>2, <1>0, <2>1
      <4> QED BY <4>1, <1>2, <1>5, <2>1
    <3> QED BY <3>1, <3>2
  <2>5. longer = [i \in 1..(k + 1) |-> more[i]]
    <3> HIDE DEF n, k, longer, more
    <3> QED BY <1>0, <1>5, <2>1, <2>4
  <2> QED BY <2>2, <2>3, <2>5
<1>7. CASE n = m
  <2>1. m <= k
    BY <1>0, <1>7
  <2>2. update_boot_history(h, x) = SubSeq(longer, 2, n + 1)
    <3>1. Len(longer) - m = 1 /\ Len(longer) = n + 1
      <4> HIDE DEF n, longer, m
      <4> QED BY <1>0, <1>5, <1>7
    <3> HIDE DEF h, n
    <3> QED BY <3>1 DEF update_boot_history
  <2>3. Recent(more) = [i \in 1..n |-> more[k + 1 - n + i]]
    <3> DEFINE l == IF Len(more) < m THEN Len(more) ELSE m
    <3>1. l = n /\ Len(more) = k + 1
      <4> HIDE DEF n, more, m, k
      <4> QED BY <1>0, <1>2, <1>7, <2>1
    <3>2. Recent(more) = [i \in 1..l |-> more[Len(more) - l + i]]
      BY DEF Recent
    <3>3. \A i \in 1..n : Len(more) - l + i = k + 1 - n + i
      <4> HIDE DEF l, more, k, n, m, h
      <4> QED BY <3>1, <1>0
    <3> HIDE DEF l, more, k, n
    <3>4. Recent(more) = [i \in 1..n |-> more[Len(more) - l + i]]
      BY <3>1, <3>2
    <3> QED BY <3>3, <3>4
  <2>4. \A i \in 1..n : longer[i + 1] = more[k + 1 - n + i]
    <3> SUFFICES ASSUME NEW i \in 1..n PROVE longer[i + 1] = more[k + 1 - n + i]
      OBVIOUS
    <3> HIDE DEF n, k, longer, more
    <3>1. CASE i = n
      <4>1. k + 1 - n + i = k + 1
        BY <3>1, <1>0
      <4> QED BY <3>1, <4>1, <1>2, <1>5
    <3>2. CASE i # n
      <4>1. i + 1 \in 1..n /\ k - n + (i + 1) = k + 1 - n + i /\ k + 1 - n + i \in 1..k
        BY <3>2, <1>0
      <4> QED BY <4>1, <1>2, <1>5
    <3> QED BY <3>1, <3>2
  <2>5. SubSeq(longer, 2, n + 1) = [i \in 1..n |-> longer[i + 1]]
    <3> DEFINE c == SubSeq(longer, 2, n + 1)
    <3>1. c \in Seq(Message) /\ Len(c) = n /\ \A i \in 1..n : c[i] = longer[2 + i - 1]
      <4> HIDE DEF n, longer
      <4> QED BY <1>0, <1>5, SubSeqProperties
    <3>2. \A i \in 1..n : 2 + i - 1 = i + 1
      OBVIOUS
    <3> HIDE DEF c, n, longer
    <3> QED BY <3>1, <3>2, <1>0
  <2> HIDE DEF longer, more, n, k
  <2> QED BY <2>2, <2>3, <2>4, <2>5 DEF more
<1> QED BY <1>0, <1>6, <1>7
-----------------------------------------------------------------------------
(* What a file or a process has after the boots of a sequence and what was *)
(* announced.                                                              *)
Fits(r, h, all, told) ==
  /\ Table(r) /\ h = Recent(told)
  /\ \A b \in Boot, s \in {"pass", "fail"} : r.rows[b][s] = Times(all, b, s)

Whole(f) == f # NoFile /\ f # Torn

RTypeOK ==
  /\ phase \in {"none", "idle", "call", "saving", "raised"}
  /\ phase # "none" => master_pid \in Pid
  /\ kept \in [Pid -> Seq(Outcome)] /\ done \in Seq(Outcome)
  /\ kept_messages \in [Pid -> Seq(Message)] /\ messages \in Seq(Message)
  /\ booting = "none" \/ booting \in Boot
  /\ boot_results = Class \/ Table(boot_results)
  /\ boot_results = Class => boot_history = <<>>
  /\ file = [p \in Pid |-> file[p]]
  /\ \A p \in Pid : Whole(file[p]) => /\ file[p][1] = Class \/ Table(file[p][1])
                                      /\ file[p][1] = Class => file[p][2] = <<>>

(* A master that runs and whose pid has no file of an older one.           *)
MasterIsSafe == master_pid \in active /\ master_pid \notin stale

(* Its file is of the calls that were saved; if there is none, none was.   *)
FilesFit == \A p \in Pid : p \in active /\ p \notin stale =>
  /\ file[p] = NoFile => kept[p] = <<>> /\ kept_messages[p] = <<>>
  /\ Whole(file[p]) /\ file[p][1] # Class =>
       Fits(file[p][1], file[p][2], kept[p], kept_messages[p])

(* A process has results of its own between calls only if its last call    *)
(* has written them, and none when a call has raised.                      *)
IdleHasFile ==
  phase = "idle" /\ MasterIsSafe /\ boot_results # Class => Whole(file[master_pid])
RaisedHasNone == phase = "raised" /\ MasterIsSafe => boot_results = Class

(* In a call, and while it is saved, they are of all the boots.            *)
Counting ==
  \/ phase = "call" /\ master_pid \notin stale
  \/ phase = "saving" /\ MasterIsSafe /\ boot_results # Class
CallFits == Counting =>
  Fits(boot_results, boot_history, OfThisMaster, Announced)

(* The failures are those the call has begun with and its own.             *)
CallCounts == phase = "call" =>
  /\ Table(boot_results)
  /\ init_boot_fail \in Nat
  /\ Column(boot_results.rows, "fail") = init_boot_fail + Failures(done)
  /\ verdict # "none" => (verdict = "over" <=> Failures(done) > boot_fail_threshold)

RInv ==
  /\ RTypeOK /\ FilesFit /\ IdleHasFile /\ RaisedHasNone /\ CallFits /\ CallCounts
  /\ CallStarts

LEMMA WholeFiles == NoFile # Torn /\ \A r, h : Whole(<<r, h>>) /\ <<r, h>>[1] = r /\ <<r, h>>[2] = h
BY DEF NoFile, Torn, Whole

LEMMA Nothing == /\ <<>> \in Seq(Outcome) /\ \A all \in Seq(Outcome) : all \o <<>> = all
                 /\ <<>> \in Seq(Message) /\ \A all \in Seq(Message) : all \o <<>> = all
BY EmptySeq, ConcatEmptySeq

LEMMA NothingFits == Fits(Fresh, <<>>, <<>>, <<>>)
<1>1. \A b \in Boot, s \in {"pass", "fail"} : Fresh.rows[b][s] = 0
  BY DEF Fresh, Zero
<1>2. \A b \in Boot, s \in {"pass", "fail"} : Times(<<>>, b, s) = 0
  BY HowManyNone DEF Times
<1> QED BY <1>1, <1>2, FreshIsTable, RecentOfNone DEF Fits

LEMMA ResultsStart == RInit => RInv
<1> SUFFICES ASSUME RInit PROVE RInv
  OBVIOUS
<1>1. /\ phase = "none" /\ active = {} /\ boot_results = Class /\ boot_history = <<>>
      /\ file = [p \in Pid |-> NoFile] /\ kept = [p \in Pid |-> <<>>] /\ done = <<>>
      /\ kept_messages = [p \in Pid |-> <<>>] /\ messages = <<>> /\ booting = "none"
  BY DEF RInit
<1>2. RTypeOK
  BY <1>1, Nothing DEF RTypeOK, Whole
<1>3. FilesFit
  BY <1>1 DEF FilesFit
<1> QED BY <1>1, <1>2, <1>3 DEF RInv, IdleHasFile, RaisedHasNone, CallFits, Counting, CallCounts, CallStarts

(* A process begins to live: under its pid there is nothing, or it is      *)
(* known that there is.                                                    *)
SameMaster(p) == p # master_pid =>
  (master_pid \in active' <=> master_pid \in active) /\ (master_pid \in stale' <=> master_pid \in stale)

LEMMA LivesSafely ==
  ASSUME RTypeOK, FilesFit, NEW p \in Pid, Lives(p), file' = file
  PROVE  /\ FilesFit' /\ kept' \in [Pid -> Seq(Outcome)] /\ kept_messages' \in [Pid -> Seq(Message)]
         /\ p = master_pid => master_pid \in stale'
         /\ SameMaster(p)
         /\ \A q \in Pid : q # p => kept'[q] = kept[q] /\ kept_messages'[q] = kept_messages[q]
<1>1. /\ active' = active \cup {p} /\ kept' = [kept EXCEPT ![p] = <<>>]
      /\ kept_messages' = [kept_messages EXCEPT ![p] = <<>>]
      /\ kept \in [Pid -> Seq(Outcome)] /\ kept_messages \in [Pid -> Seq(Message)]
  BY DEF Lives, RTypeOK
<1>2. /\ file[p] = NoFile /\ p # master_pid => stale' = stale \ {p}
      /\ ~(file[p] = NoFile /\ p # master_pid) => stale' = stale \cup {p}
  BY DEF Lives
<1>3. /\ kept' \in [Pid -> Seq(Outcome)] /\ kept_messages' \in [Pid -> Seq(Message)]
      /\ kept'[p] = <<>> /\ kept_messages'[p] = <<>>
      /\ \A q \in Pid : q # p => kept'[q] = kept[q] /\ kept_messages'[q] = kept_messages[q]
  BY <1>1, Nothing
<1>4. p = master_pid => master_pid \in stale'
  BY <1>2
<1>5. SameMaster(p)
  BY <1>1, <1>2 DEF SameMaster
<1>6. FilesFit'
  <2> SUFFICES ASSUME NEW q \in Pid, q \in active', q \notin stale'
               PROVE  /\ file[q] = NoFile => kept'[q] = <<>> /\ kept_messages'[q] = <<>>
                      /\ Whole(file[q]) /\ file[q][1] # Class =>
                           Fits(file[q][1], file[q][2], kept'[q], kept_messages'[q])
    BY DEF FilesFit, Fits, Whole
  <2>1. CASE q = p
    <3>1. file[q] = NoFile
      BY <1>2, <2>1
    <3> QED BY <3>1, <2>1, <1>3 DEF Whole
  <2>2. CASE q # p
    <3>1. q \in active /\ q \notin stale
      BY <1>1, <1>2, <2>2
    <3> QED BY <3>1, <2>2, <1>3 DEF FilesFit
  <2> QED BY <2>1, <2>2
<1> QED BY <1>3, <1>4, <1>5, <1>6, Zenon

LEMMA MasterBeginsSafely == ASSUME RInv, NEW p \in Pid, MasterBegins(p) PROVE RInv'
<1>1. /\ Lives(p)
      /\ UNCHANGED <<phase, master_pid, boot_results, boot_history, init_boot_fail, booting, file,
                     verdict, done, messages>>
  BY DEF MasterBegins, results, progress
<1>2. /\ FilesFit' /\ kept' \in [Pid -> Seq(Outcome)] /\ kept_messages' \in [Pid -> Seq(Message)]
      /\ p = master_pid => master_pid \in stale'
      /\ SameMaster(p)
      /\ \A q \in Pid : q # p => kept'[q] = kept[q] /\ kept_messages'[q] = kept_messages[q]
  BY <1>1, LivesSafely DEF RInv
<1>3. RTypeOK'
  BY <1>1, <1>2 DEF RInv, RTypeOK, Table, Whole
<1>4. IdleHasFile' /\ RaisedHasNone' /\ CallStarts'
  BY <1>1, <1>2 DEF RInv, IdleHasFile, RaisedHasNone, MasterIsSafe, SameMaster, CallStarts, Whole
<1>5. CallFits'
  <2> SUFFICES ASSUME Counting' PROVE Fits(boot_results, boot_history, OfThisMaster', Announced')
    BY <1>1 DEF CallFits, Fits
  <2>1. master_pid # p /\ Counting /\ master_pid \in Pid
    BY <1>1, <1>2 DEF Counting, MasterIsSafe, SameMaster, RInv, RTypeOK
  <2>2. OfThisMaster' = OfThisMaster /\ Announced' = Announced
    BY <1>1, <1>2, <2>1 DEF OfThisMaster, Announced
  <2> QED BY <2>1, <2>2 DEF RInv, CallFits
<1>6. CallCounts'
  BY <1>1 DEF RInv, CallCounts, Table
<1> QED BY <1>2, <1>3, <1>4, <1>5, <1>6 DEF RInv

LEMMA MasterEndsSafely == ASSUME RInv, NEW p \in Pid, MasterEnds(p) PROVE RInv'
<1>1. /\ active' = active \ {p}
      /\ UNCHANGED <<phase, master_pid, boot_results, boot_history, init_boot_fail, booting, file,
                     verdict, done, kept, messages, kept_messages, stale>>
  BY DEF MasterEnds, results, progress, accounts
<1>2. RTypeOK'
  BY <1>1 DEF RInv, RTypeOK, Table, Whole
<1>3. FilesFit'
  BY <1>1 DEF RInv, FilesFit, Fits, Whole
<1>4. IdleHasFile' /\ RaisedHasNone' /\ CallStarts'
  BY <1>1 DEF RInv, IdleHasFile, RaisedHasNone, MasterIsSafe, CallStarts, Whole
<1>5. CallFits'
  <2>1. OfThisMaster' = OfThisMaster /\ Announced' = Announced /\ (Counting' => Counting)
    BY <1>1 DEF Counting, MasterIsSafe, OfThisMaster, Announced
  <2> QED BY <1>1, <2>1 DEF RInv, CallFits, Fits
<1>6. CallCounts'
  BY <1>1 DEF RInv, CallCounts, Table
<1> QED BY <1>2, <1>3, <1>4, <1>5, <1>6 DEF RInv

LEMMA ProcessBeginsSafely == ASSUME RInv, NEW p \in Pid, NEW m \in Pid, ProcessBegins(p, m) PROVE RInv'
<1>1. /\ Lives(p) /\ file' = file /\ phase' = "idle" /\ master_pid' = m
      /\ boot_results' = Class /\ boot_history' = <<>> /\ done' = <<>> /\ messages' = <<>>
      /\ booting' = booting
  BY DEF ProcessBegins, progress
<1>2. FilesFit' /\ kept' \in [Pid -> Seq(Outcome)] /\ kept_messages' \in [Pid -> Seq(Message)]
  BY <1>1, LivesSafely DEF RInv
<1>3. RTypeOK'
  BY <1>1, <1>2, Nothing DEF RInv, RTypeOK, Table, Whole
<1> QED BY <1>1, <1>2, <1>3
        DEF RInv, IdleHasFile, RaisedHasNone, CallStarts, CallFits, Counting, CallCounts

LEMMA ProcessEndsSafely == ASSUME RInv, ProcessEnds PROVE RInv'
<1>1. /\ phase' = "none" /\ active' \subseteq active /\ UNCHANGED <<file, kept, kept_messages, stale>>
      /\ boot_results' = Class /\ boot_history' = <<>> /\ done' = <<>> /\ messages' = <<>>
      /\ booting' = "none"
  BY DEF ProcessEnds
<1>2. RTypeOK'
  BY <1>1, Nothing DEF RInv, RTypeOK, Table, Whole
<1>3. FilesFit'
  BY <1>1 DEF RInv, FilesFit, Fits, Whole
<1> QED BY <1>1, <1>2, <1>3
        DEF RInv, IdleHasFile, RaisedHasNone, CallStarts, CallFits, Counting, CallCounts

(* A call begins with what the file has of the calls before it, or with    *)
(* nothing, or raises.                                                     *)
LEMMA CallSafely == ASSUME RInv, Call PROVE RInv'
<1> DEFINE own == cleaned_up[master_pid]
<1>0. /\ RTypeOK /\ phase = "idle" /\ master_pid \in Pid /\ kept \in [Pid -> Seq(Outcome)]
      /\ kept_messages \in [Pid -> Seq(Message)]
      /\ UNCHANGED <<active, master_pid, stale>>
  BY DEF Call, Begins, RInv, RTypeOK
<1>1. /\ file' = [p \in Pid |-> IF p \in active THEN file[p] ELSE NoFile]
      /\ kept' = [p \in Pid |-> IF p \in active THEN kept[p] ELSE <<>>]
      /\ kept_messages' = [p \in Pid |-> IF p \in active THEN kept_messages[p] ELSE <<>>]
      /\ done' = <<>> /\ messages' = <<>> /\ verdict' = "none" /\ booting' = "none"
  BY DEF Call, Begins, cleaned_up
<1>2. /\ own = IF master_pid \in active THEN file[master_pid] ELSE NoFile
      /\ file'[master_pid] = own
  BY <1>0, <1>1 DEF cleaned_up
<1>3. /\ kept' \in [Pid -> Seq(Outcome)]
      /\ kept'[master_pid] = IF master_pid \in active THEN kept[master_pid] ELSE <<>>
      /\ OfThisMaster' = kept'[master_pid] /\ done' \in Seq(Outcome)
      /\ kept_messages' \in [Pid -> Seq(Message)]
      /\ kept_messages'[master_pid] = IF master_pid \in active THEN kept_messages[master_pid] ELSE <<>>
      /\ Announced' = kept_messages'[master_pid] /\ messages' \in Seq(Message)
  <2>1. kept' \in [Pid -> Seq(Outcome)]
    BY <1>0, <1>1, Nothing
  <2>2. OfThisMaster' = kept'[master_pid] \o <<>>
    BY <1>0, <1>1 DEF OfThisMaster
  <2>3. kept_messages' \in [Pid -> Seq(Message)]
    BY <1>0, <1>1, Nothing
  <2>4. Announced' = kept_messages'[master_pid] \o <<>>
    BY <1>0, <1>1 DEF Announced
  <2> QED BY <1>0, <1>1, <2>1, <2>2, <2>3, <2>4, Nothing
<1>4. FilesFit'
  <2> SUFFICES ASSUME NEW q \in Pid, q \in active, q \notin stale
               PROVE  /\ file'[q] = NoFile => kept'[q] = <<>> /\ kept_messages'[q] = <<>>
                      /\ Whole(file'[q]) /\ file'[q][1] # Class =>
                           Fits(file'[q][1], file'[q][2], kept'[q], kept_messages'[q])
    BY <1>0 DEF FilesFit, Fits, Whole
  <2>1. file'[q] = file[q] /\ kept'[q] = kept[q] /\ kept_messages'[q] = kept_messages[q]
    BY <1>1
  <2> QED BY <2>1 DEF RInv, FilesFit
<1>5. \A p \in Pid : Whole(file'[p]) => file'[p] = file[p]
  BY <1>1 DEF Whole
<1>6. /\ file' = [p \in Pid |-> file'[p]]
      /\ \A p \in Pid : Whole(file'[p]) =>
           (file'[p][1] = Class \/ Table(file'[p][1])) /\ (file'[p][1] = Class => file'[p][2] = <<>>)
  BY <1>0, <1>1, <1>5 DEF RTypeOK
<1>7. ASSUME phase' = "call", Table(boot_results'), init_boot_fail' = total_fail(boot_results'),
             boot_results' = Class => boot_history' = <<>>,
             master_pid \notin stale => Fits(boot_results', boot_history', kept'[master_pid], kept_messages'[master_pid])
      PROVE  RInv'
  <2>1. RTypeOK'
    BY <1>0, <1>1, <1>3, <1>6, <1>7 DEF RTypeOK, Table, Whole
  <2>2. CallFits'
    BY <1>0, <1>3, <1>7 DEF CallFits, Counting, Fits
  <2>3. CallCounts'
    <3>1. boot_results'.rows \in [Boot -> Row]
      BY <1>7 DEF Table
    <3>2. Column(boot_results'.rows, "fail") \in Nat
      BY <3>1, ColumnIsNatural DEF Field
    <3>3. init_boot_fail' = Column(boot_results'.rows, "fail")
      BY <1>7, CalcOfTable
    <3>4. Failures(done') = 0
      BY <1>1, HowManyNone DEF Failures
    <3> QED BY <1>1, <1>7, <3>2, <3>3, <3>4 DEF CallCounts, Table, Failures, HowMany
  <2> QED BY <1>4, <1>7, <2>1, <2>2, <2>3 DEF RInv, IdleHasFile, RaisedHasNone, CallStarts
<1>8. ASSUME phase' = "raised", boot_results' = Class \/ Table(boot_results'),
             boot_results' = Class => boot_history' = <<>>,
             MasterIsSafe => boot_results' = Class, CallStarts'
      PROVE  RInv'
  <2>1. RTypeOK'
    BY <1>0, <1>1, <1>3, <1>6, <1>8 DEF RTypeOK, Table, Whole
  <2> QED BY <1>0, <1>4, <1>8, <2>1
          DEF RInv, IdleHasFile, RaisedHasNone, MasterIsSafe, CallFits, Counting, CallCounts
<1>9. CASE Whole(own)
  <2>1. /\ boot_results' = own[1] /\ boot_history' = own[2]
        /\ phase' = IF own[1] = Class THEN "raised" ELSE "call"
        /\ phase' = "call" => init_boot_fail' = total_fail(boot_results')
    BY <1>9 DEF Call, Whole
  <2>2. master_pid \in active /\ own = file[master_pid]
    BY <1>2, <1>9 DEF Whole
  <2>3. /\ own[1] = Class \/ Table(own[1])
        /\ own[1] = Class => own[2] = <<>>
        /\ master_pid \notin stale /\ own[1] # Class =>
             Fits(own[1], own[2], kept[master_pid], kept_messages[master_pid])
    BY <1>0, <1>9, <2>2 DEF RTypeOK, RInv, FilesFit
  <2> HIDE DEF own
  <2>4. CASE own[1] = Class
    <3>1. CallStarts'
      BY <1>0, <1>2, <1>9, <2>1, <2>4 DEF CallStarts, Whole
    <3> QED BY <1>8, <2>1, <2>3, <2>4, <3>1
  <2>5. CASE own[1] # Class
    BY <1>3, <1>7, <2>1, <2>2, <2>3, <2>5
  <2> QED BY <2>4, <2>5
<1>10. CASE own = NoFile /\ boot_results = Class
  <2>1. /\ boot_results' = Fresh /\ boot_history' = boot_history /\ phase' = "call"
        /\ init_boot_fail' = total_fail(boot_results')
    BY <1>10, WholeFiles DEF Call
  <2>2. boot_history = <<>>
    BY <1>0, <1>10 DEF RTypeOK
  <2>3. master_pid \notin stale => kept'[master_pid] = <<>> /\ kept_messages'[master_pid] = <<>>
    BY <1>0, <1>2, <1>3, <1>10 DEF RInv, FilesFit
  <2>4. Table(Fresh) /\ (master_pid \notin stale => Fits(Fresh, <<>>, kept'[master_pid], kept_messages'[master_pid]))
    BY <2>3, NothingFits, FreshIsTable
  <2> HIDE DEF own
  <2> QED BY <1>7, <2>1, <2>2, <2>4
<1>11. CASE own = Torn \/ (own = NoFile /\ boot_results # Class)
  <2>1. UNCHANGED <<boot_results, boot_history>> /\ phase' = "raised"
    BY <1>11, WholeFiles DEF Call
  <2>2. MasterIsSafe => boot_results = Class
    BY <1>0, <1>2, <1>11 DEF RInv, IdleHasFile, MasterIsSafe, Whole
  <2>3. CallStarts'
    <3>1. CASE own = Torn
      BY <1>2, <1>0, <3>1 DEF CallStarts
    <3>2. CASE own # Torn
      <4>1. boot_results # Class
        BY <1>11, <3>2
      <4>2. ~MasterIsSafe
        BY <2>2, <4>1
      <4> QED BY <1>0, <4>2 DEF CallStarts, MasterIsSafe
    <3> QED BY <3>1, <3>2
  <2>4. /\ boot_results = Class \/ Table(boot_results)
        /\ boot_results = Class => boot_history = <<>>
    BY <1>0 DEF RTypeOK
  <2> HIDE DEF own
  <2> QED BY <1>8, <2>1, <2>2, <2>3, <2>4
<1> QED BY <1>9, <1>10, <1>11 DEF Whole

LEMMA AppendAfter ==
  ASSUME NEW one \in Seq(Outcome), NEW two \in Seq(Outcome), NEW x \in Outcome
  PROVE  one \o Append(two, x) = Append(one \o two, x)
<1>1. Append(two, x) = two \o <<x>> /\ <<x>> \in Seq(Outcome)
  BY AppendIsConcat
<1>2. (one \o two) \o <<x>> = one \o (two \o <<x>>)
  BY <1>1, ConcatAssociative
<1>3. one \o two \in Seq(Outcome)
  BY ConcatProperties
<1>4. Append(one \o two, x) = (one \o two) \o <<x>>
  BY <1>3, AppendIsConcat
<1> QED BY <1>1, <1>2, <1>4

LEMMA MessageAfter ==
  ASSUME NEW one \in Seq(Message), NEW two \in Seq(Message), NEW x \in Message
  PROVE  one \o Append(two, x) = Append(one \o two, x)
<1>1. Append(two, x) = two \o <<x>> /\ <<x>> \in Seq(Message)
  BY AppendIsConcat
<1>2. (one \o two) \o <<x>> = one \o (two \o <<x>>)
  BY <1>1, ConcatAssociative
<1>3. one \o two \in Seq(Message)
  BY ConcatProperties
<1>4. Append(one \o two, x) = (one \o two) \o <<x>>
  BY <1>3, AppendIsConcat
<1> QED BY <1>1, <1>2, <1>4

LEMMA BootFits ==
  ASSUME NEW r, NEW h, NEW all \in Seq(Outcome), NEW told, Fits(r, h, all, told), NEW boot \in Boot,
         NEW status \in {"pass", "fail"}
  PROVE  Fits(calc(inc_row_field(r, boot, status)), h, Append(all, <<boot, status>>), told)
<1> DEFINE new == calc(inc_row_field(r, boot, status))
           x == <<boot, status>>
<1>0. Table(r) /\ h = Recent(told)
  BY DEF Fits
<1>1. Table(new) /\ OneMore(r.rows, new.rows, boot, status)
  BY <1>0, BootIsCounted
<1>2. x \in Outcome
  BY DEF Outcome
<1>4. ASSUME NEW b \in Boot, NEW s \in {"pass", "fail"} PROVE new.rows[b][s] = Times(Append(all, x), b, s)
  <2>1. Times(Append(all, x), b, s) = Times(all, b, s) + (IF x \in {<<b, s>>} THEN 1 ELSE 0)
    BY <1>2, HowManyMore DEF Times
  <2>2. x \in {<<b, s>>} <=> b = boot /\ s = status
    OBVIOUS
  <2>3. r.rows[b][s] = Times(all, b, s)
    BY DEF Fits
  <2> HIDE DEF new, x
  <2> QED BY <1>1, <2>1, <2>2, <2>3 DEF OneMore
<1> HIDE DEF new
<1> QED BY <1>0, <1>1, <1>4 DEF Fits, new

(* A message is entered in the history and nothing else; in the model it is*)
(* one of what this call has announced.                                    *)
Enters(x) ==
  /\ phase = "call" /\ x \in Message /\ booting' \in Boot \cup {"none"}
  /\ boot_history' = update_boot_history(boot_history, x) /\ messages' = Append(messages, x)
  /\ UNCHANGED <<active, phase, master_pid, boot_results, init_boot_fail, file, verdict, kept, done,
                 kept_messages, stale>>

LEMMA EntersSafely == ASSUME RInv, NEW x, Enters(x) PROVE RInv'
<1>0. /\ phase = "call" /\ x \in Message /\ booting' \in Boot \cup {"none"}
      /\ boot_history' = update_boot_history(boot_history, x) /\ messages' = Append(messages, x)
      /\ UNCHANGED <<active, phase, master_pid, boot_results, init_boot_fail, file, verdict, kept, done,
                     kept_messages, stale>>
  BY DEF Enters
<1>1. /\ Table(boot_results) /\ master_pid \in Pid /\ messages \in Seq(Message)
      /\ kept_messages[master_pid] \in Seq(Message)
  BY <1>0 DEF RInv, RTypeOK, CallCounts
<1>2. boot_results # Class
  BY <1>1, TableIsNoClass
<1>3. CallFits'
  <2> SUFFICES ASSUME master_pid \notin stale
               PROVE  Fits(boot_results, boot_history', OfThisMaster, Announced')
    BY <1>0 DEF CallFits, Counting, Fits, OfThisMaster
  <2>1. Fits(boot_results, boot_history, OfThisMaster, Announced)
    BY <1>0 DEF RInv, CallFits, Counting
  <2>2. Announced \in Seq(Message) /\ Announced' = Append(Announced, x)
    <3>1. Announced' = kept_messages[master_pid] \o Append(messages, x)
      BY <1>0 DEF Announced
    <3>2. kept_messages[master_pid] \o messages \in Seq(Message)
      BY <1>1, ConcatProperties
    <3>3. kept_messages[master_pid] \o Append(messages, x) = Append(kept_messages[master_pid] \o messages, x)
      BY <1>0, <1>1, MessageAfter
    <3> QED BY <3>1, <3>2, <3>3 DEF Announced
  <2>3. boot_history' = Recent(Append(Announced, x))
    BY <1>0, <2>1, <2>2, RecentIsUpdated DEF Fits
  <2> QED BY <2>1, <2>2, <2>3 DEF Fits
<1>4. CallCounts'
  BY <1>0 DEF RInv, CallCounts, Table, Failures, HowMany
<1>5. RTypeOK'
  <2>1. Append(messages, x) \in Seq(Message)
    BY <1>0, <1>1, AppendProperties
  <2> QED BY <1>0, <1>1, <1>2, <2>1 DEF RInv, RTypeOK, Table, Whole
<1>6. FilesFit'
  BY <1>0 DEF RInv, FilesFit, Fits, Whole
<1> QED BY <1>0, <1>3, <1>4, <1>5, <1>6 DEF RInv, IdleHasFile, RaisedHasNone, CallStarts

LEMMA RunBootSafely == ASSUME RInv, NEW boot \in Boot, RunBoot(boot) PROVE RInv'
BY EntersSafely DEF RunBoot, Enters, Message

LEMMA PostStackSafely == ASSUME RInv, PostStack PROVE RInv'
BY EntersSafely DEF PostStack, Enters, Message

LEMMA PostStackReturnsSafely == ASSUME RInv, PostStackReturns PROVE RInv'
<1>1. UNCHANGED <<active, phase, master_pid, boot_results, boot_history, init_boot_fail, booting, file,
                  verdict, kept, done, kept_messages, messages, stale>>
  BY DEF PostStackReturns, results, accounts
<1> QED BY <1>1 DEF RInv, RTypeOK, FilesFit, IdleHasFile, RaisedHasNone, CallFits, Counting, MasterIsSafe,
                    OfThisMaster, Announced, CallCounts, CallStarts, Fits, Table, Whole

LEMMA BootEndsSafely ==
  ASSUME RInv, NEW boot \in Boot, NEW status \in {"pass", "fail"}, BootEnds(boot, status)
  PROVE  RInv'
<1> DEFINE new == calc(inc_row_field(boot_results, boot, status))
           x == <<boot, status>>
<1>0. /\ phase = "call" /\ verdict = "none" /\ boot_results' = new /\ done' = Append(done, x) /\ booting' = "none"
      /\ UNCHANGED <<active, phase, master_pid, boot_history, init_boot_fail, file, verdict, kept,
                     kept_messages, messages, stale>>
  BY DEF BootEnds
<1>1. /\ Table(boot_results) /\ master_pid \in Pid /\ done \in Seq(Outcome)
      /\ kept[master_pid] \in Seq(Outcome) /\ x \in Outcome
  BY <1>0 DEF RInv, RTypeOK, CallCounts, Outcome
<1>2. /\ Table(new) /\ new # Class
      /\ Column(new.rows, "fail") = Column(boot_results.rows, "fail") + (IF status = "fail" THEN 1 ELSE 0)
  BY <1>1, BootIsCounted
<1>3. CallFits'
  <2> SUFFICES ASSUME master_pid \notin stale PROVE Fits(new, boot_history, OfThisMaster', Announced)
    BY <1>0 DEF CallFits, Counting, Fits, Announced
  <2>1. Fits(boot_results, boot_history, OfThisMaster, Announced)
    BY <1>0 DEF RInv, CallFits, Counting
  <2>2. OfThisMaster \in Seq(Outcome) /\ OfThisMaster' = Append(OfThisMaster, x)
    <3>1. OfThisMaster' = kept[master_pid] \o Append(done, x)
      BY <1>0 DEF OfThisMaster
    <3> HIDE DEF x
    <3>2. kept[master_pid] \o done \in Seq(Outcome)
      BY <1>1, ConcatProperties
    <3>3. kept[master_pid] \o Append(done, x) = Append(kept[master_pid] \o done, x)
      BY <1>1, AppendAfter
    <3> QED BY <3>1, <3>2, <3>3 DEF OfThisMaster
  <2> QED BY <1>0, <2>1, <2>2, BootFits
<1>4. CallCounts'
  <2>1. /\ init_boot_fail \in Nat
        /\ Column(boot_results.rows, "fail") = init_boot_fail + Failures(done)
    BY <1>0 DEF RInv, CallCounts
  <2>2. /\ Failures(done) \in Nat
        /\ Failures(Append(done, x)) = Failures(done)
             + (IF x \in {y \in Outcome : y[2] = "fail"} THEN 1 ELSE 0)
    BY <1>1, HowManyMore DEF Failures
  <2>3. x \in {y \in Outcome : y[2] = "fail"} <=> status = "fail"
    BY <1>1
  <2>4. Column(new.rows, "fail") = init_boot_fail + Failures(Append(done, x))
    <3> HIDE DEF new, x
    <3> QED BY <1>2, <2>1, <2>2, <2>3
  <2> HIDE DEF new, x
  <2> QED BY <1>0, <1>2, <2>1, <2>4 DEF CallCounts, Table, Failures, HowMany
<1>5. RTypeOK'
  <2>1. Append(done, x) \in Seq(Outcome)
    BY <1>1, AppendProperties
  <2> HIDE DEF new, x
  <2> QED BY <1>0, <1>2, <2>1 DEF RInv, RTypeOK, Table, Whole
<1>6. FilesFit'
  BY <1>0 DEF RInv, FilesFit, Fits, Whole
<1> QED BY <1>0, <1>3, <1>4, <1>5, <1>6 DEF RInv, IdleHasFile, RaisedHasNone, CallStarts

LEMMA JudgeSafely == ASSUME RInv, Judge PROVE RInv'
<1>0. /\ phase = "call" /\ verdict = "none"
      /\ verdict' = IF total_fail(boot_results) - init_boot_fail > boot_fail_threshold THEN "over" ELSE "good"
      /\ UNCHANGED <<active, phase, master_pid, boot_results, boot_history, init_boot_fail, booting, file,
                     kept, done, kept_messages, messages, stale>>
  BY DEF Judge, results, progress, accounts
<1>1. /\ Table(boot_results) /\ init_boot_fail \in Nat /\ done \in Seq(Outcome)
      /\ Column(boot_results.rows, "fail") = init_boot_fail + Failures(done)
  BY <1>0 DEF RInv, CallCounts, RTypeOK
<1>2. Failures(done) \in Nat
  <2>1. IsFiniteSet({i \in DOMAIN done : done[i] \in {y \in Outcome : y[2] = "fail"}})
    BY <1>1, LenProperties, FS_Interval, FS_Subset
  <2> QED BY <2>1, FS_CardinalityType DEF Failures, HowMany
<1>3. total_fail(boot_results) - init_boot_fail = Failures(done)
  BY <1>1, <1>2, CalcOfTable
<1>4. verdict' = "over" <=> Failures(done) > boot_fail_threshold
  BY <1>0, <1>3
<1>5. CallCounts'
  BY <1>0, <1>1, <1>4 DEF CallCounts, Table, Failures, HowMany
<1>6. RTypeOK' /\ FilesFit' /\ CallFits'
  BY <1>0 DEF RInv, RTypeOK, FilesFit, CallFits, Counting, MasterIsSafe, OfThisMaster, Announced,
             Fits, Table, Whole
<1> QED BY <1>0, <1>5, <1>6 DEF RInv, IdleHasFile, RaisedHasNone, CallStarts

LEMMA OpenSafely == ASSUME RInv, OpenFile PROVE RInv'
<1>0. /\ phase \in {"call", "raised"} /\ phase' = "saving"
      /\ file' = [file EXCEPT ![master_pid] = Torn]
      /\ UNCHANGED <<active, master_pid, boot_results, boot_history, init_boot_fail, booting, kept, done,
                     kept_messages, messages, stale>>
  BY DEF OpenFile, results, progress, accounts
<1>1. master_pid \in Pid /\ file = [p \in Pid |-> file[p]]
  BY <1>0 DEF RInv, RTypeOK
<1>2. /\ file' = [p \in Pid |-> file'[p]]
      /\ \A p \in Pid : file'[p] = IF p = master_pid THEN Torn ELSE file[p]
  BY <1>0, <1>1
<1>3. ~Whole(Torn) /\ Torn # NoFile
  BY WholeFiles DEF Whole
<1>4. RTypeOK'
  BY <1>0, <1>1, <1>2, <1>3 DEF RInv, RTypeOK, Table, Whole
<1>5. FilesFit'
  BY <1>0, <1>2, <1>3 DEF RInv, FilesFit, Fits, Whole
<1>6. CallFits'
  <2> SUFFICES ASSUME MasterIsSafe, boot_results # Class PROVE Fits(boot_results, boot_history, OfThisMaster, Announced)
    BY <1>0 DEF CallFits, Counting, MasterIsSafe, Fits, OfThisMaster, Announced
  <2>1. phase = "call"
    BY <1>0 DEF RInv, RaisedHasNone
  <2> QED BY <2>1 DEF RInv, CallFits, Counting, MasterIsSafe
<1> QED BY <1>0, <1>4, <1>5, <1>6 DEF RInv, IdleHasFile, RaisedHasNone, CallCounts, CallStarts

LEMMA WriteSafely == ASSUME RInv, WriteFile PROVE RInv'
<1> DEFINE new == <<boot_results, boot_history>>
<1>0. /\ phase = "saving" /\ phase' = "idle" /\ file' = [file EXCEPT ![master_pid] = new]
      /\ kept' = [kept EXCEPT ![master_pid] = kept[master_pid] \o done] /\ done' = <<>>
      /\ kept_messages' = [kept_messages EXCEPT ![master_pid] = kept_messages[master_pid] \o messages]
      /\ messages' = <<>> /\ booting' = "none"
      /\ UNCHANGED <<active, master_pid, boot_results, boot_history, stale>>
  BY DEF WriteFile, results
<1>1. /\ master_pid \in Pid /\ file = [p \in Pid |-> file[p]] /\ kept \in [Pid -> Seq(Outcome)]
      /\ done \in Seq(Outcome)
      /\ kept_messages \in [Pid -> Seq(Message)] /\ messages \in Seq(Message)
  BY <1>0 DEF RInv, RTypeOK
<1>2. /\ file' = [p \in Pid |-> file'[p]]
      /\ \A p \in Pid : file'[p] = IF p = master_pid THEN new ELSE file[p]
  BY <1>0, <1>1
<1>3. Whole(new) /\ new[1] = boot_results /\ new[2] = boot_history /\ new # NoFile
  BY WholeFiles DEF Whole
<1>4. /\ kept' \in [Pid -> Seq(Outcome)]
      /\ \A p \in Pid : kept'[p] = IF p = master_pid THEN OfThisMaster ELSE kept[p]
  <2>1. kept[master_pid] \o done \in Seq(Outcome)
    BY <1>1, ConcatProperties
  <2> QED BY <1>0, <1>1, <2>1 DEF OfThisMaster
<1>8. /\ kept_messages' \in [Pid -> Seq(Message)]
      /\ \A p \in Pid : kept_messages'[p] = IF p = master_pid THEN Announced ELSE kept_messages[p]
  <2>1. kept_messages[master_pid] \o messages \in Seq(Message)
    BY <1>1, ConcatProperties
  <2> QED BY <1>0, <1>1, <2>1 DEF Announced
<1> HIDE DEF new
<1>5. RTypeOK'
  <2>1. /\ boot_results = Class \/ Table(boot_results)
        /\ boot_results = Class => boot_history = <<>>
    BY DEF RInv, RTypeOK
  <2>2. \A p \in Pid : Whole(file'[p]) =>
           (file'[p][1] = Class \/ Table(file'[p][1])) /\ (file'[p][1] = Class => file'[p][2] = <<>>)
    BY <1>2, <1>3, <2>1 DEF RInv, RTypeOK
  <2>3. phase' \in {"none", "idle", "call", "saving", "raised"} /\ master_pid' \in Pid
    BY <1>0, <1>1
  <2>4. /\ done' \in Seq(Outcome) /\ kept' \in [Pid -> Seq(Outcome)]
        /\ messages' \in Seq(Message) /\ kept_messages' \in [Pid -> Seq(Message)]
        /\ booting' = "none"
    BY <1>0, <1>4, <1>8, Nothing
  <2>5. /\ boot_results' = Class \/ Table(boot_results')
        /\ boot_results' = Class => boot_history' = <<>>
    BY <1>0, <2>1
  <2>6. file' = [p \in Pid |-> file'[p]]
    BY <1>2
  <2> QED BY <2>2, <2>3, <2>4, <2>5, <2>6 DEF RTypeOK, Table, Whole
<1>6. FilesFit'
  <2> SUFFICES ASSUME NEW q \in Pid, q \in active, q \notin stale
               PROVE  /\ file'[q] = NoFile => kept'[q] = <<>> /\ kept_messages'[q] = <<>>
                      /\ Whole(file'[q]) /\ file'[q][1] # Class =>
                           Fits(file'[q][1], file'[q][2], kept'[q], kept_messages'[q])
    BY <1>0 DEF FilesFit, Fits, Whole
  <2>1. CASE q = master_pid
    <3>1. file'[q] = new /\ kept'[q] = OfThisMaster /\ kept_messages'[q] = Announced
      BY <1>2, <1>4, <1>8, <2>1
    <3>2. boot_results # Class => Fits(boot_results, boot_history, OfThisMaster, Announced)
      BY <1>0, <2>1 DEF RInv, CallFits, Counting, MasterIsSafe
    <3> QED BY <1>3, <3>1, <3>2
  <2>2. CASE q # master_pid
    <3>1. file'[q] = file[q] /\ kept'[q] = kept[q] /\ kept_messages'[q] = kept_messages[q]
      BY <1>2, <1>4, <1>8, <2>2
    <3> QED BY <3>1 DEF RInv, FilesFit
  <2> QED BY <2>1, <2>2
<1>7. IdleHasFile'
  BY <1>0, <1>1, <1>2, <1>3 DEF IdleHasFile, Whole
<1> QED BY <1>0, <1>5, <1>6, <1>7 DEF RInv, RaisedHasNone, CallFits, Counting, CallCounts, CallStarts

LEMMA ResultsStep == RInv /\ [RNext]_rvars => RInv'
<1> SUFFICES ASSUME RInv, [RNext]_rvars PROVE RInv'
  OBVIOUS
<1>1. CASE UNCHANGED rvars
  <2>1. UNCHANGED <<active, phase, master_pid, boot_results, boot_history, init_boot_fail, booting, file,
                    verdict, kept, done, kept_messages, messages, stale>>
    BY <1>1 DEF rvars, results, progress, accounts
  <2> QED BY <2>1 DEF RInv, RTypeOK, FilesFit, IdleHasFile, RaisedHasNone, CallFits, Counting, MasterIsSafe,
                      OfThisMaster, Announced, CallCounts, CallStarts, Fits, Table, Whole
<1> QED BY <1>1, MasterBeginsSafely, MasterEndsSafely, ProcessBeginsSafely, ProcessEndsSafely,
           CallSafely, RunBootSafely, BootEndsSafely, PostStackSafely,
           PostStackReturnsSafely, JudgeSafely, OpenSafely, WriteSafely DEF RNext

(* What a reader of the results is told, from the invariant.               *)
LEMMA InvariantAddsUp == RInv => ResultsAddUp
<1> SUFFICES ASSUME RInv PROVE ResultsAddUp
  OBVIOUS
<1>1. RowsCountAll
  <2> SUFFICES ASSUME phase = "call", master_pid \notin stale, NEW b \in Boot
               PROVE  /\ boot_results.rows[b].pass = Count(b, "pass")
                      /\ boot_results.rows[b].fail = Count(b, "fail")
    BY DEF RowsCountAll
  <2>1. ASSUME NEW s \in {"pass", "fail"} PROVE boot_results.rows[b][s] = Count(b, s)
    <3>1. boot_results.rows[b][s] = Times(OfThisMaster, b, s)
      BY DEF RInv, CallFits, Counting, Fits
    <3> QED BY <3>1 DEF Times, HowMany, Count
  <2> QED BY <2>1
<1>2. TotalsAgree
  <2> SUFFICES ASSUME phase = "call" PROVE TotalsAgree
    BY DEF TotalsAgree
  <2>1. Table(boot_results) /\ boot_results.rows \in [Boot -> Row]
    BY DEF RInv, CallCounts, Table
  <2>2. total_pass(boot_results) = Column(boot_results.rows, "pass") + boot_pass
    BY <2>1, CalcOfTable
  <2>3. Column(boot_results.rows, "pass") \in Nat /\ boot_pass \in Nat
    BY <2>1, ColumnIsNatural, ResultsAssumption DEF Field
  <2>4. \A f \in {"total", "pass", "fail"} : boot_results.totals_line[f] = Column(boot_results.rows, f)
    BY <2>1 DEF Table
  <2> QED BY <2>1, <2>2, <2>3, <2>4 DEF TotalsAgree, Table, Balanced
<1>3. HistoryIsRecent
  BY DEF HistoryIsRecent, RInv, CallFits, Counting, Fits, Recent
<1>4. ThresholdIsOfThisCall
  <2> SUFFICES ASSUME phase = "call", verdict # "none"
               PROVE  verdict = "over" <=>
                        Cardinality({i \in DOMAIN done : done[i][2] = "fail"}) > boot_fail_threshold
    BY DEF ThresholdIsOfThisCall
  <2>1. verdict = "over" <=> Failures(done) > boot_fail_threshold
    BY DEF RInv, CallCounts
  <2>2. {i \in DOMAIN done : done[i] \in {y \in Outcome : y[2] = "fail"}}
        = {i \in DOMAIN done : done[i][2] = "fail"}
    <3>1. \A i \in DOMAIN done : done[i] \in Outcome
      BY LenProperties, ElementOfSeq DEF RInv, RTypeOK
    <3> QED BY <3>1
  <2> QED BY <2>1, <2>2 DEF Failures, HowMany
<1> QED BY <1>1, <1>2, <1>3, <1>4 DEF ResultsAddUp

(* The table, its totals and the verdict are right in every call, and the  *)
(* history is of the latest that was announced, boots and plug-ins,        *)
(* whatever processes were killed or pids used again before it, unless the *)
(* pid is one that a file was left for.                                    *)
THEOREM ResultsAreRight == RSpec => []ResultsAddUp
BY ResultsStart, ResultsStep, InvariantAddsUp, PTL DEF RSpec

(* A call raises only for the reasons the property lists.                  *)
THEOREM CallsStart == RSpec => []CallStarts
<1>1. RInv => CallStarts
  BY DEF RInv
<1> QED BY <1>1, ResultsStart, ResultsStep, PTL DEF RSpec
-----------------------------------------------------------------------------
(* The stack of SaveStack.                                                 *)
KTypeOK ==
  /\ in_call \in BOOLEAN
  /\ robot_var \in [main_func_parm -> Val] /\ was \in [main_func_parm -> Val]
  /\ stack_dict \in [main_func_parm -> Seq(Val)]
  /\ todo \in [main_func_parm -> {"no", "save", "set"}]
  /\ given \in [main_func_parm -> Val \cup {"None"}]
  /\ \A p \in main_func_parm : todo[p] # "no" => given[p] \in Val

(* At every point of a call a parameter is untouched, or its old value is  *)
(* on the stack, alone; it is set only when it is there.                   *)
Untouched(p) == stack_dict[p] = <<>> /\ robot_var[p] = was[p] /\ todo[p] # "set"
Saved(p) == stack_dict[p] = <<was[p]>> /\ todo[p] # "save"

KInv ==
  /\ KTypeOK
  /\ \A p \in main_func_parm : Untouched(p) \/ (in_call /\ Saved(p))
  /\ ~in_call => \A p \in main_func_parm : todo[p] = "no"

(* One value on the stack: pushed on an empty one, and taken off again.    *)
LEMMA OneOnTheStack == ASSUME NEW v \in Val
                       PROVE  /\ Append(<<>>, v) = <<v>> /\ <<v>> \in Seq(Val) /\ <<v>> # <<>>
                              /\ Len(<<v>>) = 1 /\ <<v>>[1] = v
                              /\ SubSeq(<<v>>, 1, Len(<<v>>) - 1) = <<>>
<1>1. /\ Append(<<>>, v) = <<v>> /\ <<v>> \in Seq(Val) /\ <<v>> # <<>>
      /\ Len(<<v>>) = 1 /\ <<v>>[1] = v
  OBVIOUS
<1>2. SubSeq(<<v>>, 1, 0) = <<>>
  <2>1. SubSeq(<<v>>, 1, 0) \in Seq(Val) /\ Len(SubSeq(<<v>>, 1, 0)) = 0
    BY <1>1, SubSeqProperties
  <2> QED BY <2>1, EmptySeq
<1> QED BY <1>1, <1>2

LEMMA StackStarts == KInit => KInv
<1> SUFFICES ASSUME KInit PROVE KInv
  OBVIOUS
<1>1. KTypeOK
  <2>1. stack_dict \in [main_func_parm -> Seq(Val)]
    BY EmptySeq DEF KInit
  <2> QED BY <2>1 DEF KInit, KTypeOK
<1> QED BY <1>1 DEF KInit, KInv, Untouched

LEMMA StackStep == KInv /\ [KNext]_kvars => KInv'
<1> SUFFICES ASSUME KInv, [KNext]_kvars PROVE KInv'
  OBVIOUS
<1> USE DEF KInv, KTypeOK
<1>1. ASSUME NEW args \in [main_func_parm -> Val \cup {"None"}], CallWith(args) PROVE KInv'
  <2>1. KTypeOK'
    BY <1>1 DEF CallWith
  <2>2. \A p \in main_func_parm : Untouched(p)'
    BY <1>1 DEF CallWith, Untouched
  <2> QED BY <1>1, <2>1, <2>2 DEF CallWith
<1>2. ASSUME NEW p \in main_func_parm, SaveParm(p) PROVE KInv'
  <2>1. Untouched(p)
    BY <1>2 DEF SaveParm, Saved
  <2>2. robot_var[p] \in Val /\ stack_dict' = [stack_dict EXCEPT ![p] = <<robot_var[p]>>]
    BY <1>2, <2>1, OneOnTheStack DEF SaveParm, push, Untouched
  <2>3. KTypeOK'
    BY <1>2, <2>2, OneOnTheStack DEF SaveParm
  <2>4. Saved(p)' /\ in_call'
    BY <1>2, <2>1, <2>2 DEF SaveParm, Saved, Untouched
  <2>5. \A q \in main_func_parm \ {p} : (Untouched(q) \/ (in_call /\ Saved(q)))'
    BY <1>2, <2>2 DEF SaveParm, Saved, Untouched
  <2> QED BY <2>3, <2>4, <2>5
<1>3. ASSUME NEW p \in main_func_parm, SetParm(p) PROVE KInv'
  <2>1. Saved(p) /\ given[p] \in Val
    BY <1>3 DEF SetParm, Untouched
  <2>2. KTypeOK'
    BY <1>3, <2>1 DEF SetParm
  <2>3. Saved(p)' /\ in_call'
    BY <1>3, <2>1 DEF SetParm, Saved
  <2>4. \A q \in main_func_parm \ {p} : (Untouched(q) \/ (in_call /\ Saved(q)))'
    BY <1>3 DEF SetParm, Saved, Untouched
  <2> QED BY <2>2, <2>3, <2>4
<1>4. CASE TeardownRestores
  <2>1. ASSUME NEW p \in main_func_parm
        PROVE robot_var'[p] = was[p] /\ stack_dict'[p] = <<>>
    <3>1. CASE Untouched(p)
      BY <1>4, <3>1 DEF TeardownRestores, Untouched
    <3>2. CASE Saved(p)
      <4> DEFINE v == was[p]
      <4>1. v \in Val /\ stack_dict[p] = <<v>>
        BY <3>2 DEF Saved
      <4>2. pop(p) = <<>> /\ stack_dict[p] # <<>> /\ stack_dict[p][Len(stack_dict[p])] = v
        <5> HIDE DEF v
        <5> QED BY <4>1, OneOnTheStack DEF pop
      <4> QED BY <1>4, <4>2 DEF TeardownRestores
    <3> QED BY <3>1, <3>2
  <2>2. KTypeOK'
    <3>1. robot_var' \in [main_func_parm -> Val]
      <4>1. robot_var' = [p \in main_func_parm |-> robot_var'[p]]
        BY <1>4 DEF TeardownRestores
      <4> QED BY <4>1, <2>1
    <3>2. stack_dict' \in [main_func_parm -> Seq(Val)]
      <4>1. stack_dict' = [p \in main_func_parm |-> stack_dict'[p]]
        BY <1>4 DEF TeardownRestores
      <4>2. \A p \in main_func_parm : stack_dict'[p] \in Seq(Val)
        BY <2>1, EmptySeq
      <4> QED BY <4>1, <4>2
    <3> QED BY <1>4, <3>1, <3>2 DEF TeardownRestores
  <2>3. \A p \in main_func_parm : Untouched(p)' /\ todo'[p] = "no"
    BY <1>4, <2>1 DEF TeardownRestores, Untouched
  <2> QED BY <2>2, <2>3
<1>5. ASSUME NEW p \in main_func_parm, NEW v \in Val, UserSets(p, v) PROVE KInv'
  <2>1. KTypeOK'
    BY <1>5 DEF UserSets
  <2> QED BY <1>5, <2>1 DEF UserSets, Untouched, Saved
<1>6. CASE UNCHANGED kvars
  BY <1>6 DEF kvars, Untouched, Saved
<1> QED BY <1>1, <1>2, <1>3, <1>4, <1>5, <1>6 DEF KNext

LEMMA KInvRestores == KInv => GlobalsAreRestored
<1> SUFFICES ASSUME KInv, ~in_call PROVE robot_var = was /\ \A p \in main_func_parm : stack_dict[p] = <<>>
  BY DEF GlobalsAreRestored
<1>1. \A p \in main_func_parm : robot_var[p] = was[p] /\ stack_dict[p] = <<>>
  BY DEF KInv, Untouched
<1> QED BY <1>1 DEF KInv, KTypeOK

(* After a call of the keyword the globals are what they were and nothing  *)
(* is left on the stack, however the call ended.                           *)
THEOREM GlobalsComeBack == KSpec => []GlobalsAreRestored
BY StackStarts, StackStep, KInvRestores, PTL DEF KSpec
-----------------------------------------------------------------------------
LEMMA BothStep == RInv /\ KInv /\ [MCNext]_<<rvars, kvars, part>> => (RInv /\ KInv)'
<1> SUFFICES ASSUME RInv, KInv, [MCNext]_<<rvars, kvars, part>> PROVE RInv' /\ KInv'
  OBVIOUS
<1>1. [RNext]_rvars /\ [KNext]_kvars
  BY DEF MCNext
<1> QED BY <1>1, ResultsStep, StackStep

(* Both, of the specification the run checks.                              *)
THEOREM ResultsAndGlobals == MCSpec => [](ResultsAddUp /\ CallStarts /\ GlobalsAreRestored)
<1>1. MCInit => RInv /\ KInv
  BY ResultsStart, StackStarts DEF MCInit
<1>2. RInv /\ KInv => ResultsAddUp /\ CallStarts /\ GlobalsAreRestored
  BY InvariantAddsUp, KInvRestores DEF RInv
<1> QED BY <1>1, <1>2, BothStep, PTL DEF MCSpec
=============================================================================
