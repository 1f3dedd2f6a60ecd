----------------------------- MODULE RulesProofs -----------------------------
(***************************************************************************)
(* The rule database, proved for any rule files, any ids and parameters    *)
(* the clients ask with, and any number of requests.                       *)
(***************************************************************************)
EXTENDS PcdRules, SequenceTheorems, WellFoundedInduction, TLAPS

-----------------------------------------------------------------------------
(***************************************************************************)
(* The order of the names.                                                 *)
(***************************************************************************)
Names == Seq(Nat)

LEMMA Least ==
  ASSUME NEW S \in SUBSET Nat, S # {}
  PROVE  \E x \in S : \A y \in S : x <= y
<1>1. PICK x \in S : \A y \in S : ~(<<y, x>> \in OpToRel(<, Nat))
  BY NatLessThanWellFounded, WFMin, Zenon
<1>2. \A y \in S : ~(y < x)
  BY <1>1, Zenon DEF OpToRel
<1> QED
  BY <1>2

LEMMA MinIsLeast ==
  ASSUME NEW S \in SUBSET Nat, S # {}
  PROVE  Min(S) \in S /\ \A y \in S : Min(S) <= y
BY Least DEF Min

LEMMA MaxIsGreatest ==
  ASSUME NEW b \in Nat, NEW S \in SUBSET (1..b), S # {}
  PROVE  Max(S) \in S /\ \A y \in S : y <= Max(S)
<1> DEFINE D == {b - x : x \in S}
<1>1. D \in SUBSET Nat
  <2> SUFFICES ASSUME NEW x \in S PROVE b - x \in Nat
    OBVIOUS
  <2>1. x \in 1..b
    OBVIOUS
  <2> QED
    BY <2>1
<1>6. D # {} /\ \A y : y \in D <=> \E x \in S : y = b - x
  OBVIOUS
<1> HIDE DEF D
<1>2. PICK d \in D : \A y \in D : d <= y
  BY <1>1, <1>6, Least
<1>3. PICK x \in S : d = b - x
  BY <1>2, <1>6
<1>4. \A y \in S : b - x <= b - y
  BY <1>2, <1>3, <1>6
<1>5. \A y \in S : x >= y
  <2> SUFFICES ASSUME NEW y \in S PROVE x >= y
    OBVIOUS
  <2>1. x \in 1..b /\ y \in 1..b /\ b - x <= b - y
    BY <1>4
  <2> QED
    BY <2>1
<1> QED
  BY <1>5 DEF Max

\* A prefix, by its elements.
LEMMA PrefixElements ==
  ASSUME NEW a \in Names, NEW b \in Names
  PROVE  IsPrefix(a, b) <=> Len(a) <= Len(b) /\ \A i \in 1..Len(a) : a[i] = b[i]
<1>1. SubSeq(a, 1, Len(a)) = a
  BY DEF Names
<1>2. ASSUME Len(a) <= Len(b)
      PROVE  /\ SubSeq(b, 1, Len(a)) \in Names /\ Len(SubSeq(b, 1, Len(a))) = Len(a)
             /\ \A i \in 1..Len(a) : SubSeq(b, 1, Len(a))[i] = b[i]
  BY <1>2 DEF Names
<1>3. ASSUME Len(a) <= Len(b), \A i \in 1..Len(a) : a[i] = b[i]
      PROVE  a = SubSeq(b, 1, Len(a))
  BY <1>2, <1>3, SeqEqual DEF Names
<1> QED
  BY <1>1, <1>2, <1>3 DEF IsPrefix

\* Less, by the first place at which two names differ.
LEMMA LessMeans ==
  ASSUME NEW a \in Names, NEW b \in Names
  PROVE  Less(a, b) <=>
           \/ /\ Len(a) < Len(b)
              /\ \A i \in 1..Len(a) : a[i] = b[i]
           \/ \E i \in 1..Len(a) :
                /\ i <= Len(b) /\ a[i] < b[i]
                /\ \A j \in 1..(i - 1) : a[j] = b[j]
<1>1. Len(a) \in Nat /\ Len(b) \in Nat /\ DOMAIN a = 1..Len(a) /\ DOMAIN b = 1..Len(b)
  BY DEF Names
<1>2. IsStrictPrefix(a, b) <=> Len(a) < Len(b) /\ \A i \in 1..Len(a) : a[i] = b[i]
  <2>1. IsPrefix(a, b) /\ Len(a) = Len(b) => a = b
    BY PrefixElements, SeqEqual DEF Names
  <2>2. IsPrefix(a, b) <=> Len(a) <= Len(b) /\ \A i \in 1..Len(a) : a[i] = b[i]
    BY PrefixElements
  <2>3. ASSUME Len(a) < Len(b) PROVE a # b
    BY <1>1, <2>3
  <2>4. Len(a) <= Len(b) <=> Len(a) < Len(b) \/ Len(a) = Len(b)
    <3>1. \A m, n \in Nat : m <= n <=> m < n \/ m = n
      OBVIOUS
    <3> QED
      BY <1>1, <3>1, Zenon
  <2> QED
    BY <2>1, <2>2, <2>3, <2>4 DEF IsStrictPrefix
<1>3. DOMAIN a \cap DOMAIN b = {i \in 1..Len(a) : i <= Len(b)}
  BY <1>1
<1> QED
  BY <1>2, <1>3 DEF Less

LEMMA LessIrreflexive ==
  ASSUME NEW a \in Names
  PROVE  ~Less(a, a)
<1>1. \A i \in 1..Len(a) : a[i] \in Nat
  BY DEF Names
<1>2. Len(a) \in Nat
  BY DEF Names
<1> QED
  BY <1>1, <1>2, LessMeans

LEMMA LessTransitive ==
  ASSUME NEW a \in Names, NEW b \in Names, NEW c \in Names, Less(a, b), Less(b, c)
  PROVE  Less(a, c)
<1>1. /\ Len(a) \in Nat /\ Len(b) \in Nat /\ Len(c) \in Nat
      /\ \A i \in 1..Len(a) : a[i] \in Nat
      /\ \A i \in 1..Len(b) : b[i] \in Nat
      /\ \A i \in 1..Len(c) : c[i] \in Nat
  BY DEF Names
<1> DEFINE P(x, y) == Len(x) < Len(y) /\ \A i \in 1..Len(x) : x[i] = y[i]
           D(x, y, i) == /\ i \in 1..Len(x) /\ i <= Len(y) /\ x[i] < y[i]
                         /\ \A j \in 1..(i - 1) : x[j] = y[j]
<1>2. P(a, b) \/ \E i \in 1..Len(a) : D(a, b, i)
  BY LessMeans
<1>3. P(b, c) \/ \E i \in 1..Len(b) : D(b, c, i)
  BY LessMeans
<1>4. P(a, c) \/ (\E i \in 1..Len(a) : D(a, c, i)) => Less(a, c)
  BY LessMeans
<1>5. CASE P(a, b) /\ P(b, c)
  <2>1. P(a, c)
    BY <1>1, <1>5
  <2> QED
    BY <1>4, <2>1
<1>6. ASSUME P(a, b), NEW i \in 1..Len(b), D(b, c, i)
      PROVE  Less(a, c)
  <2>1. CASE i <= Len(a)
    <3>1. D(a, c, i)
      BY <1>1, <1>6, <2>1
    <3> QED
      BY <1>4, <3>1
  <2>2. CASE ~(i <= Len(a))
    <3>1. P(a, c)
      BY <1>1, <1>6, <2>2
    <3> QED
      BY <1>4, <3>1
  <2> QED
    BY <2>1, <2>2
<1>7. ASSUME P(b, c), NEW i \in 1..Len(a), D(a, b, i)
      PROVE  Less(a, c)
  <2>1. D(a, c, i)
    BY <1>1, <1>7
  <2> QED
    BY <1>4, <2>1
<1>8. ASSUME NEW i \in 1..Len(a), D(a, b, i), NEW k \in 1..Len(b), D(b, c, k)
      PROVE  Less(a, c)
  <2>1. CASE i <= k
    <3>1. D(a, c, i)
      <4>1. i <= Len(c) /\ \A j \in 1..(i - 1) : a[j] = c[j]
        BY <1>1, <1>8, <2>1
      <4>2. a[i] < c[i]
        BY <1>1, <1>8, <2>1
      <4> QED
        BY <4>1, <4>2
    <3> QED
      BY <1>4, <3>1
  <2>2. CASE ~(i <= k)
    <3>1. k \in 1..Len(a) /\ D(a, c, k)
      BY <1>1, <1>8, <2>2
    <3> QED
      BY <1>4, <3>1
  <2> QED
    BY <2>1, <2>2
<1> QED
  BY <1>2, <1>3, <1>5, <1>6, <1>7, <1>8

LEMMA LessTotal ==
  ASSUME NEW a \in Names, NEW b \in Names, a # b, ~Less(a, b)
  PROVE  Less(b, a)
<1>1. /\ Len(a) \in Nat /\ Len(b) \in Nat
      /\ \A i \in 1..Len(a) : a[i] \in Nat
      /\ \A i \in 1..Len(b) : b[i] \in Nat
  BY DEF Names
<1> DEFINE X == {i \in 1..Len(a) : i <= Len(b) /\ a[i] # b[i]}
<1>2. CASE X = {}
  <2>1. Len(a) # Len(b)
    <3> SUFFICES ASSUME Len(a) = Len(b) PROVE FALSE
      OBVIOUS
    <3>1. \A i \in 1..Len(a) : a[i] = b[i]
      BY <1>1, <1>2
    <3> QED
      BY <3>1, SeqEqual DEF Names
  <2>2. Len(b) < Len(a)
    <3> SUFFICES ASSUME Len(a) < Len(b) PROVE FALSE
      BY <1>1, <2>1
    <3>1. \A i \in 1..Len(a) : a[i] = b[i]
      BY <1>1, <1>2
    <3> QED
      BY <3>1, LessMeans
  <2>3. \A i \in 1..Len(b) : b[i] = a[i]
    BY <1>1, <1>2, <2>2
  <2> QED
    BY <2>2, <2>3, LessMeans
<1>3. CASE X # {}
  <2>0. X \in SUBSET Nat
    BY <1>1
  <2>1. PICK i \in X : \A j \in X : i <= j
    <3> HIDE DEF X
    <3> QED
      BY <1>3, <2>0, Least
  <2>2. i \in 1..Len(a) /\ i \in 1..Len(b) /\ \A j \in 1..(i - 1) : a[j] = b[j]
    BY <1>1, <2>1
  <2>3. a[i] < b[i] \/ b[i] < a[i]
    BY <1>1, <2>1, <2>2
  <2>4. \A j \in 1..(i - 1) : b[j] = a[j]
    BY <2>2
  <2> QED
    BY <2>2, <2>3, <2>4, LessMeans
<1> QED
  BY <1>2, <1>3

-----------------------------------------------------------------------------
(***************************************************************************)
(* The database as a value d.                                              *)
(***************************************************************************)
AllIds == Ids \cup RuleIds

\* optionalParams, and the process of a rule
OptParams == Params \cup {NoParams}

Procs == [rule : AllIds, asked : OptParams,
          args : Params \cup {NoParams, Default}]

OptProc == Procs \cup {NoProc}

Rule ==
  [group : {NoGroup} \cup {id[1] : id \in AllIds}, name : Names,
   indexed : BOOLEAN, block : Int, from : [Fields -> Int], option : Int,
   end : {"NONE", "WAIT"}, timeout : Int, active : BOOLEAN,
   params : OptParams, proc : OptProc,
   waiting : BOOLEAN]

Group == [group : {NoGroup} \cup {id[1] : id \in AllIds}, rules : Seq(Rule)]

\* The rules of a group are sorted by name.
ByName(rules) ==
  \A i, j \in DOMAIN rules : i < j => Less(rules[i].name, rules[j].name)

\* DbIsSorted, of any database.
SortedDb(d) ==
  /\ d \in Seq(Group)
  /\ \A g, h \in DOMAIN d : d[g].group = d[h].group => g = h
  /\ \A g \in DOMAIN d : /\ d[g].rules # <<>>
                         /\ \A i \in DOMAIN d[g].rules : d[g].rules[i].group = d[g].group
                         /\ ByName(d[g].rules)

LEMMA InsertElements ==
  ASSUME NEW T, NEW s \in Seq(T), NEW i \in 1..(Len(s) + 1), NEW e \in T
  PROVE  /\ InsertAt(s, i, e) \in Seq(T)
         /\ Len(InsertAt(s, i, e)) = Len(s) + 1
         /\ \A k \in 1..(Len(s) + 1) :
              InsertAt(s, i, e)[k] = IF k < i THEN s[k]
                                     ELSE IF k = i THEN e ELSE s[k - 1]
<1> DEFINE a == SubSeq(s, 1, i - 1)
           b == SubSeq(s, i, Len(s))
           m == <<e>>
<1>0. Len(s) \in Nat /\ i \in Nat /\ \A k \in 1..Len(s) : s[k] \in T
  OBVIOUS
<1>1. /\ a \in Seq(T) /\ Len(a) = i - 1
      /\ \A k \in 1..(i - 1) : a[k] = s[k]
  BY <1>0
<1>2. /\ b \in Seq(T) /\ Len(b) = Len(s) - i + 1
      /\ \A k \in 1..(Len(s) - i + 1) : b[k] = s[k + i - 1]
  BY <1>0
<1>3. m \in Seq(T) /\ Len(m) = 1 /\ m[1] = e
  OBVIOUS
<1> HIDE DEF a, b, m
<1>4. /\ a \o m \in Seq(T) /\ Len(a \o m) = i
      /\ \A k \in 1..i : (a \o m)[k] = IF k < i THEN s[k] ELSE e
  <2>1. /\ a \o m \in Seq(T) /\ Len(a \o m) = Len(a) + Len(m)
        /\ \A k \in 1..(Len(a) + Len(m)) :
             (a \o m)[k] = IF k <= Len(a) THEN a[k] ELSE m[k - Len(a)]
    BY <1>1, <1>3, ConcatProperties
  <2> QED
    BY <1>0, <1>1, <1>3, <2>1
<1> DEFINE c == a \o m
<1>5. /\ c \o b \in Seq(T) /\ Len(c \o b) = Len(c) + Len(b)
      /\ \A k \in 1..(Len(c) + Len(b)) :
           (c \o b)[k] = IF k <= Len(c) THEN c[k] ELSE b[k - Len(c)]
  <2> HIDE DEF c
  <2>1. c \in Seq(T)
    BY <1>4 DEF c
  <2> QED
    BY <1>2, <2>1, ConcatProperties
<1>6. InsertAt(s, i, e) = c \o b
  BY DEF InsertAt, a, b, m
<1>7. c \in Seq(T) /\ Len(c) = i /\ \A k \in 1..i : c[k] = IF k < i THEN s[k] ELSE e
  BY <1>4
<1> HIDE DEF c
<1>8. Len(c \o b) = Len(s) + 1
  BY <1>0, <1>2, <1>5, <1>7
<1>9. ASSUME NEW k \in 1..(Len(s) + 1)
      PROVE  (c \o b)[k] = IF k < i THEN s[k] ELSE IF k = i THEN e ELSE s[k - 1]
  <2>1. (c \o b)[k] = IF k <= i THEN c[k] ELSE b[k - i]
    BY <1>0, <1>2, <1>5, <1>7
  <2>2. CASE k <= i
    BY <1>0, <1>7, <2>1, <2>2
  <2>3. CASE ~(k <= i)
    BY <1>0, <1>2, <2>1, <2>3
  <2> QED
    BY <2>2, <2>3
<1> QED
  BY <1>5, <1>6, <1>8, <1>9

\* A rule is put into its group where it belongs, unless its name is there.
LEMMA AddToGroupSorts ==
  ASSUME NEW rules \in Seq(Rule), ByName(rules), NEW r \in Rule
  PROVE  /\ AddToGroup(rules, r) \in Seq(Rule) /\ ByName(AddToGroup(rules, r))
         /\ AddToGroup(rules, r) # <<>>
         /\ \/ /\ \E i \in DOMAIN rules : rules[i].name = r.name
               /\ AddToGroup(rules, r) = rules
            \/ /\ \A i \in DOMAIN rules : rules[i].name # r.name
               /\ Range(AddToGroup(rules, r)) = Range(rules) \cup {r}
<1> DEFINE n == Len(rules)
           S == {k \in 1..(n + 1) : k \in DOMAIN rules => ~Less(rules[k].name, r.name)}
           i == Place(rules, r.name)
           new == InsertAt(rules, i, r)
<1>1. /\ n \in Nat /\ DOMAIN rules = 1..n /\ r.name \in Names
      /\ \A k \in 1..n : rules[k] \in Rule /\ rules[k].name \in Names
  <2>1. \A x \in Rule : x.name \in Names
    BY DEF Rule
  <2>2. n \in Nat /\ DOMAIN rules = 1..n /\ \A k \in 1..n : rules[k] \in Rule
    OBVIOUS
  <2> QED
    BY <2>1, <2>2
<1>2. i \in S /\ \A k \in S : i <= k
  <2>1. S \in SUBSET Nat /\ n + 1 \in S
    BY <1>1
  <2>2. i = Min(S)
    BY DEF Place
  <2> HIDE DEF S, i
  <2> QED
    BY <2>1, <2>2, MinIsLeast
<1>3. i \in 1..(n + 1) /\ (i \in 1..n => ~Less(rules[i].name, r.name))
  BY <1>1, <1>2
<1>4. ASSUME NEW k \in 1..(i - 1)
      PROVE  Less(rules[k].name, r.name)
  <2>1. k \in 1..n /\ k \in 1..(n + 1) /\ ~(i <= k)
    BY <1>1, <1>3
  <2>2. k \notin S
    BY <1>2, <2>1
  <2> QED
    BY <1>1, <2>1, <2>2
<1> HIDE DEF i, S
<1>5. CASE i \in DOMAIN rules /\ rules[i].name = r.name
  BY <1>1, <1>5 DEF AddToGroup, i
<1>6. CASE ~(i \in DOMAIN rules /\ rules[i].name = r.name)
  <2>1. AddToGroup(rules, r) = new
    BY <1>6 DEF AddToGroup, i
  <2>2. /\ new \in Seq(Rule) /\ Len(new) = n + 1
        /\ \A k \in 1..(n + 1) :
             new[k] = IF k < i THEN rules[k] ELSE IF k = i THEN r ELSE rules[k - 1]
    BY <1>3, InsertElements
  <2>3. ASSUME NEW k \in i..n
        PROVE  Less(r.name, rules[k].name)
    <3>1. i \in 1..n /\ k \in 1..n /\ k \in Nat /\ i \in Nat
      BY <1>1, <1>3
    <3>2. Less(r.name, rules[i].name)
      BY <1>1, <1>3, <1>6, <3>1, LessTotal
    <3>3. k = i \/ Less(rules[i].name, rules[k].name)
      BY <1>1, <3>1 DEF ByName
    <3> QED
      BY <1>1, <3>1, <3>2, <3>3, LessTransitive
  <2> HIDE DEF new, n
  <2>4. ByName(new)
    <3> SUFFICES ASSUME NEW j \in 1..(n + 1), NEW k \in 1..(n + 1), j < k
                 PROVE  Less(new[j].name, new[k].name)
      BY <2>2 DEF ByName
    <3>1. CASE k < i
      <4>1. new[j] = rules[j] /\ new[k] = rules[k] /\ j \in 1..n /\ k \in 1..n
        BY <1>1, <1>3, <2>2, <3>1
      <4> QED
        BY <1>1, <4>1 DEF ByName
    <3>2. CASE k = i
      <4>1. new[j] = rules[j] /\ new[k] = r /\ j \in 1..(i - 1)
        BY <1>1, <1>3, <2>2, <3>2
      <4> QED
        BY <1>4, <4>1
    <3>3. CASE k > i /\ j = i
      <4>1. new[j] = r /\ new[k] = rules[k - 1] /\ k - 1 \in i..n
        BY <1>1, <1>3, <2>2, <3>3
      <4> QED
        BY <2>3, <4>1
    <3>4. CASE k > i /\ j > i
      <4>1. /\ new[j] = rules[j - 1] /\ new[k] = rules[k - 1]
            /\ j - 1 \in 1..n /\ k - 1 \in 1..n /\ j - 1 < k - 1
        BY <1>1, <1>3, <2>2, <3>4
      <4> QED
        BY <1>1, <4>1 DEF ByName
    <3>5. CASE k > i /\ j < i
      <4>1. new[j] = rules[j] /\ new[k] = rules[k - 1] /\ j \in 1..(i - 1)
            /\ k - 1 \in i..n /\ k - 1 \in 1..n /\ j \in 1..n
        BY <1>1, <1>3, <2>2, <3>5
      <4> QED
        BY <1>1, <1>4, <2>3, <4>1, LessTransitive
    <3> QED
      BY <1>3, <3>1, <3>2, <3>3, <3>4, <3>5
  <2>5. \A k \in 1..n : rules[k].name # r.name
    <3> SUFFICES ASSUME NEW k \in 1..n PROVE rules[k].name # r.name
      OBVIOUS
    <3>1. k \in 1..(i - 1) \/ k \in i..n
      BY <1>1, <1>3
    <3> QED
      BY <1>1, <1>4, <2>3, <3>1, LessIrreflexive
  <2>6. Range(new) = Range(rules) \cup {r}
    <3>1. \A k \in 1..(n + 1) : new[k] \in Range(rules) \cup {r}
      <4> SUFFICES ASSUME NEW k \in 1..(n + 1), k # i PROVE new[k] \in Range(rules)
        BY <1>3, <2>2
      <4>1. \E m \in 1..n : new[k] = rules[m]
        <5>1. CASE k < i
          BY <1>1, <1>3, <2>2, <5>1
        <5>2. CASE k > i
          <6>1. k - 1 \in 1..n /\ new[k] = rules[k - 1]
            BY <1>1, <1>3, <2>2, <5>2
          <6> QED
            BY <6>1
        <5> QED
          BY <1>3, <5>1, <5>2
      <4> QED
        BY <1>1, <4>1 DEF Range
    <3>2. \A m \in 1..n : \E k \in 1..(n + 1) : new[k] = rules[m]
      <4> SUFFICES ASSUME NEW m \in 1..n PROVE \E k \in 1..(n + 1) : new[k] = rules[m]
        OBVIOUS
      <4>1. CASE m < i
        BY <1>1, <1>3, <2>2, <4>1
      <4>2. CASE ~(m < i)
        <5>1. m + 1 \in 1..(n + 1) /\ new[m + 1] = rules[m]
          BY <1>1, <1>3, <2>2, <4>2
        <5> QED
          BY <5>1
      <4> QED
        BY <4>1, <4>2
    <3>3. new[i] = r /\ DOMAIN new = 1..(n + 1)
      BY <1>3, <2>2
    <3> QED
      BY <1>1, <1>3, <3>1, <3>2, <3>3 DEF Range
  <2>7. new # <<>>
    BY <1>1, <2>2
  <2> QED
    BY <1>1, <2>1, <2>2, <2>4, <2>5, <2>6, <2>7
<1> QED
  BY <1>5, <1>6

\* What a sorted database says of its rules.
LEMMA SortedTypes ==
  ASSUME NEW d, SortedDb(d)
  PROVE  /\ Len(d) \in Nat /\ DOMAIN d = 1..Len(d)
         /\ \A g \in DOMAIN d :
              /\ d[g] \in Group /\ d[g].rules \in Seq(Rule)
              /\ Len(d[g].rules) \in Nat /\ DOMAIN d[g].rules = 1..Len(d[g].rules)
              /\ \A i \in DOMAIN d[g].rules :
                   d[g].rules[i] \in Rule /\ d[g].rules[i].name \in Names
<1>1. d \in Seq(Group)
  BY DEF SortedDb
<1>2. \A x \in Group : x.rules \in Seq(Rule)
  BY DEF Group
<1>3. \A x \in Rule : x.name \in Names
  BY DEF Rule
<1>4. \A s \in Seq(Rule) : /\ Len(s) \in Nat /\ DOMAIN s = 1..Len(s)
                           /\ \A i \in DOMAIN s : s[i] \in Rule
  OBVIOUS
<1>5. Len(d) \in Nat /\ DOMAIN d = 1..Len(d) /\ \A g \in DOMAIN d : d[g] \in Group
  BY <1>1
<1> QED
  BY <1>2, <1>3, <1>4, <1>5

LEMMA RuleIsSomewhere ==
  ASSUME NEW d, SortedDb(d)
  PROVE  \A x : x \in AllRules(d) <=>
                  \E g \in DOMAIN d : \E i \in DOMAIN d[g].rules : x = d[g].rules[i]
BY DEF AllRules, Range

\* No two rules have the same id.
LEMMA IdsAreUnique ==
  ASSUME NEW d, SortedDb(d),
         NEW x \in AllRules(d), NEW y \in AllRules(d), Id(x) = Id(y)
  PROVE  x = y
<1>1. PICK g, i : g \in DOMAIN d /\ i \in DOMAIN d[g].rules /\ x = d[g].rules[i]
  BY RuleIsSomewhere
<1>2. PICK h, j : h \in DOMAIN d /\ j \in DOMAIN d[h].rules /\ y = d[h].rules[j]
  BY RuleIsSomewhere
<1>3. x.group = y.group /\ x.name = y.name
  BY DEF Id
<1>4. g = h
  BY <1>1, <1>2, <1>3 DEF SortedDb
<1>5. x.name \in Names /\ i \in Nat /\ j \in Nat
  <2>1. \A k \in DOMAIN d[g].rules : k \in Nat /\ d[g].rules[k].name \in Names
    BY <1>1, SortedTypes
  <2> QED
    BY <1>1, <1>2, <1>4, <2>1
<1>6. ByName(d[g].rules)
  BY <1>1 DEF SortedDb
<1>7. ~(i < j) /\ ~(j < i)
  BY <1>1, <1>2, <1>3, <1>4, <1>5, <1>6, LessIrreflexive DEF ByName
<1> QED
  BY <1>1, <1>2, <1>4, <1>5, <1>7

\* A rule is added, unless one with its id is there.
LEMMA AddRuleSorts ==
  ASSUME NEW d, SortedDb(d), NEW r \in Rule
  PROVE  /\ SortedDb(AddRule(d, r))
         /\ \/ /\ \E x \in AllRules(d) : Id(x) = Id(r)
               /\ AllRules(AddRule(d, r)) = AllRules(d)
            \/ /\ \A x \in AllRules(d) : Id(x) # Id(r)
               /\ AllRules(AddRule(d, r)) = AllRules(d) \cup {r}
<1> DEFINE new == AddRule(d, r)
<1>0. r.group \in {NoGroup} \cup {id[1] : id \in AllIds}
  BY DEF Rule
<1>1. CASE \E g \in DOMAIN d : d[g].group = r.group
  <2>1. PICK g \in DOMAIN d : d[g].group = r.group
    BY <1>1
  <2>2. \A h \in DOMAIN d : d[h].group = r.group => h = g
    BY <2>1 DEF SortedDb
  <2> DEFINE rules == AddToGroup(d[g].rules, r)
  <2>3. d[g].rules \in Seq(Rule) /\ ByName(d[g].rules)
    BY SortedTypes DEF SortedDb
  <2>4. /\ rules \in Seq(Rule) /\ ByName(rules) /\ rules # <<>>
        /\ \/ /\ \E i \in DOMAIN d[g].rules : d[g].rules[i].name = r.name
              /\ rules = d[g].rules
           \/ /\ \A i \in DOMAIN d[g].rules : d[g].rules[i].name # r.name
              /\ Range(rules) = Range(d[g].rules) \cup {r}
    BY <2>3, AddToGroupSorts
  <2>5. /\ DOMAIN new = DOMAIN d
        /\ \A h \in DOMAIN d : h # g => new[h] = d[h]
        /\ new[g].group = d[g].group /\ new[g].rules = rules /\ new[g] \in Group
    <3>1. d[g] \in Group
      BY SortedTypes
    <3>2. new = [h \in DOMAIN d |->
                   IF d[h].group = r.group
                   THEN [d[h] EXCEPT !.rules = AddToGroup(d[h].rules, r)] ELSE d[h]]
      BY <1>1 DEF AddRule
    <3> HIDE DEF new, rules
    <3>3. new[g] = [d[g] EXCEPT !.rules = rules]
      BY <2>1, <3>2 DEF rules
    <3>4. new[g].group = d[g].group /\ new[g].rules = rules /\ new[g] \in Group
      BY <2>4, <3>1, <3>3 DEF Group
    <3> QED
      BY <2>2, <3>2, <3>4
  <2> HIDE DEF new, rules
  <2>6. \A i \in DOMAIN rules : rules[i].group = d[g].group
    <3> SUFFICES ASSUME NEW i \in DOMAIN rules PROVE rules[i].group = d[g].group
      OBVIOUS
    <3>1. rules[i] \in Range(d[g].rules) \cup {r}
      BY <2>4 DEF Range
    <3>2. \A x \in Range(d[g].rules) : x.group = d[g].group
      BY DEF SortedDb, Range
    <3> QED
      BY <2>1, <3>1, <3>2
  <2>7. SortedDb(new)
    <3>1. new \in Seq(Group)
      <4>1. \A h \in 1..Len(d) : new[h] \in Group
        BY <2>5, SortedTypes
      <4>2. new = [h \in 1..Len(d) |-> new[h]]
        BY <2>5, SortedTypes, <1>1 DEF new, AddRule
      <4> QED
        BY <4>1, <4>2, SortedTypes, IsASeq
    <3> QED
      BY <2>4, <2>5, <2>6, <3>1 DEF SortedDb
  <2>8. \A h \in DOMAIN d : \A i \in DOMAIN d[h].rules :
          d[h].rules[i].group = r.group => h = g
    BY <2>2 DEF SortedDb
  <2>9. CASE \E i \in DOMAIN d[g].rules : d[g].rules[i].name = r.name
    <3>1. rules = d[g].rules
      BY <2>4, <2>9
    <3>2. AllRules(new) = AllRules(d)
      BY <2>5, <3>1 DEF AllRules
    <3>3. \E x \in AllRules(d) : Id(x) = Id(r)
      <4>1. PICK i \in DOMAIN d[g].rules : d[g].rules[i].name = r.name
        BY <2>9
      <4>2. d[g].rules[i].group = r.group
        BY <2>1 DEF SortedDb
      <4> QED
        BY <4>1, <4>2, RuleIsSomewhere DEF Id
    <3> QED
      BY <2>7, <3>2, <3>3 DEF new
  <2>10. CASE \A i \in DOMAIN d[g].rules : d[g].rules[i].name # r.name
    <3>1. Range(rules) = Range(d[g].rules) \cup {r}
      BY <2>4, <2>10
    <3>2. AllRules(new) = AllRules(d) \cup {r}
      BY <2>5, <3>1 DEF AllRules
    <3>3. \A x \in AllRules(d) : Id(x) # Id(r)
      <4> SUFFICES ASSUME NEW x \in AllRules(d), Id(x) = Id(r) PROVE FALSE
        OBVIOUS
      <4>1. x.group = r.group /\ x.name = r.name
        BY DEF Id
      <4>2. PICK h, i : h \in DOMAIN d /\ i \in DOMAIN d[h].rules /\ x = d[h].rules[i]
        BY RuleIsSomewhere
      <4> QED
        BY <2>8, <2>10, <4>1, <4>2
    <3> QED
      BY <2>7, <3>2, <3>3 DEF new
  <2> QED
    BY <2>9, <2>10
<1>2. CASE ~\E g \in DOMAIN d : d[g].group = r.group
  <2> DEFINE G == [group |-> r.group, rules |-> <<r>>]
  <2>1. new = Append(d, G)
    BY <1>2 DEF AddRule
  <2>2. <<r>> \in Seq(Rule) /\ <<r>> # <<>> /\ DOMAIN <<r>> = {1} /\ <<r>>[1] = r
    OBVIOUS
  <2>3. G \in Group /\ G.group = r.group /\ G.rules = <<r>>
    BY <1>0, <2>2 DEF Group
  <2> HIDE DEF G, new
  <2>4. d \in Seq(Group) /\ Len(d) \in Nat /\ DOMAIN d = 1..Len(d)
    BY SortedTypes DEF SortedDb
  <2>5. /\ new \in Seq(Group) /\ DOMAIN new = DOMAIN d \cup {Len(d) + 1}
        /\ new[Len(d) + 1] = G /\ \A g \in DOMAIN d : new[g] = d[g]
    BY <2>1, <2>3, <2>4
  <2>6. ByName(<<r>>) /\ \A i \in DOMAIN <<r>> : <<r>>[i].group = r.group
    BY <2>2 DEF ByName
  <2>7. SortedDb(new)
    <3>1. \A g, h \in DOMAIN new : new[g].group = new[h].group => g = h
      BY <1>2, <2>3, <2>5 DEF SortedDb
    <3>2. ASSUME NEW g \in DOMAIN new
          PROVE  /\ new[g].rules # <<>> /\ ByName(new[g].rules)
                 /\ \A i \in DOMAIN new[g].rules : new[g].rules[i].group = new[g].group
      BY <2>2, <2>3, <2>5, <2>6 DEF SortedDb
    <3> QED
      BY <2>5, <3>1, <3>2 DEF SortedDb
  <2>8. AllRules(new) = AllRules(d) \cup {r}
    <3>1. Range(<<r>>) = {r}
      BY <2>2 DEF Range
    <3> QED
      BY <2>3, <2>5, <3>1 DEF AllRules
  <2>9. \A x \in AllRules(d) : Id(x) # Id(r)
    <3> SUFFICES ASSUME NEW x \in AllRules(d), Id(x) = Id(r) PROVE FALSE
      OBVIOUS
    <3>1. PICK h, i : h \in DOMAIN d /\ i \in DOMAIN d[h].rules /\ x = d[h].rules[i]
      BY RuleIsSomewhere
    <3>2. x.group = d[h].group /\ x.group = r.group
      BY <3>1 DEF SortedDb, Id
    <3> QED
      BY <1>2, <3>1, <3>2
  <2> QED
    BY <2>7, <2>8, <2>9 DEF new
<1> QED
  BY <1>1, <1>2

\* Update, with the operator as a function of the rules.
Apply(d, id, F) ==
  [g \in DOMAIN d |->
     [group |-> d[g].group,
      rules |-> [i \in DOMAIN d[g].rules |->
                   IF Id(d[g].rules[i]) = id THEN F[d[g].rules[i]]
                                             ELSE d[g].rules[i]]]]

LEMMA ApplySorts ==
  ASSUME NEW d, SortedDb(d), NEW id, NEW F \in [Rule -> Rule],
         \A x \in Rule : Id(F[x]) = Id(x)
  PROVE  /\ SortedDb(Apply(d, id, F))
         /\ AllRules(Apply(d, id, F)) =
              {IF Id(x) = id THEN F[x] ELSE x : x \in AllRules(d)}
         /\ DOMAIN Apply(d, id, F) = DOMAIN d
         /\ \A g \in DOMAIN d :
              /\ DOMAIN Apply(d, id, F)[g].rules = DOMAIN d[g].rules
              /\ \A i \in DOMAIN d[g].rules :
                   Id(Apply(d, id, F)[g].rules[i]) = Id(d[g].rules[i])
<1> DEFINE new == Apply(d, id, F)
           A(x) == IF Id(x) = id THEN F[x] ELSE x
<1>0. /\ Len(d) \in Nat /\ DOMAIN d = 1..Len(d)
      /\ \A g \in DOMAIN d :
           /\ d[g] \in Group /\ d[g].rules \in Seq(Rule)
           /\ Len(d[g].rules) \in Nat /\ DOMAIN d[g].rules = 1..Len(d[g].rules)
           /\ \A i \in DOMAIN d[g].rules : d[g].rules[i] \in Rule
  BY SortedTypes
<1>1. /\ DOMAIN new = DOMAIN d
      /\ \A g \in DOMAIN d :
           /\ new[g] = [group |-> d[g].group, rules |-> new[g].rules]
           /\ new[g].group = d[g].group
           /\ new[g].rules = [i \in DOMAIN d[g].rules |-> A(d[g].rules[i])]
  BY DEF Apply
<1>2. \A x \in Rule : A(x) \in Rule /\ Id(A(x)) = Id(x)
  OBVIOUS
<1>9. new = [g \in DOMAIN d |-> new[g]]
  BY DEF Apply
<1> HIDE DEF new, A
<1>3. ASSUME NEW g \in DOMAIN d
      PROVE  /\ new[g].rules \in Seq(Rule)
             /\ DOMAIN new[g].rules = DOMAIN d[g].rules
             /\ new[g] \in Group
             /\ \A i \in DOMAIN d[g].rules :
                  /\ new[g].rules[i] = A(d[g].rules[i])
                  /\ Id(new[g].rules[i]) = Id(d[g].rules[i])
                  /\ new[g].rules[i].group = d[g].rules[i].group
                  /\ new[g].rules[i].name = d[g].rules[i].name
  <2>1. /\ DOMAIN new[g].rules = 1..Len(d[g].rules)
        /\ \A i \in 1..Len(d[g].rules) : /\ new[g].rules[i] = A(d[g].rules[i])
                                         /\ new[g].rules[i] \in Rule
        /\ new[g].rules = [i \in 1..Len(d[g].rules) |-> new[g].rules[i]]
        /\ new[g].rules \in Seq(Rule)
    <3> DEFINE s == d[g].rules
               r == new[g].rules
    <3>1. /\ s \in Seq(Rule) /\ Len(s) \in Nat /\ DOMAIN s = 1..Len(s)
          /\ \A i \in 1..Len(s) : s[i] \in Rule
      BY <1>0
    <3>2. r = [i \in DOMAIN s |-> A(s[i])]
      BY <1>1
    <3> HIDE DEF s, r
    <3>3. /\ DOMAIN r = 1..Len(s) /\ r = [i \in 1..Len(s) |-> r[i]]
          /\ \A i \in 1..Len(s) : r[i] = A(s[i])
      BY <3>1, <3>2
    <3>4. \A i \in 1..Len(s) : r[i] \in Rule
      BY <1>2, <3>1, <3>3
    <3>5. r \in Seq(Rule)
      <4> DEFINE n == Len(s)
      <4>1. n \in Nat /\ r = [i \in 1..n |-> r[i]] /\ \A i \in 1..n : r[i] \in Rule
        BY <3>1, <3>3, <3>4
      <4> HIDE DEF n
      <4>2. [i \in 1..n |-> r[i]] \in Seq(Rule)
        BY <4>1, IsASeq
      <4> QED
        BY <4>1, <4>2
    <3> QED
      BY <3>3, <3>4, <3>5 DEF s, r
  <2>2. new[g].rules \in Seq(Rule)
    BY <2>1
  <2>3. new[g] \in Group
    <3>1. d[g].group \in {NoGroup} \cup {x[1] : x \in AllIds}
      BY <1>0 DEF Group
    <3>2. [group |-> d[g].group, rules |-> new[g].rules] \in Group
      BY <2>2, <3>1 DEF Group
    <3> QED
      BY <1>1, <3>2
  <2>4. \A i \in DOMAIN d[g].rules : Id(new[g].rules[i]) = Id(d[g].rules[i])
    BY <1>0, <1>2, <2>1
  <2> QED
    BY <1>0, <2>1, <2>2, <2>3, <2>4 DEF Id
<1>4. new \in Seq(Group)
  BY <1>0, <1>1, <1>3, <1>9, IsASeq
<1>5. SortedDb(new)
  <2>1. \A g, h \in DOMAIN new : new[g].group = new[h].group => g = h
    BY <1>1 DEF SortedDb
  <2>2. ASSUME NEW g \in DOMAIN new
        PROVE  /\ new[g].rules # <<>> /\ ByName(new[g].rules)
               /\ \A i \in DOMAIN new[g].rules : new[g].rules[i].group = new[g].group
    <3>1. /\ d[g].rules # <<>> /\ ByName(d[g].rules)
          /\ \A i \in DOMAIN d[g].rules : d[g].rules[i].group = d[g].group
      BY <1>1 DEF SortedDb
    <3>2. new[g].rules # <<>>
      <4>1. DOMAIN d[g].rules # {}
        BY <1>0, <1>1, <3>1
      <4> QED
        BY <1>1, <1>3, <4>1
    <3>3. /\ DOMAIN new[g].rules = DOMAIN d[g].rules /\ new[g].group = d[g].group
          /\ \A i \in DOMAIN d[g].rules :
               /\ new[g].rules[i].group = d[g].rules[i].group
               /\ new[g].rules[i].name = d[g].rules[i].name
      BY <1>1, <1>3
    <3>4. ByName(new[g].rules)
      BY <3>1, <3>3 DEF ByName
    <3>5. \A i \in DOMAIN new[g].rules : new[g].rules[i].group = new[g].group
      BY <3>1, <3>3
    <3> QED
      BY <3>2, <3>4, <3>5
  <2> QED
    BY <1>4, <2>1, <2>2 DEF SortedDb
<1>6. AllRules(new) = {A(x) : x \in AllRules(d)}
  <2>1. \A x : x \in AllRules(new) <=>
                 \E g \in DOMAIN d : \E i \in DOMAIN d[g].rules : x = A(d[g].rules[i])
    BY <1>1, <1>3, <1>5, RuleIsSomewhere
  <2>2. \A x : x \in AllRules(d) <=>
                 \E g \in DOMAIN d : \E i \in DOMAIN d[g].rules : x = d[g].rules[i]
    BY RuleIsSomewhere
  <2> QED
    BY <2>1, <2>2
<1> QED
  BY <1>1, <1>3, <1>5, <1>6 DEF new, A

\* The rules of the group of an id.
LEMMA GroupIsFound ==
  ASSUME NEW d, SortedDb(d), NEW group
  PROVE  /\ GroupRules(d, group) \in Seq(Rule) /\ ByName(GroupRules(d, group))
         /\ \A i \in DOMAIN GroupRules(d, group) :
              /\ GroupRules(d, group)[i] \in AllRules(d)
              /\ GroupRules(d, group)[i].group = group
<1> DEFINE gs == {g \in DOMAIN d : d[g].group = group}
<1>1. CASE gs = {}
  <2>1. GroupRules(d, group) = <<>>
    BY <1>1 DEF GroupRules
  <2> QED
    BY <2>1 DEF ByName
<1>2. CASE gs # {}
  <2>1. gs \in SUBSET Nat
    BY SortedTypes
  <2>2. Min(gs) \in gs
    <3> HIDE DEF gs
    <3> QED
      BY <1>2, <2>1, MinIsLeast
  <2>3. PICK g \in DOMAIN d : d[g].group = group /\ GroupRules(d, group) = d[g].rules
    BY <1>2, <2>2 DEF GroupRules
  <2>4. d[g].rules \in Seq(Rule)
    BY SortedTypes
  <2> QED
    BY <2>3, <2>4, RuleIsSomewhere DEF SortedDb
<1> QED
  BY <1>1, <1>2

\* PCD_rulesdb_get_rule_by_id adds nothing, or a clone of a template.
LEMMA LookupAdds ==
  ASSUME NEW d, SortedDb(d), NEW id \in Ids
  PROVE  /\ SortedDb(Lookup(d, id))
         /\ \/ Lookup(d, id) = d
            \/ LET t == Template(GroupRules(d, id[1]), id[2])
                   c == Clone(t, id[2])
               IN  /\ t \in AllRules(d) /\ t.indexed
                   /\ c \in Rule /\ Id(c) = id
                   /\ ~Has(d, id) /\ Matches(GroupRules(d, id[1]), id[2]) # {}
                   /\ \A x \in AllRules(d) : Id(x) # id
                   /\ AllRules(Lookup(d, id)) = AllRules(d) \cup {c}
<1> DEFINE rules == GroupRules(d, id[1])
           M == Matches(rules, id[2])
           t == Template(rules, id[2])
           c == Clone(t, id[2])
<1>1. CASE Has(d, id) \/ M = {}
  BY <1>1 DEF Lookup
<1>2. CASE ~Has(d, id) /\ M # {}
  <2>1. Lookup(d, id) = AddRule(d, c)
    BY <1>2 DEF Lookup
  <2>2. rules \in Seq(Rule) /\ \A i \in DOMAIN rules : rules[i] \in AllRules(d)
                                                      /\ rules[i].group = id[1]
    BY GroupIsFound
  <2>3. Max(M) \in M
    <3>1. Len(rules) \in Nat /\ M \in SUBSET (1..Len(rules))
      BY <2>2 DEF Matches
    <3> HIDE DEF M
    <3> QED
      BY <1>2, <3>1, MaxIsGreatest
  <2>4. /\ t \in AllRules(d) /\ t.indexed /\ t.group = id[1] /\ t \in Rule
    <3>1. t = rules[Max(M)] /\ Max(M) \in DOMAIN rules /\ rules[Max(M)].indexed
      BY <2>3 DEF Template, Matches
    <3>2. \A i \in DOMAIN rules : rules[i] \in Rule
      BY <2>2
    <3> QED
      BY <2>2, <3>1, <3>2
  <2>5. id = <<id[1], id[2]>> /\ id[2] \in Names
    BY IdsAssumption DEF Names
  <2> HIDE DEF t
  <2>6. c \in Rule /\ c.group = id[1] /\ c.name = id[2]
    BY <2>4, <2>5 DEF Clone, Rule, OptParams
  <2> HIDE DEF c
  <2>7. Id(c) = id
    BY <2>5, <2>6 DEF Id
  <2>8. \A x \in AllRules(d) : Id(x) # id
    BY <1>2, <2>5 DEF Has, Id
  <2>9. SortedDb(Lookup(d, id)) /\ AllRules(Lookup(d, id)) = AllRules(d) \cup {c}
    BY <2>1, <2>6, <2>7, <2>8, AddRuleSorts
  <2> QED
    BY <1>2, <2>4, <2>6, <2>7, <2>8, <2>9 DEF t, c
<1> QED
  BY <1>1, <1>2

-----------------------------------------------------------------------------
(***************************************************************************)
(* The inductive invariant.                                                *)
(***************************************************************************)

\* The parser stands in front of the first block of a file, or in a block whose
\* lines so far, and no others, have made the rule.
Frame ==
  {f \in [status : SUBSET Range(Mandatory), rule : Rule, block : Nat] :
     /\ f.rule.option \in {Unset, Stray, f.block}
     /\ f.rule.params = NoParams /\ f.rule.proc = NoProc /\ ~f.rule.waiting
     /\ IF "RULE" \in f.status
        THEN /\ Id(f.rule) \in RuleIds /\ f.rule.block = f.block
             /\ f.rule.indexed => Id(f.rule) \in Templates
             /\ \A k \in Fields \cap f.status : f.rule.from[k] = f.block
             /\ "END_COND_TIMEOUT" \in f.status => "END_COND" \in f.status
             /\ "END_COND_TIMEOUT" \in f.status /\ f.rule.end = "WAIT"
                  => f.rule.timeout = Forever
        ELSE f.status = {} /\ f.block = 0}

ParserInv ==
  /\ [status |-> status, rule |-> rule, block |-> block] \in Frame
  /\ stack \in Seq(Frame)
  /\ blocks \in Nat

WholeRule(x) ==
  /\ \A k \in Fields : x.from[k] = x.block
  /\ x.option \in {Unset, Stray, x.block}
  /\ x.end = "WAIT" => x.timeout = Forever

\* A rule x of the database, with the timer queue q, the parameters a asked for
\* and the clones sh of busy templates.  The templates are those of the files.
GoodRule(x, q, a, sh) ==
  /\ WholeRule(x)
  /\ x.indexed => Id(x) \in Templates
  /\ x.params = a[Id(x)]
  /\ Id(x) \notin sh => /\ x.proc # NoProc => x.proc.rule = Id(x)
                        /\ x.waiting <=> Id(x) \in q
  /\ x.proc # NoProc =>
       x.proc.args = IF x.proc.asked = NoParams THEN Default ELSE x.proc.asked

\* The id has a rule.
Known(d, id) == \E x \in AllRules(d) : Id(x) = id

\* The database d; nothing is asked of an id that has no rule.
GoodDb(d, q, a, sh) ==
  /\ SortedDb(d)
  /\ \A x \in AllRules(d) : GoodRule(x, q, a, sh)
  /\ a \in [AllIds -> OptParams]
  /\ \A id \in q : Known(d, id)
  /\ \A id \in AllIds : ~Known(d, id) => a[id] = NoParams

DbInv == GoodDb(db, queue, asked, sharing)

CursorInv ==
  phase = "activating" /\ cursor # <<>> =>
    \E g \in DOMAIN db : \E i \in DOMAIN db[g].rules : cursor = <<g, i>>

RulesInv == ParserInv /\ DbInv /\ CursorInv

\* A rule as the parser writes it.
NewRule(r) ==
  /\ r \in Rule /\ WholeRule(r) /\ Id(r) \in RuleIds
  /\ r.indexed => Id(r) \in Templates
  /\ r.params = NoParams /\ r.proc = NoProc /\ ~r.waiting

LEMMA AddKeepsGood ==
  ASSUME NEW d, NEW q, NEW a, NEW sh, GoodDb(d, q, a, sh), NEW r, NewRule(r)
  PROVE  GoodDb(AddRule(d, r), q, a, sh)
<1> DEFINE new == AddRule(d, r)
<1>1. /\ SortedDb(d) /\ \A x \in AllRules(d) : GoodRule(x, q, a, sh)
      /\ a \in [AllIds -> OptParams]
      /\ \A id \in q : Known(d, id)
      /\ \A id \in AllIds : ~Known(d, id) => a[id] = NoParams
  BY DEF GoodDb
<1>2. SortedDb(new) /\ (\/ Known(d, Id(r)) /\ AllRules(new) = AllRules(d)
                        \/ ~Known(d, Id(r)) /\ AllRules(new) = AllRules(d) \cup {r})
  BY <1>1, AddRuleSorts DEF NewRule, Known
<1>3. \A id : Known(d, id) => Known(new, id)
  BY <1>2 DEF Known
<1>4. \A id \in AllIds : ~Known(new, id) => a[id] = NoParams
  BY <1>1, <1>3
<1>5. ~Known(d, Id(r)) => GoodRule(r, q, a, sh)
  <2> SUFFICES ASSUME ~Known(d, Id(r)) PROVE GoodRule(r, q, a, sh)
    OBVIOUS
  <2>1. Id(r) \notin q
    BY <1>1
  <2>2. a[Id(r)] = NoParams
    BY <1>1 DEF NewRule, AllIds
  <2> QED
    BY <2>1, <2>2 DEF NewRule, GoodRule
<1>6. \A x \in AllRules(new) : GoodRule(x, q, a, sh)
  BY <1>1, <1>2, <1>5
<1> HIDE DEF new
<1> QED
  BY <1>1, <1>2, <1>3, <1>4, <1>6 DEF GoodDb, new

\* The id of a request has a rule if the model's Has finds it, and the rule is
\* the one RuleOf returns.
LEMMA HasKnows ==
  ASSUME NEW d, SortedDb(d), NEW id \in AllIds
  PROVE  /\ Has(d, id) <=> Known(d, id)
         /\ Known(d, id) => RuleOf(d, id) \in AllRules(d) /\ Id(RuleOf(d, id)) = id
<1>1. id = <<id[1], id[2]>>
  BY IdsAssumption, RuleIdsAssumption DEF AllIds
<1>2. \A x : Id(x) = id <=> x.group = id[1] /\ x.name = id[2]
  BY <1>1 DEF Id
<1>3. Has(d, id) <=> Known(d, id)
  BY <1>2 DEF Has, Known
<1>4. Known(d, id) => RuleOf(d, id) \in AllRules(d) /\ Id(RuleOf(d, id)) = id
  BY <1>2 DEF RuleOf, Known
<1> QED
  BY <1>3, <1>4

LEMMA LookupKeepsGood ==
  ASSUME NEW id \in Ids, DbInv,
         sharing' = IF ClonesBusy(id) THEN sharing \cup {id} ELSE sharing
  PROVE  /\ GoodDb(Lookup(db, id), queue, asked, sharing')
<1> DEFINE new == Lookup(db, id)
           t == Template(GroupRules(db, id[1]), id[2])
           c == Clone(t, id[2])
<1>1. /\ SortedDb(db) /\ \A x \in AllRules(db) : GoodRule(x, queue, asked, sharing)
      /\ asked \in [AllIds -> OptParams]
      /\ \A i \in queue : Known(db, i)
      /\ \A i \in AllIds : ~Known(db, i) => asked[i] = NoParams
  BY DEF DbInv, GoodDb
<1>2. sharing \subseteq sharing'
  OBVIOUS
<1>3. \A x \in AllRules(db) : GoodRule(x, queue, asked, sharing')
  BY <1>1, <1>2 DEF GoodRule
<1>4. CASE new = db
  BY <1>1, <1>3, <1>4 DEF GoodDb
<1>5. CASE new # db
  <2>1. /\ SortedDb(new)
        /\ t \in AllRules(db) /\ t.indexed
        /\ c \in Rule /\ Id(c) = id
        /\ ~Has(db, id) /\ Matches(GroupRules(db, id[1]), id[2]) # {}
        /\ \A x \in AllRules(db) : Id(x) # id
        /\ AllRules(new) = AllRules(db) \cup {c}
    BY <1>1, <1>5, LookupAdds
  <2>2. ~Known(db, id) /\ id \notin queue /\ asked[id] = NoParams
    BY <1>1, <2>1 DEF Known, AllIds
  <2>3. GoodRule(t, queue, asked, sharing) /\ t \in Rule
    BY <1>1, <2>1, SortedTypes, RuleIsSomewhere
  <2>4. id \notin sharing' => ~t.waiting /\ t.proc = NoProc
    BY <2>1, <2>3 DEF ClonesBusy, Startable, GoodRule
  <2>5. /\ c.block = t.block /\ c.from = t.from /\ c.option = t.option
        /\ c.end = t.end /\ c.timeout = t.timeout /\ c.proc = t.proc
        /\ c.params = NoParams
    <3> HIDE DEF t
    <3> QED
      BY <2>3 DEF Clone, Rule
  <2>6. c.indexed = FALSE /\ c.waiting = t.waiting
    <3> HIDE DEF t
    <3> QED
      BY <2>3, Zenon DEF Clone, Rule
  <2> HIDE DEF c, t, new
  <2>7. WholeRule(c)
    BY <2>3, <2>5 DEF GoodRule, WholeRule
  <2>8. GoodRule(c, queue, asked, sharing')
    BY <2>1, <2>2, <2>3, <2>4, <2>5, <2>6, <2>7 DEF GoodRule
  <2>9. \A i : Known(db, i) => Known(new, i)
    BY <2>1 DEF Known
  <2> QED
    BY <1>1, <1>3, <2>1, <2>8, <2>9 DEF GoodDb, new
<1> QED
  BY <1>4, <1>5

\* One rule changes, and what is known of its id.
LEMMA ApplyKeepsGood ==
  ASSUME NEW d, NEW q, NEW a, NEW sh, GoodDb(d, q, a, sh),
         NEW id, Known(d, id),
         NEW F \in [Rule -> Rule], \A x \in Rule : Id(F[x]) = Id(x),
         NEW q2, \A i : i # id => (i \in q2 <=> i \in q),
         NEW a2 \in [AllIds -> OptParams],
         \A i : i # id => a2[i] = a[i],
         \A x \in AllRules(d) : x \in Rule /\ Id(x) = id /\ GoodRule(x, q, a, sh)
                                  => GoodRule(F[x], q2, a2, sh)
  PROVE  GoodDb(Apply(d, id, F), q2, a2, sh)
<1> DEFINE new == Apply(d, id, F)
<1>1. /\ SortedDb(d) /\ \A x \in AllRules(d) : GoodRule(x, q, a, sh)
      /\ \A i \in q : Known(d, i)
      /\ \A i \in AllIds : ~Known(d, i) => a[i] = NoParams
  BY DEF GoodDb
<1>2. SortedDb(new) /\ AllRules(new) = {IF Id(x) = id THEN F[x] ELSE x : x \in AllRules(d)}
  BY <1>1, ApplySorts
<1>3. \A x \in AllRules(d) : x \in Rule
  BY <1>1, SortedTypes, RuleIsSomewhere
<1> HIDE DEF new
<1>4. \A i : Known(d, i) <=> Known(new, i)
  BY <1>2, <1>3 DEF Known
<1>5. ASSUME NEW x \in AllRules(new) PROVE GoodRule(x, q2, a2, sh)
  <2>1. PICK y \in AllRules(d) : x = IF Id(y) = id THEN F[y] ELSE y
    BY <1>2
  <2>2. CASE Id(y) = id
    BY <1>1, <1>3, <2>1, <2>2
  <2>3. CASE Id(y) # id
    <3>1. x = y /\ GoodRule(y, q, a, sh)
      BY <1>1, <2>1, <2>3
    <3>2. a2[Id(y)] = a[Id(y)] /\ (Id(y) \in q2 <=> Id(y) \in q)
      BY <2>3
    <3> QED
      BY <3>1, <3>2 DEF GoodRule
  <2> QED
    BY <2>2, <2>3
<1>6. \A i \in q2 : Known(new, i)
  BY <1>1, <1>4
<1>7. \A i \in AllIds : ~Known(new, i) => a2[i] = NoParams
  BY <1>1, <1>4
<1> QED
  BY <1>2, <1>5, <1>6, <1>7 DEF GoodDb, new

\* Update of one id is Apply.  F is the operator as a function.
Updated(d, id, F) ==
  [g \in DOMAIN d |->
     [d[g] EXCEPT !.rules =
        [i \in DOMAIN d[g].rules |->
           IF d[g].group = id[1] /\ d[g].rules[i].name = id[2]
           THEN F[d[g].rules[i]] ELSE d[g].rules[i]]]]

LEMMA UpdatedIsApply ==
  ASSUME NEW d, SortedDb(d), NEW id, id = <<id[1], id[2]>>, NEW F
  PROVE  Updated(d, id, F) = Apply(d, id, F)
<1>1. ASSUME NEW g \in DOMAIN d
      PROVE  [d[g] EXCEPT !.rules =
                [i \in DOMAIN d[g].rules |->
                   IF d[g].group = id[1] /\ d[g].rules[i].name = id[2]
                   THEN F[d[g].rules[i]] ELSE d[g].rules[i]]]
             = [group |-> d[g].group,
                rules |-> [i \in DOMAIN d[g].rules |->
                             IF Id(d[g].rules[i]) = id THEN F[d[g].rules[i]]
                                                       ELSE d[g].rules[i]]]
  <2>1. \A i \in DOMAIN d[g].rules :
          d[g].group = id[1] /\ d[g].rules[i].name = id[2] <=> Id(d[g].rules[i]) = id
    BY DEF SortedDb, Id
  <2>2. [i \in DOMAIN d[g].rules |->
           IF d[g].group = id[1] /\ d[g].rules[i].name = id[2]
           THEN F[d[g].rules[i]] ELSE d[g].rules[i]]
        = [i \in DOMAIN d[g].rules |->
             IF Id(d[g].rules[i]) = id THEN F[d[g].rules[i]] ELSE d[g].rules[i]]
    BY <2>1
  <2>3. d[g] \in Group
    BY SortedTypes
  <2> QED
    BY <2>2, <2>3 DEF Group
<1> QED
  BY <1>1 DEF Updated, Apply

-----------------------------------------------------------------------------
(***************************************************************************)
(* The parser.                                                             *)
(***************************************************************************)
LEMMA MandatoryMeans ==
  /\ Range(Mandatory) = {"RULE", "START_COND", "COMMAND", "END_COND",
                         "END_COND_TIMEOUT", "FAILURE_ACTION", "ACTIVE"}
  /\ Fields = {"START_COND", "COMMAND", "END_COND",
               "END_COND_TIMEOUT", "FAILURE_ACTION", "ACTIVE"}
  /\ Range(Mandatory) = Fields \cup {"RULE"}
<1>1. DOMAIN Mandatory = 1..7
  BY DEF Mandatory
<1>2. Range(Mandatory) = {"RULE", "START_COND", "COMMAND", "END_COND",
                          "END_COND_TIMEOUT", "FAILURE_ACTION", "ACTIVE"}
  BY <1>1 DEF Range, Mandatory
<1> QED
  BY <1>2 DEF Fields

\* A keyword is accepted after RULE, and END_COND_TIMEOUT after END_COND.
LEMMA ExpectsOrder ==
  ASSUME NEW seen, NEW key \in Fields, Expects(seen, key)
  PROVE  /\ "RULE" \in seen /\ key \notin seen
         /\ key = "END_COND_TIMEOUT" => "END_COND" \in seen
<1>1. PICK i \in 1..7 : /\ Mandatory[i] = key /\ key \notin seen
                        /\ \A j \in 1..(i - 1) : Mandatory[j] \in seen
  BY DEF Expects, Mandatory
<1>2. i # 1
  BY <1>1, MandatoryMeans DEF Mandatory
<1>3. "RULE" \in seen
  BY <1>1, <1>2 DEF Mandatory
<1>4. key = "END_COND_TIMEOUT" => i = 5
  BY <1>1 DEF Mandatory
<1>5. key = "END_COND_TIMEOUT" => "END_COND" \in seen
  BY <1>1, <1>4 DEF Mandatory
<1> QED
  BY <1>1, <1>3, <1>5

LEMMA LineValues ==
  ASSUME NEW l \in Lines
  PROVE  /\ l.key = "RULE" => l.val \in RuleIds
         /\ l.key = "END_COND" => l.val = "WAIT"
         /\ l.key = "END_COND_TIMEOUT" => l.val = 5
         /\ l.key = "ACTIVE" => l.val \in BOOLEAN
BY DEF Lines, Line

\* A rule all of whose mandatory lines were read is fit for the database.
LEMMA CompleteIsNew ==
  ASSUME ParserInv, status = Range(Mandatory)
  PROVE  NewRule(rule)
<1> DEFINE f == [status |-> status, rule |-> rule, block |-> block]
<1>1. f \in Frame /\ f.status = status /\ f.rule = rule /\ f.block = block
  BY DEF ParserInv
<1> HIDE DEF f
<1>2. "RULE" \in status /\ "END_COND_TIMEOUT" \in status
      /\ Fields \cap status = Fields
  BY MandatoryMeans
<1>3. rule \in Rule /\ Id(rule) \in RuleIds /\ rule.block = block
  BY <1>1, <1>2 DEF Frame
<1>4. WholeRule(rule)
  BY <1>1, <1>2 DEF Frame, WholeRule
<1>5. (rule.indexed => Id(rule) \in Templates) /\ ~rule.waiting
  BY <1>1, <1>2, Zenon DEF Frame
<1>6. rule.params = NoParams /\ rule.proc = NoProc
  BY <1>1 DEF Frame
<1> QED
  BY <1>3, <1>4, <1>5, <1>6 DEF NewRule

LEMMA NoRuleFrame ==
  [status |-> {}, rule |-> NoRule, block |-> 0] \in Frame
<1>1. NoRule \in Rule
  BY DEF NoRule, Rule, Names, Unset, OptParams, OptProc
<1>2. /\ NoRule.option = Unset /\ NoRule.params = NoParams
      /\ NoRule.proc = NoProc
  BY DEF NoRule
<1>3. ~NoRule.waiting
  BY DEF NoRule
<1> QED
  BY <1>1, <1>2, <1>3 DEF Frame

LEMMA CloseKeeps ==
  ASSUME ParserInv, DbInv, NEW ok, Close(status, ok), UNCHANGED runVars
  PROVE  ParserInv' /\ DbInv'
<1>1. DbInv'
  <2>1. UNCHANGED <<queue, asked, sharing>>
    BY DEF runVars
  <2>2. CASE status = Range(Mandatory)
    <3>1. db' = AddRule(db, rule)
      BY <2>2 DEF Close
    <3>2. GoodDb(AddRule(db, rule), queue, asked, sharing)
      BY <2>2, CompleteIsNew, AddKeepsGood DEF DbInv
    <3> QED
      BY <2>1, <3>1, <3>2 DEF DbInv
  <2>3. CASE status # Range(Mandatory)
    BY <2>1, <2>3 DEF Close, DbInv
  <2> QED
    BY <2>2, <2>3
<1>2. CASE stack # <<>>
  <2>1. /\ stack' = Tail(stack) /\ blocks' = blocks
        /\ status' = stack[1].status /\ rule' = stack[1].rule
        /\ block' = stack[1].block
    BY <1>2 DEF Close, Restore
  <2>2. stack[1] \in Frame /\ Tail(stack) \in Seq(Frame)
    BY <1>2 DEF ParserInv
  <2>3. \A f \in Frame : f = [status |-> f.status, rule |-> f.rule, block |-> f.block]
    BY DEF Frame
  <2> QED
    BY <1>1, <2>1, <2>2, <2>3 DEF ParserInv
<1>3. CASE stack = <<>>
  <2>1. /\ status' = {} /\ rule' = NoRule /\ block' = 0 /\ blocks' = 0
        /\ stack' = stack
    BY <1>3 DEF Close
  <2> QED
    BY <1>1, <2>1, NoRuleFrame DEF ParserInv
<1> QED
  BY <1>2, <1>3

LEMMA ReadRuleKeeps ==
  ASSUME ParserInv, DbInv, NEW l \in Lines, ReadRule(l), UNCHANGED runVars
  PROVE  ParserInv' /\ DbInv'
<1> DEFINE f == [status |-> status, rule |-> rule, block |-> block]
<1>1. CASE ("RULE" \in status /\ ~Complete) \/ ~l.good
  BY <1>1, CloseKeeps DEF ReadRule
<1>2. CASE ~(("RULE" \in status /\ ~Complete) \/ ~l.good)
  <2>1. /\ db' = IF Complete THEN AddRule(db, rule) ELSE db
        /\ status' = {"RULE"}
        /\ rule' = [Cleared EXCEPT !.group = l.val[1], !.name = l.val[2],
                                   !.indexed = l.val \in Templates,
                                   !.block = blocks + 1]
        /\ blocks' = blocks + 1 /\ block' = blocks + 1 /\ stack' = stack
    BY <1>2 DEF ReadRule
  <2>2. DbInv'
    <3>1. UNCHANGED <<queue, asked, sharing>>
      BY DEF runVars
    <3>2. Complete => GoodDb(AddRule(db, rule), queue, asked, sharing)
      BY CompleteIsNew, AddKeepsGood DEF DbInv, Complete
    <3> QED
      BY <2>1, <3>1, <3>2 DEF DbInv
  <2>3. l.val \in RuleIds /\ l.val = <<l.val[1], l.val[2]>> /\ l.val[2] \in Names
    BY LineValues, RuleIdsAssumption DEF ReadRule, Names
  <2>4. f \in Frame /\ f.status = status /\ f.rule = rule /\ f.block = block
    BY DEF ParserInv
  <2> HIDE DEF f
  <2>5. /\ Cleared \in Rule /\ Cleared.option \in {Unset, Stray}
        /\ Cleared.params = NoParams /\ Cleared.proc = NoProc
    <3>1. CASE "RULE" \in status
      <4>1. Cleared = NoRule
        BY <3>1 DEF Cleared
      <4>2. NoRule \in Rule
        BY DEF NoRule, Rule, Names, Unset, OptParams, OptProc
      <4> QED
        BY <4>1, <4>2 DEF NoRule
    <3>2. CASE "RULE" \notin status
      BY <2>4, <3>2 DEF Cleared, Frame, Unset
    <3> QED
      BY <3>1, <3>2
  <2>6. ~Cleared.waiting
    <3>1. ~NoRule.waiting
      BY DEF NoRule
    <3>2. ~rule.waiting
      BY <2>4, Zenon DEF Frame
    <3> QED
      BY <3>1, <3>2 DEF Cleared
  <2> DEFINE c == Cleared
             r == [c EXCEPT !.group = l.val[1], !.name = l.val[2],
                            !.indexed = l.val \in Templates,
                            !.block = blocks + 1]
  <2>7. c \in Rule /\ c.option \in {Unset, Stray}
        /\ c.params = NoParams /\ c.proc = NoProc /\ ~c.waiting
    BY <2>5, <2>6
  <2> HIDE DEF c
  <2>8. /\ r \in Rule /\ r.group = l.val[1] /\ r.name = l.val[2]
        /\ r.block = blocks + 1 /\ r.option = c.option
        /\ r.params = c.params /\ r.proc = c.proc
    <3>1. l.val[1] \in {NoGroup} \cup {id[1] : id \in AllIds}
      BY <2>3 DEF AllIds
    <3>2. blocks + 1 \in Int /\ (l.val \in Templates) \in BOOLEAN
      BY DEF ParserInv
    <3> QED
      BY <2>3, <2>7, <3>1, <3>2 DEF Rule
  <2>9. (r.indexed <=> l.val \in Templates) /\ r.waiting = c.waiting
    BY <2>7, Zenon DEF Rule
  <2>10. rule' = r
    BY <2>1 DEF c
  <2> HIDE DEF r
  <2>11. Id(r) = l.val
    BY <2>3, <2>8 DEF Id
  <2>12. [status |-> {"RULE"}, rule |-> r, block |-> blocks + 1] \in Frame
    <3>1. {"RULE"} \in SUBSET Range(Mandatory) /\ Fields \cap {"RULE"} = {}
      BY MandatoryMeans
    <3>2. blocks + 1 \in Nat
      BY DEF ParserInv
    <3>3. ~r.waiting /\ (r.indexed => Id(r) \in Templates)
      BY <2>7, <2>9, <2>11
    <3> QED
      BY <2>3, <2>7, <2>8, <2>11, <3>1, <3>2, <3>3 DEF Frame
  <2>13. blocks' \in Nat /\ stack' \in Seq(Frame)
    BY <2>1 DEF ParserInv
  <2>14. [status |-> status', rule |-> rule', block |-> block'] \in Frame
    BY <2>1, <2>10, <2>12
  <2> QED
    BY <2>2, <2>13, <2>14 DEF ParserInv
<1> QED
  BY <1>1, <1>2

LEMMA ReadFieldKeeps ==
  ASSUME ParserInv, DbInv, NEW l \in Lines, ReadField(l), UNCHANGED runVars
  PROVE  ParserInv' /\ DbInv'
<1> DEFINE f == [status |-> status, rule |-> rule, block |-> block]
           r == Set(l)
<1>1. CASE ~Expects(status, l.key) \/ ~l.good
  BY <1>1, CloseKeeps DEF ReadField
<1>2. CASE ~(~Expects(status, l.key) \/ ~l.good)
  <2>1. /\ rule' = r /\ status' = status \cup {l.key}
        /\ UNCHANGED <<stack, db, block, blocks>> /\ l.key \in Fields
    BY <1>2 DEF ReadField
  <2>2. /\ "RULE" \in status /\ l.key \notin status
        /\ l.key = "END_COND_TIMEOUT" => "END_COND" \in status
    BY <1>2, <2>1, ExpectsOrder
  <2>3. f \in Frame /\ f.status = status /\ f.rule = rule /\ f.block = block
    BY DEF ParserInv
  <2> HIDE DEF f
  <2>4. /\ rule \in Rule /\ status \in SUBSET Range(Mandatory) /\ block \in Nat
        /\ rule.option \in {Unset, Stray, block}
        /\ rule.params = NoParams /\ rule.proc = NoProc
        /\ Id(rule) \in RuleIds /\ rule.block = block
        /\ \A k \in Fields \cap status : rule.from[k] = block
        /\ "END_COND_TIMEOUT" \in status => "END_COND" \in status
        /\ "END_COND_TIMEOUT" \in status /\ rule.end = "WAIT" => rule.timeout = Forever
    BY <2>2, <2>3 DEF Frame
  <2>5. ~rule.waiting /\ (rule.indexed => Id(rule) \in Templates)
    BY <2>2, <2>3, Zenon DEF Frame
  <2>6. l.key # "ACTIVE" => rule.active \in BOOLEAN
    BY <2>4 DEF Rule
  <2> DEFINE act == IF l.key = "ACTIVE" THEN l.val ELSE rule.active
             end == IF l.key = "END_COND" THEN l.val ELSE rule.end
             tmo == IF l.key = "END_COND_TIMEOUT" THEN Timeout(l) ELSE rule.timeout
  <2>7. act \in BOOLEAN
    BY <2>6, LineValues
  <2>8. end \in {"NONE", "WAIT"} /\ (l.key # "END_COND" => end = rule.end)
    BY <2>4, LineValues DEF Rule
  <2>9. /\ tmo \in Int
        /\ l.key = "END_COND_TIMEOUT" /\ end = "WAIT" => tmo = Forever
        /\ l.key # "END_COND_TIMEOUT" => tmo = rule.timeout
    BY <2>4, LineValues DEF Rule, Timeout, Forever
  <2>10. r = [[rule EXCEPT !.from[l.key] = block]
               EXCEPT !.end = end, !.timeout = tmo, !.active = act]
    BY <2>4 DEF Set, Rule
  <2> HIDE DEF act, end, tmo, r
  <2>11. /\ r \in Rule /\ r.group = rule.group /\ r.name = rule.name
         /\ r.block = rule.block /\ r.option = rule.option /\ r.params = rule.params
         /\ r.proc = rule.proc /\ r.end = end /\ r.timeout = tmo
         /\ r.from = [rule.from EXCEPT ![l.key] = block]
    BY <2>1, <2>4, <2>7, <2>8, <2>9, <2>10 DEF Rule
  <2>12. r.indexed = rule.indexed /\ r.waiting = rule.waiting
    BY <2>4, <2>10, Zenon DEF Rule
  <2>13. \A k \in Fields \cap (status \cup {l.key}) : r.from[k] = block
    <3>1. rule.from \in [Fields -> Int]
      BY <2>4 DEF Rule
    <3> QED
      BY <2>1, <2>4, <2>11, <3>1
  <2>14. Id(r) = Id(rule)
    BY <2>11 DEF Id
  <2>15. [status |-> status \cup {l.key}, rule |-> r, block |-> block] \in Frame
    <3>1. status \cup {l.key} \in SUBSET Range(Mandatory)
      BY <2>1, <2>4, MandatoryMeans
    <3>2. "END_COND_TIMEOUT" \in status \cup {l.key}
            => /\ "END_COND" \in status \cup {l.key}
               /\ r.end = "WAIT" => r.timeout = Forever
      BY <2>2, <2>4, <2>8, <2>9, <2>11
    <3>3. ~r.waiting /\ (r.indexed => Id(r) \in Templates)
      BY <2>5, <2>12, <2>14
    <3>4. /\ r.option \in {Unset, Stray, block} /\ r.params = NoParams /\ r.proc = NoProc
          /\ "RULE" \in status \cup {l.key} /\ Id(r) \in RuleIds /\ r.block = block
      BY <2>2, <2>4, <2>11, <2>14
    <3> QED
      BY <2>4, <2>11, <2>13, <3>1, <3>2, <3>3, <3>4 DEF Frame
  <2>16. UNCHANGED <<queue, asked, sharing>>
    BY DEF runVars
  <2> QED
    BY <2>1, <2>15, <2>16 DEF ParserInv, DbInv
<1> QED
  BY <1>1, <1>2

LEMMA ReadOptionKeeps ==
  ASSUME ParserInv, DbInv, NEW l \in Lines, ReadOption(l), UNCHANGED runVars
  PROVE  ParserInv' /\ DbInv'
<1> DEFINE f == [status |-> status, rule |-> rule, block |-> block]
           o == IF block = 0 THEN Stray ELSE block
           r == [rule EXCEPT !.option = o]
<1>1. CASE ~l.good
  BY <1>1, CloseKeeps DEF ReadOption
<1>2. CASE l.good
  <2>1. rule' = r /\ UNCHANGED <<status, stack, db, block, blocks>>
    BY <1>2 DEF ReadOption
  <2>2. f \in Frame /\ f.status = status /\ f.rule = rule /\ f.block = block
    BY DEF ParserInv
  <2> HIDE DEF f
  <2>3. rule \in Rule /\ block \in Nat
    BY <2>2 DEF Frame
  <2>4. o \in Int /\ o \in {Unset, Stray, block}
    BY <2>3 DEF Stray
  <2> HIDE DEF o
  <2>5. /\ r \in Rule /\ r.group = rule.group /\ r.name = rule.name
        /\ r.block = rule.block /\ r.option = o /\ r.params = rule.params
        /\ r.proc = rule.proc /\ r.end = rule.end /\ r.timeout = rule.timeout
        /\ r.from = rule.from
    BY <2>3, <2>4 DEF Rule
  <2>6. r.indexed = rule.indexed /\ r.waiting = rule.waiting
    BY <2>3, Zenon DEF Rule
  <2> HIDE DEF r
  <2>7. Id(r) = Id(rule)
    BY <2>5 DEF Id
  <2>8. [status |-> status, rule |-> r, block |-> block] \in Frame
    <3>1. /\ status \in SUBSET Range(Mandatory)
          /\ r.params = NoParams /\ r.proc = NoProc
          /\ "RULE" \in status =>
               /\ Id(r) \in RuleIds /\ r.block = block
               /\ \A k \in Fields \cap status : r.from[k] = block
               /\ "END_COND_TIMEOUT" \in status => "END_COND" \in status
               /\ "END_COND_TIMEOUT" \in status /\ r.end = "WAIT"
                    => r.timeout = Forever
          /\ "RULE" \notin status => status = {} /\ block = 0
      BY <2>2, <2>5, <2>7 DEF Frame
    <3>2. ~rule.waiting /\ ("RULE" \in status => (rule.indexed => Id(rule) \in Templates))
      BY <2>2, Zenon DEF Frame
    <3>3. ~r.waiting /\ ("RULE" \in status => (r.indexed => Id(r) \in Templates))
      BY <2>6, <2>7, <3>2
    <3> QED
      BY <2>3, <2>4, <2>5, <3>1, <3>3 DEF Frame
  <2>9. UNCHANGED <<queue, asked, sharing>>
    BY DEF runVars
  <2> QED
    BY <2>1, <2>8, <2>9 DEF ParserInv, DbInv
<1> QED
  BY <1>1, <1>2

LEMMA ReadIncludeKeeps ==
  ASSUME ParserInv, DbInv, ReadInclude, UNCHANGED runVars
  PROVE  ParserInv' /\ DbInv'
<1> DEFINE f == [status |-> status, rule |-> rule, block |-> block]
<1>1. /\ stack' = <<f>> \o stack /\ UNCHANGED <<db, blocks>>
      /\ status' = {} /\ rule' = NoRule /\ block' = 0
  BY DEF ReadInclude
<1>2. f \in Frame /\ stack \in Seq(Frame)
  BY DEF ParserInv
<1> HIDE DEF f
<1>3. <<f>> \o stack \in Seq(Frame)
  BY <1>2
<1>4. UNCHANGED <<queue, asked, sharing>>
  BY DEF runVars
<1> QED
  BY <1>1, <1>3, <1>4, NoRuleFrame DEF ParserInv, DbInv

LEMMA ParseKeeps ==
  ASSUME ParserInv, DbInv, Parse
  PROVE  ParserInv' /\ DbInv' /\ CursorInv'
<1>1. UNCHANGED runVars
  BY DEF Parse
<1>2. ParserInv' /\ DbInv'
  BY <1>1, ReadRuleKeeps, ReadFieldKeeps, ReadOptionKeeps, ReadIncludeKeeps, CloseKeeps
     DEF Parse, ParserNext, EndOfFile
<1>3. phase' # "activating"
  BY DEF Parse, ParserNext, EndOfFile, ReadRule, ReadField, ReadOption, ReadInclude, Close
<1> QED
  BY <1>2, <1>3 DEF CursorInv

-----------------------------------------------------------------------------
(***************************************************************************)
(* Activation, requests, and processes.                                    *)
(***************************************************************************)

\* What these change of a rule.
With(x, w, p, pr) == [x EXCEPT !.waiting = w, !.params = p, !.proc = pr]

LEMMA WithKeeps ==
  ASSUME NEW x \in Rule, NEW w \in BOOLEAN, NEW p \in OptParams,
         NEW pr \in OptProc
  PROVE  /\ With(x, w, p, pr) \in Rule /\ Id(With(x, w, p, pr)) = Id(x)
         /\ With(x, w, p, pr).params = p /\ With(x, w, p, pr).proc = pr
         /\ With(x, w, p, pr).waiting = w
         /\ With(x, w, p, pr).indexed = x.indexed
         /\ WholeRule(x) => WholeRule(With(x, w, p, pr))
<1> DEFINE y == With(x, w, p, pr)
<1>1. /\ y \in Rule /\ y.params = p /\ y.proc = pr
      /\ y.group = x.group /\ y.name = x.name /\ y.block = x.block
      /\ y.from = x.from /\ y.option = x.option /\ y.end = x.end
      /\ y.timeout = x.timeout
  BY DEF With, Rule
<1>2. y.waiting = w /\ y.indexed = x.indexed
  BY Zenon DEF With, Rule
<1> HIDE DEF y
<1>3. Id(y) = Id(x)
  BY <1>1 DEF Id
<1>4. WholeRule(x) => WholeRule(y)
  BY <1>1 DEF WholeRule
<1> QED
  BY <1>1, <1>2, <1>3, <1>4 DEF y

LEMMA RuleTypes ==
  ASSUME NEW x \in Rule
  PROVE  /\ x.params \in OptParams /\ x.proc \in OptProc
         /\ x.waiting \in BOOLEAN
<1>1. x.params \in OptParams /\ x.proc \in OptProc
  BY DEF Rule
<1>2. x.waiting \in BOOLEAN
  BY Zenon DEF Rule
<1> QED
  BY <1>1, <1>2

\* A change of some of the fields, written as With.
LEMMA RuleFields ==
  ASSUME NEW x \in Rule
  PROVE  /\ \A w : [x EXCEPT !.waiting = w] = With(x, w, x.params, x.proc)
         /\ \A w, pr : [x EXCEPT !.waiting = w, !.proc = pr] = With(x, w, x.params, pr)
         /\ \A w, p : [x EXCEPT !.params = p, !.waiting = w] = With(x, w, p, x.proc)
         /\ \A p : [x EXCEPT !.params = p] = With(x, x.waiting, p, x.proc)
         /\ \A pr : [x EXCEPT !.proc = pr] = With(x, x.waiting, x.params, pr)
         /\ \A w, p, pr : [[x EXCEPT !.params = p] EXCEPT !.waiting = w, !.proc = pr]
                            = With(x, w, p, pr)
<1>3. x = [group |-> x.group, name |-> x.name, indexed |-> x.indexed,
           block |-> x.block, from |-> x.from, option |-> x.option, end |-> x.end,
           timeout |-> x.timeout, active |-> x.active, params |-> x.params,
           proc |-> x.proc, waiting |-> x.waiting]
  BY DEF Rule
<1>4. \A w : [x EXCEPT !.waiting = w] = With(x, w, x.params, x.proc)
  BY <1>3 DEF With
<1>5. \A w, pr : [x EXCEPT !.waiting = w, !.proc = pr] = With(x, w, x.params, pr)
  BY <1>3 DEF With
<1>6. \A w, p : [x EXCEPT !.params = p, !.waiting = w] = With(x, w, p, x.proc)
  BY <1>3 DEF With
<1>7. \A p : [x EXCEPT !.params = p] = With(x, x.waiting, p, x.proc)
  BY <1>3 DEF With
<1>8. \A pr : [x EXCEPT !.proc = pr] = With(x, x.waiting, x.params, pr)
  BY <1>3 DEF With
<1>9. \A w, p, pr : [[x EXCEPT !.params = p] EXCEPT !.waiting = w, !.proc = pr]
                      = With(x, w, p, pr)
  BY <1>3 DEF With
<1> QED
  BY <1>4, <1>5, <1>6, <1>7, <1>8, <1>9

\* The rule of one id changes, and what is known of the id.
LEMMA ChangeKeepsGood ==
  ASSUME NEW d, NEW q, NEW a, NEW sh, GoodDb(d, q, a, sh),
         NEW id, id = <<id[1], id[2]>>, Known(d, id),
         NEW q2, \A i : i # id => (i \in q2 <=> i \in q),
         NEW a2 \in [AllIds -> OptParams],
         \A i : i # id => a2[i] = a[i],
         NEW F, F = [x \in Rule |-> F[x]],
         \A x \in Rule :
           \E w \in BOOLEAN, p \in OptParams, pr \in OptProc :
             /\ F[x] = With(x, w, p, pr)
             /\ x \in AllRules(d) /\ Id(x) = id /\ GoodRule(x, q, a, sh) =>
                  /\ p = a2[id]
                  /\ id \notin sh => /\ pr # NoProc => pr.rule = id
                                     /\ w <=> id \in q2
                  /\ pr # NoProc =>
                       pr.args = IF pr.asked = NoParams THEN Default ELSE pr.asked
  PROVE  /\ GoodDb(Updated(d, id, F), q2, a2, sh)
         /\ DOMAIN Updated(d, id, F) = DOMAIN d
         /\ \A g \in DOMAIN d :
              DOMAIN Updated(d, id, F)[g].rules = DOMAIN d[g].rules
<1>1. SortedDb(d)
  BY DEF GoodDb
<1>2. Updated(d, id, F) = Apply(d, id, F)
  BY <1>1, UpdatedIsApply
<1>3. ASSUME NEW x \in Rule
      PROVE  /\ F[x] \in Rule /\ Id(F[x]) = Id(x)
             /\ x \in AllRules(d) /\ Id(x) = id /\ GoodRule(x, q, a, sh)
                  => GoodRule(F[x], q2, a2, sh)
  <2>1. PICK w \in BOOLEAN, p \in OptParams, pr \in OptProc :
          /\ F[x] = With(x, w, p, pr)
          /\ x \in AllRules(d) /\ Id(x) = id /\ GoodRule(x, q, a, sh) =>
               /\ p = a2[id]
               /\ id \notin sh => /\ pr # NoProc => pr.rule = id
                                  /\ w <=> id \in q2
               /\ pr # NoProc =>
                    pr.args = IF pr.asked = NoParams THEN Default ELSE pr.asked
    OBVIOUS
  <2>3. /\ With(x, w, p, pr) \in Rule /\ Id(With(x, w, p, pr)) = Id(x)
        /\ With(x, w, p, pr).params = p /\ With(x, w, p, pr).proc = pr
        /\ With(x, w, p, pr).waiting = w
        /\ With(x, w, p, pr).indexed = x.indexed
        /\ WholeRule(x) => WholeRule(With(x, w, p, pr))
    <3>1. w \in BOOLEAN /\ p \in OptParams /\ pr \in OptProc
      BY <2>1
    <3> QED
      BY <3>1, WithKeeps
  <2>2. /\ F[x] \in Rule /\ Id(F[x]) = Id(x)
        /\ F[x].params = p /\ F[x].proc = pr
        /\ F[x].waiting = w /\ F[x].indexed = x.indexed
        /\ WholeRule(x) => WholeRule(F[x])
    BY <2>1, <2>3, Zenon
  <2> QED
    BY <2>1, <2>2 DEF GoodRule
<1>4. F \in [Rule -> Rule]
  BY <1>3
<1>5. GoodDb(Apply(d, id, F), q2, a2, sh)
  BY <1>3, <1>4, ApplyKeepsGood
<1>6. /\ DOMAIN Apply(d, id, F) = DOMAIN d
      /\ \A g \in DOMAIN d : DOMAIN Apply(d, id, F)[g].rules = DOMAIN d[g].rules
  BY <1>1, <1>3, <1>4, ApplySorts
<1> QED
  BY <1>2, <1>5, <1>6

LEMMA ActivateNextKeeps ==
  ASSUME DbInv, CursorInv, ActivateNext
  PROVE  DbInv' /\ CursorInv'
<1>1. phase = "activating" /\ cursor # <<>> /\ phase' = phase
  BY DEF ActivateNext
<1>2. PICK g, i : g \in DOMAIN db /\ i \in DOMAIN db[g].rules /\ cursor = <<g, i>>
  BY <1>1 DEF CursorInv
<1> DEFINE x == db[g].rules[i]
           F == [y \in Rule |-> Enqueued(y)]
<1>3. SortedDb(db) /\ asked \in [AllIds -> OptParams]
      /\ GoodDb(db, queue, asked, sharing)
  BY DEF DbInv, GoodDb
<1>4. x \in AllRules(db) /\ x \in Rule
  BY <1>2, <1>3, SortedTypes, RuleIsSomewhere
<1>7. UNCHANGED <<asked, sharing>> /\ cursor' = NextRule(db, cursor)
  BY DEF ActivateNext
<1>8. /\ DbInv' /\ DOMAIN db' = DOMAIN db
      /\ \A h \in DOMAIN db : DOMAIN db'[h].rules = DOMAIN db[h].rules
  <2>1. CASE x.active
    <3>1. db' = Update(db, Id(x), Enqueued) /\ queue' = queue \cup {Id(x)}
      BY <1>2, <2>1 DEF ActivateNext
    <3>2. Update(db, Id(x), Enqueued) = Updated(db, Id(x), F)
      <4>1. \A h \in DOMAIN db : \A j \in DOMAIN db[h].rules :
              Enqueued(db[h].rules[j]) = F[db[h].rules[j]]
        BY <1>3, SortedTypes
      <4> HIDE DEF F
      <4> QED
        BY <4>1 DEF Update, Updated
    <3>3. ASSUME NEW y \in Rule
          PROVE  \E w \in BOOLEAN, p \in OptParams,
                    pr \in OptProc :
                   /\ F[y] = With(y, w, p, pr)
                   /\ y \in AllRules(db) /\ Id(y) = Id(x)
                        /\ GoodRule(y, queue, asked, sharing) =>
                        /\ p = asked[Id(x)]
                        /\ Id(x) \notin sharing =>
                             /\ pr # NoProc => pr.rule = Id(x)
                             /\ w <=> Id(x) \in queue \cup {Id(x)}
                        /\ pr # NoProc =>
                             pr.args = IF pr.asked = NoParams THEN Default ELSE pr.asked
      <4>1. F[y] = With(y, TRUE, y.params, y.proc)
        BY RuleFields DEF Enqueued
      <4> y.params \in OptParams /\ y.proc \in OptProc
        BY RuleTypes
      <4> WITNESS TRUE \in BOOLEAN, y.params \in OptParams,
                  y.proc \in OptProc
      <4> QED
        BY <4>1 DEF GoodRule
    <3>4. Known(db, Id(x)) /\ Id(x) = <<Id(x)[1], Id(x)[2]>>
      BY <1>4 DEF Known, Id
    <3>5. F = [y \in Rule |-> F[y]]
      OBVIOUS
    <3> DEFINE id == Id(x)
               q2 == queue \cup {id}
    <3>7. \A j : j # id => (j \in q2 <=> j \in queue)
      OBVIOUS
    <3> HIDE DEF F, x, id, q2
    <3>6. /\ GoodDb(db', q2, asked, sharing)
          /\ DOMAIN db' = DOMAIN db
          /\ \A h \in DOMAIN db : DOMAIN db'[h].rules = DOMAIN db[h].rules
      BY <1>3, <3>1, <3>2, <3>3, <3>4, <3>5, <3>7, ChangeKeepsGood DEF q2, id
    <3> QED
      BY <1>7, <3>1, <3>6 DEF DbInv, q2, id
  <2>2. CASE ~x.active
    BY <1>2, <1>7, <2>2 DEF ActivateNext, DbInv
  <2> QED
    BY <2>1, <2>2
<1>9. CursorInv'
  <2>1. /\ Len(db) \in Nat /\ DOMAIN db = 1..Len(db)
        /\ \A h \in DOMAIN db : /\ Len(db[h].rules) \in Nat /\ db[h].rules # <<>>
                                /\ DOMAIN db[h].rules = 1..Len(db[h].rules)
                                /\ db[h].rules \in Seq(Rule)
    BY <1>3, SortedTypes DEF SortedDb
  <2>2. \A h \in DOMAIN db : 1 \in DOMAIN db[h].rules
    BY <2>1, EmptySeq
  <2>3. \/ cursor' = <<g, i + 1>> /\ i + 1 \in DOMAIN db[g].rules
        \/ cursor' = <<g + 1, 1>> /\ g + 1 \in DOMAIN db
        \/ cursor' = <<>>
    BY <1>2, <1>7, <2>1 DEF NextRule
  <2> QED
    BY <1>2, <1>8, <2>2, <2>3 DEF CursorInv
<1> QED
  BY <1>8, <1>9

\* The request of a client finds the database as good as it was.
LEMMA RequestFinds ==
  ASSUME DbInv, NEW id \in Ids, Request(id), Has(Lookup(db, id), id)
  PROVE  /\ GoodDb(Lookup(db, id), queue, asked, sharing')
         /\ SortedDb(Lookup(db, id))
         /\ asked \in [AllIds -> OptParams]
         /\ id \in AllIds /\ id = <<id[1], id[2]>>
         /\ Known(Lookup(db, id), id)
         /\ \A x \in AllRules(Lookup(db, id)) :
              Id(x) = id => x = RuleOf(Lookup(db, id), id)
<1> DEFINE found == Lookup(db, id)
<1>1. GoodDb(found, queue, asked, sharing')
  BY LookupKeepsGood DEF Request
<1>2. SortedDb(found) /\ asked \in [AllIds -> OptParams]
  BY <1>1 DEF GoodDb
<1>3. id \in AllIds /\ id = <<id[1], id[2]>>
  BY IdsAssumption DEF AllIds
<1> HIDE DEF found
<1>4. Known(found, id) /\ RuleOf(found, id) \in AllRules(found)
      /\ Id(RuleOf(found, id)) = id
  BY <1>2, <1>3, HasKnows DEF found
<1>5. \A x \in AllRules(found) : Id(x) = id => x = RuleOf(found, id)
  BY <1>2, <1>4, IdsAreUnique
<1> QED
  BY <1>1, <1>2, <1>3, <1>4, <1>5 DEF found

LEMMA ApiQueryKeeps ==
  ASSUME DbInv, NEW id \in Ids, ApiQuery(id)
  PROVE  DbInv'
<1>1. GoodDb(Lookup(db, id), queue, asked, sharing')
  BY LookupKeepsGood DEF ApiQuery, Request
<1> QED
  BY <1>1 DEF ApiQuery, DbInv

LEMMA ApiStartKeeps ==
  ASSUME DbInv, NEW id \in Ids, NEW par \in OptParams, ApiStart(id, par)
  PROVE  DbInv'
<1> DEFINE found == Lookup(db, id)
           starts == Startable(RuleOf(found, id))
           set(x) == [x EXCEPT !.params = IF par = NoParams THEN @ ELSE par,
                               !.waiting = @ \/ starts]
           F == [x \in Rule |-> set(x)]
           q2 == IF starts THEN queue \cup {id} ELSE queue
           a2 == IF par = NoParams THEN asked ELSE [asked EXCEPT ![id] = par]
<1>1. db' = Update(found, id, set) /\ queue' = q2 /\ asked' = a2
  BY DEF ApiStart
<1>2. /\ GoodDb(found, queue, asked, sharing') /\ SortedDb(found)
      /\ asked \in [AllIds -> OptParams]
      /\ id \in AllIds /\ id = <<id[1], id[2]>> /\ Known(found, id)
      /\ \A x \in AllRules(found) : Id(x) = id => x = RuleOf(found, id)
  BY RequestFinds DEF ApiStart
<1>3. /\ a2 \in [AllIds -> OptParams] /\ \A i : i # id => a2[i] = asked[i]
      /\ a2[id] = IF par = NoParams THEN asked[id] ELSE par
  BY <1>2
<1>4. \A i : i # id => (i \in q2 <=> i \in queue)
  OBVIOUS
<1>5. \A y \in Rule : F[y] = With(y, y.waiting \/ starts,
                                  IF par = NoParams THEN y.params ELSE par, y.proc)
  <2> SUFFICES ASSUME NEW y \in Rule
               PROVE  set(y) = With(y, y.waiting \/ starts,
                                    IF par = NoParams THEN y.params ELSE par, y.proc)
    OBVIOUS
  <2>1. \A w, p : [y EXCEPT !.params = p, !.waiting = w] = With(y, w, p, y.proc)
    BY RuleFields
  <2> QED
    BY <2>1, Zenon
<1>6. Update(found, id, set) = Updated(found, id, F)
  <2>1. \A g \in DOMAIN found : \A i \in DOMAIN found[g].rules :
          set(found[g].rules[i]) = F[found[g].rules[i]]
    BY <1>2, SortedTypes
  <2> HIDE DEF F, set, found
  <2> QED
    BY <2>1 DEF Update, Updated
<1>7. F = [x \in Rule |-> F[x]]
  OBVIOUS
<1>8. \A x \in AllRules(found) : Id(x) = id => (starts <=> ~x.waiting /\ x.proc = NoProc)
  BY <1>2 DEF Startable
<1>9. starts => id \in q2
  OBVIOUS
<1>10. ~starts => q2 = queue
  OBVIOUS
<1>11. starts \in BOOLEAN
  BY DEF Startable
<1> HIDE DEF found, starts, set, F, q2, a2
<1>12. ASSUME NEW y \in Rule
       PROVE  \E w \in BOOLEAN, p \in OptParams, pr \in OptProc :
                /\ F[y] = With(y, w, p, pr)
                /\ y \in AllRules(found) /\ Id(y) = id
                     /\ GoodRule(y, queue, asked, sharing') =>
                     /\ p = a2[id]
                     /\ id \notin sharing' => /\ pr # NoProc => pr.rule = id
                                              /\ w <=> id \in q2
                     /\ pr # NoProc =>
                          pr.args = IF pr.asked = NoParams THEN Default ELSE pr.asked
  <2> DEFINE w == y.waiting \/ starts
             p == IF par = NoParams THEN y.params ELSE par
  <2> w \in BOOLEAN /\ y.proc \in OptProc
    BY RuleTypes
  <2> p \in OptParams
    BY RuleTypes
  <2>1. F[y] = With(y, w, p, y.proc)
    BY <1>5
  <2>2. ASSUME y \in AllRules(found), Id(y) = id, GoodRule(y, queue, asked, sharing')
        PROVE  /\ p = a2[id]
               /\ id \notin sharing' => /\ y.proc # NoProc => y.proc.rule = id
                                        /\ w <=> id \in q2
               /\ y.proc # NoProc => y.proc.args =
                    IF y.proc.asked = NoParams THEN Default ELSE y.proc.asked
    <3>1. p = a2[id]
      BY <1>3, <2>2 DEF GoodRule
    <3>2. id \notin sharing' => (w <=> id \in q2)
      BY <1>8, <1>9, <1>10, <2>2 DEF GoodRule
    <3> QED
      BY <2>2, <3>1, <3>2 DEF GoodRule
  <2> HIDE DEF w, p
  <2> WITNESS w \in BOOLEAN, p \in OptParams, y.proc \in OptProc
  <2> QED
    BY <2>1, <2>2
<1>13. GoodDb(Updated(found, id, F), q2, a2, sharing')
  BY <1>2, <1>3, <1>4, <1>7, <1>12, ChangeKeepsGood
<1> QED
  BY <1>1, <1>6, <1>13 DEF DbInv

LEMMA ApiStopKeeps ==
  ASSUME DbInv, NEW id \in Ids, ApiStop(id)
  PROVE  DbInv'
<1> DEFINE found == Lookup(db, id)
           stop(x) == IF id \in queue \/ x.proc # NoProc
                      THEN [ClearParams(x) EXCEPT !.waiting = FALSE, !.proc = NoProc]
                      ELSE ClearParams(x)
           F == [x \in Rule |-> stop(x)]
           q2 == queue \ {id}
           a2 == [asked EXCEPT ![id] = NoParams]
<1>1. db' = Update(found, id, stop) /\ queue' = q2 /\ asked' = a2
  BY DEF ApiStop
<1>2. /\ GoodDb(found, queue, asked, sharing') /\ SortedDb(found)
      /\ asked \in [AllIds -> OptParams]
      /\ id \in AllIds /\ id = <<id[1], id[2]>> /\ Known(found, id)
  BY RequestFinds DEF ApiStop
<1>3. /\ a2 \in [AllIds -> OptParams] /\ \A i : i # id => a2[i] = asked[i]
      /\ a2[id] = NoParams
  BY <1>2 DEF OptParams
<1>4. \A i : i # id => (i \in q2 <=> i \in queue)
  OBVIOUS
<1>5. \A y \in Rule :
        F[y] = IF id \in queue \/ y.proc # NoProc THEN With(y, FALSE, NoParams, NoProc)
               ELSE With(y, y.waiting, NoParams, y.proc)
  <2> SUFFICES ASSUME NEW y \in Rule
               PROVE  /\ ClearParams(y) = With(y, y.waiting, NoParams, y.proc)
                      /\ [ClearParams(y) EXCEPT !.waiting = FALSE, !.proc = NoProc]
                           = With(y, FALSE, NoParams, NoProc)
    OBVIOUS
  <2>1. \A p : [y EXCEPT !.params = p] = With(y, y.waiting, p, y.proc)
    BY RuleFields
  <2>2. \A w, p, pr : [[y EXCEPT !.params = p] EXCEPT !.waiting = w, !.proc = pr]
                        = With(y, w, p, pr)
    BY RuleFields
  <2> QED
    BY <2>1, <2>2, Zenon DEF ClearParams
<1>6. Update(found, id, stop) = Updated(found, id, F)
  <2>1. \A g \in DOMAIN found : \A i \in DOMAIN found[g].rules :
          stop(found[g].rules[i]) = F[found[g].rules[i]]
    BY <1>2, SortedTypes
  <2> HIDE DEF F, stop, found
  <2> QED
    BY <2>1 DEF Update, Updated
<1>7. F = [x \in Rule |-> F[x]]
  OBVIOUS
<1>8. id \notin q2
  OBVIOUS
<1> HIDE DEF found, stop, F, q2, a2
<1>12. ASSUME NEW y \in Rule
       PROVE  \E w \in BOOLEAN, p \in OptParams, pr \in OptProc :
                /\ F[y] = With(y, w, p, pr)
                /\ y \in AllRules(found) /\ Id(y) = id
                     /\ GoodRule(y, queue, asked, sharing') =>
                     /\ p = a2[id]
                     /\ id \notin sharing' => /\ pr # NoProc => pr.rule = id
                                              /\ w <=> id \in q2
                     /\ pr # NoProc =>
                          pr.args = IF pr.asked = NoParams THEN Default ELSE pr.asked
  <2> y.waiting \in BOOLEAN /\ y.proc \in OptProc
    BY RuleTypes
  <2> NoParams \in OptParams /\ NoProc \in OptProc
    BY DEF OptParams, OptProc
  <2>1. CASE id \in queue \/ y.proc # NoProc
    <3>1. F[y] = With(y, FALSE, NoParams, NoProc)
      BY <1>5, <2>1
    <3> WITNESS FALSE \in BOOLEAN, NoParams \in OptParams, NoProc \in OptProc
    <3> QED
      BY <1>3, <1>8, <3>1
  <2>2. CASE ~(id \in queue \/ y.proc # NoProc)
    <3>1. F[y] = With(y, y.waiting, NoParams, y.proc)
      BY <1>5, <2>2
    <3> WITNESS y.waiting \in BOOLEAN, NoParams \in OptParams, y.proc \in OptProc
    <3> QED
      BY <1>3, <1>8, <2>2, <3>1 DEF GoodRule
  <2> QED
    BY <2>1, <2>2
<1>13. GoodDb(Updated(found, id, F), q2, a2, sharing')
  BY <1>2, <1>3, <1>4, <1>7, <1>12, ChangeKeepsGood
<1> QED
  BY <1>1, <1>6, <1>13 DEF DbInv

LEMMA SpawnKeeps ==
  ASSUME DbInv, NEW id \in AllIds, Spawn(id)
  PROVE  DbInv'
<1> DEFINE new(x) == [rule |-> id, asked |-> asked[id],
                      args |-> IF x.params = NoParams THEN Default ELSE x.params]
           run(x) == [x EXCEPT !.waiting = FALSE, !.proc = new(x)]
           F == [x \in Rule |-> run(x)]
           q2 == queue \ {id}
<1>1. db' = Update(db, id, run) /\ queue' = q2 /\ UNCHANGED <<asked, sharing>>
      /\ id \in queue
  BY DEF Spawn
<1>2. /\ GoodDb(db, queue, asked, sharing) /\ SortedDb(db)
      /\ asked \in [AllIds -> OptParams] /\ Known(db, id)
  BY <1>1 DEF DbInv, GoodDb
<1>3. id = <<id[1], id[2]>>
  BY IdsAssumption, RuleIdsAssumption DEF AllIds
<1>4. \A i : i # id => (i \in q2 <=> i \in queue)
  OBVIOUS
<1>5. \A y \in Rule : F[y] = With(y, FALSE, y.params, new(y))
  <2> SUFFICES ASSUME NEW y \in Rule
               PROVE  run(y) = With(y, FALSE, y.params, new(y))
    OBVIOUS
  <2>1. \A w, pr : [y EXCEPT !.waiting = w, !.proc = pr] = With(y, w, y.params, pr)
    BY RuleFields
  <2> QED
    BY <2>1, Zenon
<1>6. Update(db, id, run) = Updated(db, id, F)
  <2>1. \A g \in DOMAIN db : \A i \in DOMAIN db[g].rules :
          run(db[g].rules[i]) = F[db[g].rules[i]]
    BY <1>2, SortedTypes
  <2> HIDE DEF F, run
  <2> QED
    BY <2>1 DEF Update, Updated
<1>7. F = [x \in Rule |-> F[x]]
  OBVIOUS
<1>8. id \notin q2
  OBVIOUS
<1> HIDE DEF run, F, q2
<1>12. ASSUME NEW y \in Rule
       PROVE  \E w \in BOOLEAN, p \in OptParams, pr \in OptProc :
                /\ F[y] = With(y, w, p, pr)
                /\ y \in AllRules(db) /\ Id(y) = id
                     /\ GoodRule(y, queue, asked, sharing) =>
                     /\ p = asked[id]
                     /\ id \notin sharing => /\ pr # NoProc => pr.rule = id
                                             /\ w <=> id \in q2
                     /\ pr # NoProc =>
                          pr.args = IF pr.asked = NoParams THEN Default ELSE pr.asked
  <2> y.params \in OptParams
    BY RuleTypes
  <2> new(y) \in OptProc
    <3>1. asked[id] \in OptParams
      BY <1>2
    <3>2. (IF y.params = NoParams THEN Default ELSE y.params)
            \in Params \cup {NoParams, Default}
      BY DEF OptParams
    <3> QED
      BY <3>1, <3>2 DEF OptProc, Procs
  <2>1. F[y] = With(y, FALSE, y.params, new(y))
    BY <1>5
  <2>2. new(y).rule = id /\ new(y).asked = asked[id]
        /\ new(y).args = IF y.params = NoParams THEN Default ELSE y.params
    OBVIOUS
  <2> HIDE DEF new
  <2> WITNESS FALSE \in BOOLEAN, y.params \in OptParams, new(y) \in OptProc
  <2> QED
    BY <1>8, <2>1, <2>2 DEF GoodRule
<1>13. GoodDb(Updated(db, id, F), q2, asked, sharing)
  BY <1>2, <1>3, <1>4, <1>7, <1>12, ChangeKeepsGood
<1> QED
  BY <1>1, <1>6, <1>13 DEF DbInv

LEMMA ExitKeeps ==
  ASSUME DbInv, NEW id \in AllIds, Exit(id)
  PROVE  DbInv'
<1> DEFINE end(x) == [x EXCEPT !.proc = NoProc]
           F == [x \in Rule |-> end(x)]
           q2 == queue
<1>1. db' = Update(db, id, end) /\ UNCHANGED <<queue, asked, sharing>> /\ Has(db, id)
  BY DEF Exit, runVars
<1>2. /\ GoodDb(db, queue, asked, sharing) /\ SortedDb(db)
      /\ asked \in [AllIds -> OptParams] /\ Known(db, id)
  BY <1>1, HasKnows DEF DbInv, GoodDb
<1>3. id = <<id[1], id[2]>>
  BY IdsAssumption, RuleIdsAssumption DEF AllIds
<1>4. q2 = queue /\ \A i : i # id => (i \in q2 <=> i \in queue)
  OBVIOUS
<1>5. \A y \in Rule : F[y] = With(y, y.waiting, y.params, NoProc)
  <2> SUFFICES ASSUME NEW y \in Rule
               PROVE  end(y) = With(y, y.waiting, y.params, NoProc)
    OBVIOUS
  <2>1. \A pr : [y EXCEPT !.proc = pr] = With(y, y.waiting, y.params, pr)
    BY RuleFields
  <2> QED
    BY <2>1, Zenon
<1>6. Update(db, id, end) = Updated(db, id, F)
  <2>1. \A g \in DOMAIN db : \A i \in DOMAIN db[g].rules :
          end(db[g].rules[i]) = F[db[g].rules[i]]
    BY <1>2, SortedTypes
  <2> HIDE DEF F, end
  <2> QED
    BY <2>1 DEF Update, Updated
<1>7. F = [x \in Rule |-> F[x]]
  OBVIOUS
<1> HIDE DEF end, F, q2
<1>12. ASSUME NEW y \in Rule
       PROVE  \E w \in BOOLEAN, p \in OptParams, pr \in OptProc :
                /\ F[y] = With(y, w, p, pr)
                /\ y \in AllRules(db) /\ Id(y) = id
                     /\ GoodRule(y, queue, asked, sharing) =>
                     /\ p = asked[id]
                     /\ id \notin sharing => /\ pr # NoProc => pr.rule = id
                                             /\ w <=> id \in q2
                     /\ pr # NoProc =>
                          pr.args = IF pr.asked = NoParams THEN Default ELSE pr.asked
  <2> y.params \in OptParams /\ y.waiting \in BOOLEAN
    BY RuleTypes
  <2> NoProc \in OptProc
    BY DEF OptProc
  <2>1. F[y] = With(y, y.waiting, y.params, NoProc)
    BY <1>5
  <2> WITNESS y.waiting \in BOOLEAN, y.params \in OptParams, NoProc \in OptProc
  <2> QED
    BY <1>4, <2>1 DEF GoodRule
<1>13. GoodDb(Updated(db, id, F), q2, asked, sharing)
  BY <1>2, <1>3, <1>4, <1>7, <1>12, ChangeKeepsGood
<1> QED
  BY <1>1, <1>4, <1>6, <1>13 DEF DbInv

-----------------------------------------------------------------------------
(***************************************************************************)
(* The theorems.                                                           *)
(***************************************************************************)
LEMMA RulesInit ==
  Init => RulesInv
<1> SUFFICES ASSUME Init PROVE RulesInv
  OBVIOUS
<1>1. ParserInv
  <2>1. stack \in Seq(Frame)
    BY DEF Init, ParserInit
  <2> QED
    BY <2>1, NoRuleFrame DEF Init, ParserInit, ParserInv
<1>2. AllRules(db) = {}
  BY DEF Init, ParserInit, AllRules
<1>3. SortedDb(db)
  BY DEF Init, ParserInit, SortedDb
<1>4. asked = [id \in AllIds |-> NoParams] /\ queue = {}
  BY DEF Init, AllIds
<1>5. DbInv
  BY <1>2, <1>3, <1>4 DEF DbInv, GoodDb, OptParams
<1>6. CursorInv
  BY DEF Init, CursorInv
<1> QED
  BY <1>1, <1>5, <1>6 DEF RulesInv

\* The parser's own variables and the cursor, when only the database changes.
LEMMA ParserIsIdle ==
  ASSUME ParserInv, UNCHANGED parserVars
  PROVE  ParserInv'
BY DEF ParserInv, parserVars

LEMMA CursorIsIdle ==
  ASSUME phase = "run", phase' = phase
  PROVE  CursorInv'
BY DEF CursorInv

LEMMA FirstIsValid ==
  ASSUME DbInv, ActivateFirst
  PROVE  CursorInv'
<1>1. cursor' = FirstRule(db) /\ db' = db
  BY DEF ActivateFirst
<1>2. CASE db = <<>>
  BY <1>1, <1>2 DEF FirstRule, CursorInv
<1>3. CASE db # <<>>
  <2>1. SortedDb(db)
    BY DEF DbInv, GoodDb
  <2>2. db \in Seq(Group) /\ Len(db) \in Nat /\ DOMAIN db = 1..Len(db)
    BY <2>1, SortedTypes DEF SortedDb
  <2>3. 1 \in DOMAIN db
    BY <1>3, <2>2, EmptySeq
  <2>4. /\ db[1].rules \in Seq(Rule) /\ db[1].rules # <<>>
        /\ Len(db[1].rules) \in Nat /\ DOMAIN db[1].rules = 1..Len(db[1].rules)
    BY <2>1, <2>3, SortedTypes DEF SortedDb
  <2>5. 1 \in DOMAIN db[1].rules
    BY <2>4, EmptySeq
  <2> QED
    BY <1>1, <1>3, <2>3, <2>5 DEF FirstRule, CursorInv
<1> QED
  BY <1>2, <1>3

LEMMA RulesNext ==
  RulesInv /\ [Next]_vars => RulesInv'
<1> SUFFICES ASSUME ParserInv, DbInv, CursorInv, [Next]_vars PROVE RulesInv'
  BY DEF RulesInv
<1>1. CASE Parse
  BY <1>1, ParseKeeps DEF RulesInv
<1>2. CASE ActivateFirst
  <2>1. DbInv'
    BY <1>2 DEF ActivateFirst, DbInv
  <2> QED
    BY <1>2, <2>1, FirstIsValid, ParserIsIdle DEF RulesInv, ActivateFirst
<1>3. CASE ActivateNext
  BY <1>3, ActivateNextKeeps, ParserIsIdle DEF RulesInv, ActivateNext
<1>4. CASE ActivateDone
  <2>1. DbInv' /\ CursorInv'
    BY <1>4 DEF ActivateDone, DbInv, CursorInv
  <2> QED
    BY <1>4, <2>1, ParserIsIdle DEF RulesInv, ActivateDone
<1>5. ASSUME NEW id \in Ids, ApiQuery(id) PROVE RulesInv'
  <2>1. DbInv'
    BY <1>5, ApiQueryKeeps
  <2> QED
    BY <1>5, <2>1, ParserIsIdle, CursorIsIdle DEF RulesInv, ApiQuery, Request
<1>6. ASSUME NEW id \in Ids, ApiStop(id) PROVE RulesInv'
  <2>1. DbInv'
    BY <1>6, ApiStopKeeps
  <2> QED
    BY <1>6, <2>1, ParserIsIdle, CursorIsIdle DEF RulesInv, ApiStop, Request
<1>7. ASSUME NEW id \in Ids, NEW par \in Params \cup {NoParams}, ApiStart(id, par)
      PROVE  RulesInv'
  <2>1. DbInv'
    BY <1>7, ApiStartKeeps DEF OptParams
  <2> QED
    BY <1>7, <2>1, ParserIsIdle, CursorIsIdle DEF RulesInv, ApiStart, Request
<1>8. ASSUME NEW id \in Ids \cup RuleIds, Spawn(id) PROVE RulesInv'
  <2>1. DbInv'
    BY <1>8, SpawnKeeps DEF AllIds
  <2> QED
    BY <1>8, <2>1, ParserIsIdle, CursorIsIdle DEF RulesInv, Spawn
<1>9. ASSUME NEW id \in Ids \cup RuleIds, Exit(id) PROVE RulesInv'
  <2>1. DbInv'
    BY <1>9, ExitKeeps DEF AllIds
  <2> QED
    BY <1>9, <2>1, ParserIsIdle, CursorIsIdle DEF RulesInv, Exit
<1>10. CASE UNCHANGED vars
  <2>1. UNCHANGED parserVars /\ UNCHANGED <<phase, db, queue, asked, sharing, cursor>>
    BY <1>10 DEF vars, parserVars
  <2>2. DbInv' /\ CursorInv'
    BY <2>1 DEF DbInv, CursorInv
  <2> QED
    BY <2>1, <2>2, ParserIsIdle DEF RulesInv
<1> QED
  BY <1>1, <1>2, <1>3, <1>4, <1>5, <1>6, <1>7, <1>8, <1>9, <1>10 DEF Next

LEMMA RulesInvariant ==
  Spec => []RulesInv
BY RulesInit, RulesNext, PTL DEF Spec

\* Every rule of the database is made of the lines of its own block, and WAIT has
\* no timeout: includes in the middle of a block, files that are wrong and the
\* one static rule of the parser do not mix the blocks up.
THEOREM RulesAreWholeCorrect ==
  Spec => []RulesAreWhole
<1>1. RulesInv => RulesAreWhole
  BY DEF RulesInv, DbInv, GoodDb, GoodRule, WholeRule, RulesAreWhole
<1> QED
  BY <1>1, RulesInvariant, PTL

\* PCD_rulesdb_add_rule keeps each group once and its rules sorted without
\* duplicates, for rules of the files and for clones.
THEOREM DbIsSortedCorrect ==
  Spec => []DbIsSorted
<1>1. RulesInv => DbIsSorted
  BY DEF RulesInv, DbInv, GoodDb, SortedDb, ByName, DbIsSorted
<1> QED
  BY <1>1, RulesInvariant, PTL

\* Of two templates that match a name, the one that comes later is the longer.
LEMMA LaterIsLonger ==
  ASSUME NEW a \in Names, NEW b \in Names, NEW n \in Names,
         IsPrefix(a, n), IsPrefix(b, n), Less(a, b)
  PROVE  Len(a) <= Len(b)
<1>1. /\ Len(a) <= Len(n) /\ \A i \in 1..Len(a) : a[i] = n[i]
      /\ Len(b) <= Len(n) /\ \A i \in 1..Len(b) : b[i] = n[i]
  BY PrefixElements
<1>2. /\ Len(a) \in Nat /\ Len(b) \in Nat
      /\ \A i \in 1..Len(a) : a[i] \in Nat
  BY DEF Names
<1>3. CASE Len(a) < Len(b)
  BY <1>2, <1>3
<1>4. CASE \E i \in 1..Len(a) : i <= Len(b) /\ a[i] < b[i]
  <2>1. PICK i \in 1..Len(a) : i <= Len(b) /\ a[i] < b[i]
    BY <1>4
  <2>2. i \in 1..Len(b) /\ a[i] = n[i] /\ b[i] = n[i] /\ a[i] \in Nat
    BY <1>1, <1>2, <2>1
  <2> QED
    BY <2>1, <2>2
<1> QED
  BY <1>3, <1>4, LessMeans

\* PCD_rulesdb_get_rule_by_id keeps the last template that matches, and that is
\* the most specific one, because the list is sorted by name.
THEOREM TemplateIsLongestCorrect ==
  Spec => []TemplateIsLongest
<1>1. ASSUME SortedDb(db), NEW id \in Ids,
             NEW i \in Matches(GroupRules(db, id[1]), id[2])
      PROVE  Len(GroupRules(db, id[1])[i].name)
               <= Len(Template(GroupRules(db, id[1]), id[2]).name)
  <2> DEFINE rules == GroupRules(db, id[1])
             M == Matches(rules, id[2])
             k == Max(M)
  <2>1. rules \in Seq(Rule) /\ ByName(rules)
    BY <1>1, GroupIsFound
  <2>2. id[2] \in Names
    BY IdsAssumption DEF Names
  <2>3. Len(rules) \in Nat /\ M \in SUBSET (1..Len(rules)) /\ i \in M
    BY <2>1 DEF Matches
  <2>4. k \in M /\ i <= k
    <3> HIDE DEF M
    <3> QED
      BY <2>3, MaxIsGreatest
  <2>5. \A j \in M : /\ rules[j].name \in Names /\ IsPrefix(rules[j].name, id[2])
                     /\ j \in DOMAIN rules /\ j \in Nat
    <3>1. \A j \in DOMAIN rules : rules[j] \in Rule /\ j \in Nat
      BY <2>1
    <3> QED
      BY <3>1 DEF Matches, Rule
  <2>6. Template(rules, id[2]) = rules[k]
    BY DEF Template
  <2> HIDE DEF rules, M, k
  <2>7. CASE i = k
    <3>1. Len(rules[k].name) \in Nat
      BY <2>4, <2>5 DEF Names
    <3> QED
      BY <2>6, <2>7, <3>1 DEF rules
  <2>8. CASE i # k
    <3>1. i < k
      BY <2>3, <2>4, <2>5, <2>8
    <3>2. Less(rules[i].name, rules[k].name)
      BY <2>1, <2>3, <2>4, <2>5, <3>1 DEF ByName
    <3>3. Len(rules[i].name) <= Len(rules[k].name)
      BY <2>2, <2>3, <2>4, <2>5, <3>2, LaterIsLonger
    <3> QED
      BY <2>6, <3>3 DEF rules
  <2> QED
    BY <2>7, <2>8
<1>2. RulesInv => TemplateIsLongest
  BY <1>1 DEF RulesInv, DbInv, GoodDb, TemplateIsLongest
<1> QED
  BY <1>2, RulesInvariant, PTL

\* Instances of one template do not share a process or a place in the timer
\* queue, but for clones made while their template was itself started.
THEOREM InstancesAreApartCorrect ==
  Spec => []InstancesAreApart
<1>1. RulesInv => InstancesAreApart
  BY DEF RulesInv, DbInv, GoodDb, GoodRule, InstancesAreApart
<1> QED
  BY <1>1, RulesInvariant, PTL

\* A process has the parameters last asked for with the id of its rule, or those
\* of the rule file; clones never inherit what was asked of their template.
THEOREM ArgsAreAskedCorrect ==
  Spec => []ArgsAreAsked
<1>1. RulesInv => ArgsAreAsked
  BY DEF RulesInv, DbInv, GoodDb, GoodRule, ArgsAreAsked
<1> QED
  BY <1>1, RulesInvariant, PTL
-----------------------------------------------------------------------------
(***************************************************************************)
(* The walk of PCD_rulesdb_activate.                                       *)
(***************************************************************************)

\* The walk, standing at c or over if c is <<>>, is past place i of group g.
Passed(g, i, c) == c = <<>> \/ g < c[1] \/ (g = c[1] /\ i < c[2])

RuleId == {Id(x) : x \in Rule}

\* What has been enqueued are the active rules the walk is past, in order.
Walked(d, c, a) ==
  /\ a \in Seq(RuleId)
  /\ \A g \in DOMAIN d : \A i \in DOMAIN d[g].rules :
       d[g].rules[i].active /\ Passed(g, i, c) =>
         \E k \in DOMAIN a : a[k] = Id(d[g].rules[i])
  /\ \A k \in DOMAIN a :
       \E g \in DOMAIN d : \E i \in DOMAIN d[g].rules :
         d[g].rules[i].active /\ Passed(g, i, c) /\ a[k] = Id(d[g].rules[i])
  /\ \A j, k \in DOMAIN a : j < k => Precedes(d, a[j], a[k])

WalkInv ==
  IF phase = "activating" THEN Walked(db, cursor, activated)
                          ELSE activated = <<>>

\* PCD_rulesdb_get_next leaves out no rule and comes back to none.
LEMMA NextPasses ==
  ASSUME NEW d, SortedDb(d), NEW g \in DOMAIN d, NEW i \in DOMAIN d[g].rules,
         NEW h \in DOMAIN d, NEW j \in DOMAIN d[h].rules
  PROVE  Passed(h, j, NextRule(d, <<g, i>>)) <=>
           Passed(h, j, <<g, i>>) \/ (h = g /\ j = i)
<1>1. /\ Len(d) \in Nat /\ DOMAIN d = 1..Len(d)
      /\ Len(d[g].rules) \in Nat /\ DOMAIN d[g].rules = 1..Len(d[g].rules)
      /\ Len(d[h].rules) \in Nat /\ DOMAIN d[h].rules = 1..Len(d[h].rules)
  BY SortedTypes
<1>2. CASE i < Len(d[g].rules)
  BY <1>1, <1>2 DEF NextRule, Passed
<1>3. CASE ~(i < Len(d[g].rules)) /\ g < Len(d)
  BY <1>1, <1>3 DEF NextRule, Passed
<1>4. CASE ~(i < Len(d[g].rules)) /\ ~(g < Len(d))
  BY <1>1, <1>4 DEF NextRule, Passed
<1> QED
  BY <1>2, <1>3, <1>4

\* Two databases with the same rules at the same places, as far as the walk looks.
SamePlaces(d, e) ==
  /\ DOMAIN e = DOMAIN d
  /\ \A g \in DOMAIN d :
       /\ DOMAIN e[g].rules = DOMAIN d[g].rules
       /\ \A i \in DOMAIN d[g].rules :
            /\ Id(e[g].rules[i]) = Id(d[g].rules[i])
            /\ e[g].rules[i].active = d[g].rules[i].active

LEMMA PrecedesKept ==
  ASSUME NEW d, NEW e, SamePlaces(d, e), NEW a, NEW b, Precedes(d, a, b)
  PROVE  Precedes(e, a, b)
<1>1. PICK g, h, i, j :
        /\ g \in DOMAIN d /\ h \in DOMAIN d
        /\ i \in DOMAIN d[g].rules /\ j \in DOMAIN d[h].rules
        /\ Id(d[g].rules[i]) = a /\ Id(d[h].rules[j]) = b
        /\ g < h \/ (g = h /\ i < j)
  BY DEF Precedes
<1>2. /\ g \in DOMAIN e /\ h \in DOMAIN e
      /\ i \in DOMAIN e[g].rules /\ j \in DOMAIN e[h].rules
      /\ Id(e[g].rules[i]) = a /\ Id(e[h].rules[j]) = b
  BY <1>1 DEF SamePlaces
<1> QED
  BY <1>1, <1>2 DEF Precedes

\* A rule is enqueued where it stands.
LEMMA EnqueueKeepsPlaces ==
  ASSUME NEW d, SortedDb(d), NEW id
  PROVE  SamePlaces(d, Update(d, id, Enqueued))
<1> DEFINE e == Update(d, id, Enqueued)
<1>1. \A g \in DOMAIN d : d[g] \in Group /\ \A i \in DOMAIN d[g].rules : d[g].rules[i] \in Rule
  BY SortedTypes
<1>2. ASSUME NEW x \in Rule
      PROVE  Id(Enqueued(x)) = Id(x) /\ Enqueued(x).active = x.active
  <2>1. Enqueued(x).group = x.group /\ Enqueued(x).name = x.name
    BY DEF Enqueued, Rule
  <2>2. Enqueued(x).active = x.active
    BY Zenon DEF Enqueued, Rule
  <2> QED
    BY <2>1, <2>2 DEF Id
<1>3. DOMAIN e = DOMAIN d
  BY DEF Update
<1>4. ASSUME NEW g \in DOMAIN d
      PROVE  e[g].rules =
               [i \in DOMAIN d[g].rules |->
                  IF d[g].group = id[1] /\ d[g].rules[i].name = id[2]
                  THEN Enqueued(d[g].rules[i]) ELSE d[g].rules[i]]
  BY <1>1 DEF Update, Group
<1> HIDE DEF e
<1>5. ASSUME NEW g \in DOMAIN d, NEW i \in DOMAIN d[g].rules
      PROVE  /\ Id(e[g].rules[i]) = Id(d[g].rules[i])
             /\ e[g].rules[i].active = d[g].rules[i].active
  <2>1. e[g].rules[i] \in {d[g].rules[i], Enqueued(d[g].rules[i])}
    BY <1>4
  <2>2. d[g].rules[i] \in Rule
    BY <1>1
  <2> QED
    BY <1>2, <2>1, <2>2, Zenon
<1>6. \A g \in DOMAIN d : DOMAIN e[g].rules = DOMAIN d[g].rules
  BY <1>4
<1> QED
  BY <1>3, <1>5, <1>6 DEF SamePlaces, e

\* What the walk has done stays so when the database only changes in place.
LEMMA WalkedKept ==
  ASSUME NEW d, NEW e, SamePlaces(d, e), NEW c, NEW a, Walked(d, c, a)
  PROVE  Walked(e, c, a)
<1>1. \A j, k \in DOMAIN a : j < k => Precedes(e, a[j], a[k])
  BY PrecedesKept DEF Walked
<1>2. ASSUME NEW g \in DOMAIN e, NEW i \in DOMAIN e[g].rules,
             e[g].rules[i].active, Passed(g, i, c)
      PROVE  \E k \in DOMAIN a : a[k] = Id(e[g].rules[i])
  BY <1>2 DEF Walked, SamePlaces
<1>3. ASSUME NEW k \in DOMAIN a
      PROVE  \E g \in DOMAIN e : \E i \in DOMAIN e[g].rules :
               e[g].rules[i].active /\ Passed(g, i, c) /\ a[k] = Id(e[g].rules[i])
  <2>1. PICK g, i : /\ g \in DOMAIN d /\ i \in DOMAIN d[g].rules
                    /\ d[g].rules[i].active /\ Passed(g, i, c)
                    /\ a[k] = Id(d[g].rules[i])
    BY DEF Walked
  <2>2. /\ g \in DOMAIN e /\ i \in DOMAIN e[g].rules
        /\ e[g].rules[i].active /\ a[k] = Id(e[g].rules[i])
    BY <2>1 DEF SamePlaces
  <2> QED
    BY <2>1, <2>2
<1>4. a \in Seq(RuleId)
  BY DEF Walked
<1> QED
  BY <1>1, <1>2, <1>3, <1>4 DEF Walked

\* The walk goes past a rule that is not active.
LEMMA WalkSkips ==
  ASSUME NEW d, SortedDb(d), NEW g \in DOMAIN d, NEW i \in DOMAIN d[g].rules,
         NEW a, Walked(d, <<g, i>>, a), ~d[g].rules[i].active
  PROVE  Walked(d, NextRule(d, <<g, i>>), a)
<1> DEFINE c == <<g, i>>
           n == NextRule(d, c)
<1>1. \A h \in DOMAIN d : \A j \in DOMAIN d[h].rules :
        Passed(h, j, n) <=> Passed(h, j, c) \/ (h = g /\ j = i)
  BY NextPasses
<1> HIDE DEF n, c
<1>2. Walked(d, c, a)
  BY DEF c
<1>3. ASSUME NEW h \in DOMAIN d, NEW j \in DOMAIN d[h].rules, d[h].rules[j].active
      PROVE  Passed(h, j, n) <=> Passed(h, j, c)
  BY <1>1, <1>3
<1>4. \A h \in DOMAIN d : \A j \in DOMAIN d[h].rules :
        d[h].rules[j].active /\ Passed(h, j, n) =>
          \E k \in DOMAIN a : a[k] = Id(d[h].rules[j])
  BY <1>2, <1>3 DEF Walked
<1>5. \A k \in DOMAIN a :
        \E h \in DOMAIN d : \E j \in DOMAIN d[h].rules :
          d[h].rules[j].active /\ Passed(h, j, n) /\ a[k] = Id(d[h].rules[j])
  BY <1>2, <1>3 DEF Walked
<1>6. Walked(d, n, a)
  BY <1>2, <1>4, <1>5 DEF Walked
<1> QED
  BY <1>6 DEF n, c

\* The walk enqueues an active rule and goes past it.
LEMMA WalkEnqueues ==
  ASSUME NEW d, SortedDb(d), NEW g \in DOMAIN d, NEW i \in DOMAIN d[g].rules,
         NEW a, Walked(d, <<g, i>>, a), d[g].rules[i].active
  PROVE  Walked(d, NextRule(d, <<g, i>>), Append(a, Id(d[g].rules[i])))
<1> DEFINE c == <<g, i>>
           n == NextRule(d, c)
           id == Id(d[g].rules[i])
           b == Append(a, id)
<1>1. \A h \in DOMAIN d : \A j \in DOMAIN d[h].rules :
        Passed(h, j, n) <=> Passed(h, j, c) \/ (h = g /\ j = i)
  BY NextPasses
<1>2. \A h, j : Passed(h, j, c) => h < g \/ (h = g /\ j < i)
  BY DEF Passed
<1>3. id \in RuleId
  <2>1. d[g].rules[i] \in Rule
    BY SortedTypes
  <2> QED
    BY <2>1 DEF RuleId
<1>4. Walked(d, c, a) /\ id = Id(d[g].rules[i])
  OBVIOUS
<1> HIDE DEF n, c, id
<1>5. a \in Seq(RuleId)
  BY <1>4 DEF Walked
<1>6. /\ b \in Seq(RuleId) /\ DOMAIN a = 1..Len(a) /\ Len(a) \in Nat
      /\ DOMAIN b = 1..(Len(a) + 1) /\ b[Len(a) + 1] = id
      /\ \A k \in DOMAIN a : k \in DOMAIN b /\ b[k] = a[k]
  BY <1>3, <1>5
<1> HIDE DEF b
<1>7. ASSUME NEW h \in DOMAIN d, NEW j \in DOMAIN d[h].rules,
             d[h].rules[j].active, Passed(h, j, n)
      PROVE  \E k \in DOMAIN b : b[k] = Id(d[h].rules[j])
  <2>1. CASE h = g /\ j = i
    <3>1. Len(a) + 1 \in DOMAIN b
      BY <1>6
    <3> QED
      BY <1>4, <1>6, <2>1, <3>1
  <2>2. CASE Passed(h, j, c)
    <3>1. PICK k \in DOMAIN a : a[k] = Id(d[h].rules[j])
      BY <1>4, <1>7, <2>2 DEF Walked
    <3> QED
      BY <1>6, <3>1
  <2> QED
    BY <1>1, <1>7, <2>1, <2>2
<1>8. ASSUME NEW k \in DOMAIN b
      PROVE  \E h \in DOMAIN d : \E j \in DOMAIN d[h].rules :
               d[h].rules[j].active /\ Passed(h, j, n) /\ b[k] = Id(d[h].rules[j])
  <2>1. CASE k \in DOMAIN a
    <3>1. PICK h, j : /\ h \in DOMAIN d /\ j \in DOMAIN d[h].rules
                      /\ d[h].rules[j].active /\ Passed(h, j, c)
                      /\ a[k] = Id(d[h].rules[j])
      BY <1>4, <2>1 DEF Walked
    <3> QED
      BY <1>1, <1>6, <2>1, <3>1
  <2>2. CASE k = Len(a) + 1
    <3>1. Passed(g, i, n) /\ b[k] = Id(d[g].rules[i])
      BY <1>1, <1>4, <1>6, <2>2
    <3> QED
      BY <3>1
  <2> QED
    BY <1>6, <2>1, <2>2
<1>9. ASSUME NEW j \in DOMAIN b, NEW k \in DOMAIN b, j < k
      PROVE  Precedes(d, b[j], b[k])
  <2>1. CASE k \in DOMAIN a
    <3>1. j \in DOMAIN a
      BY <1>6, <1>9, <2>1
    <3> QED
      BY <1>4, <1>6, <1>9, <2>1, <3>1 DEF Walked
  <2>2. CASE k = Len(a) + 1
    <3>1. j \in DOMAIN a /\ b[j] = a[j] /\ b[k] = Id(d[g].rules[i])
      BY <1>4, <1>6, <1>9, <2>2
    <3>2. PICK h, l : /\ h \in DOMAIN d /\ l \in DOMAIN d[h].rules
                      /\ Passed(h, l, c) /\ a[j] = Id(d[h].rules[l])
      BY <1>4, <3>1 DEF Walked
    <3>3. h < g \/ (h = g /\ l < i)
      BY <1>2, <3>2 DEF c
    <3> QED
      BY <3>1, <3>2, <3>3 DEF Precedes
  <2> QED
    BY <1>6, <2>1, <2>2
<1> QED
  BY <1>6, <1>7, <1>8, <1>9 DEF Walked, n, c, b, id

LEMMA ActivateNextWalks ==
  ASSUME RulesInv, WalkInv, ActivateNext
  PROVE  WalkInv'
<1>1. /\ phase = "activating" /\ cursor # <<>> /\ phase' = phase
      /\ cursor' = NextRule(db, cursor)
  BY DEF ActivateNext
<1>2. PICK g, i : g \in DOMAIN db /\ i \in DOMAIN db[g].rules /\ cursor = <<g, i>>
  BY <1>1 DEF RulesInv, CursorInv
<1>3. SortedDb(db)
  BY DEF RulesInv, DbInv, GoodDb
<1>4. Walked(db, <<g, i>>, activated)
  BY <1>1, <1>2 DEF WalkInv
<1> DEFINE x == db[g].rules[i]
           n == NextRule(db, <<g, i>>)
<1>5. CASE x.active
  <2>1. db' = Update(db, Id(x), Enqueued) /\ activated' = Append(activated, Id(x))
    BY <1>2, <1>5 DEF ActivateNext
  <2>2. SamePlaces(db, db')
    BY <1>3, <2>1, EnqueueKeepsPlaces
  <2>3. Walked(db, n, activated')
    BY <1>2, <1>3, <1>4, <1>5, <2>1, WalkEnqueues
  <2> HIDE DEF n
  <2>4. Walked(db', n, activated')
    BY <2>2, <2>3, WalkedKept
  <2> QED
    BY <1>1, <1>2, <2>4 DEF WalkInv, n
<1>6. CASE ~x.active
  <2>1. UNCHANGED <<db, activated>>
    BY <1>2, <1>6 DEF ActivateNext
  <2>2. Walked(db, n, activated)
    BY <1>2, <1>3, <1>4, <1>6, WalkSkips
  <2> QED
    BY <1>1, <1>2, <2>1, <2>2 DEF WalkInv
<1> QED
  BY <1>5, <1>6

\* The walk starts in front of the first rule, if there is one.
LEMMA ActivateFirstWalks ==
  ASSUME RulesInv, WalkInv, ActivateFirst
  PROVE  WalkInv'
<1>1. /\ phase = "activate" /\ phase' = "activating" /\ db' = db
      /\ cursor' = FirstRule(db) /\ activated' = activated
  BY DEF ActivateFirst
<1>2. activated = <<>>
  BY <1>1 DEF WalkInv
<1>3. \A g \in DOMAIN db : g \in Nat /\ g >= 1 /\ \A i \in DOMAIN db[g].rules : i \in Nat /\ i >= 1
  <2>1. SortedDb(db)
    BY DEF RulesInv, DbInv, GoodDb
  <2>2. /\ Len(db) \in Nat /\ DOMAIN db = 1..Len(db)
        /\ \A g \in DOMAIN db : /\ Len(db[g].rules) \in Nat
                                /\ DOMAIN db[g].rules = 1..Len(db[g].rules)
    BY <2>1, SortedTypes
  <2> QED
    BY <2>2
<1>4. ASSUME NEW g \in DOMAIN db, NEW i \in DOMAIN db[g].rules
      PROVE  ~Passed(g, i, FirstRule(db))
  <2>1. db # <<>>
    OBVIOUS
  <2>2. FirstRule(db) = <<1, 1>>
    BY <2>1 DEF FirstRule
  <2> QED
    BY <1>3, <2>2 DEF Passed
<1>5. <<>> \in Seq(RuleId) /\ DOMAIN <<>> = {}
  OBVIOUS
<1>6. Walked(db, FirstRule(db), <<>>)
  BY <1>4, <1>5 DEF Walked
<1> QED
  BY <1>1, <1>2, <1>6 DEF WalkInv

LEMMA WalkInvariant ==
  Spec => []WalkInv
<1>1. Init => WalkInv
  BY DEF Init, ParserInit, WalkInv
<1>2. RulesInv /\ WalkInv /\ [Next]_vars => WalkInv'
  <2> SUFFICES ASSUME RulesInv, WalkInv, [Next]_vars PROVE WalkInv'
    OBVIOUS
  <2>1. CASE Parse
    <3>1. phase = "parse" /\ phase' # "activating" /\ activated' = activated
      BY <2>1 DEF Parse, ParserNext, ReadRule, ReadField, ReadOption, ReadInclude,
                  EndOfFile, Close, runVars
    <3> QED
      BY <3>1 DEF WalkInv
  <2>2. CASE ActivateFirst
    BY <2>2, ActivateFirstWalks
  <2>3. CASE ActivateNext
    BY <2>3, ActivateNextWalks
  <2>4. CASE ActivateDone
    BY <2>4 DEF ActivateDone, WalkInv
  <2>5. CASE phase = "run" /\ phase' = phase /\ activated' = activated
    BY <2>5 DEF WalkInv
  <2>6. ASSUME NEW id, Request(id) \/ Spawn(id) \/ Exit(id)
        PROVE  phase = "run" /\ phase' = phase /\ activated' = activated
    BY <2>6 DEF Request, Spawn, Exit, runVars
  <2>7. CASE UNCHANGED vars
    <3>1. UNCHANGED <<phase, db, cursor, activated>>
      BY <2>7 DEF vars
    <3> QED
      BY <3>1 DEF WalkInv
  <2> QED
    BY <2>1, <2>2, <2>3, <2>4, <2>5, <2>6, <2>7 DEF Next, ApiQuery, ApiStart, ApiStop
<1> QED
  BY <1>1, <1>2, RulesInvariant, PTL DEF Spec

\* When the walk of PCD_rulesdb_activate is over it has enqueued the active rules
\* of the database and no others, in the order of the database, although every
\* rule it enqueues changes the database it walks over.
THEOREM ActivatedInOrderCorrect ==
  Spec => []ActivatedInOrder
<1>1. RulesInv /\ WalkInv => ActivatedInOrder
  <2> SUFFICES ASSUME RulesInv, WalkInv, phase = "activating", cursor = <<>>
               PROVE  /\ Range(activated) = {Id(x) : x \in {y \in AllRules(db) : y.active}}
                      /\ \A j, k \in DOMAIN activated :
                           j < k => Precedes(db, activated[j], activated[k])
    BY DEF ActivatedInOrder
  <2>1. Walked(db, <<>>, activated) /\ SortedDb(db)
    BY DEF WalkInv, RulesInv, DbInv, GoodDb
  <2>2. \A g, i : Passed(g, i, <<>>)
    BY DEF Passed
  <2>3. ASSUME NEW x \in AllRules(db), x.active PROVE Id(x) \in Range(activated)
    <3>1. PICK g, i : g \in DOMAIN db /\ i \in DOMAIN db[g].rules /\ x = db[g].rules[i]
      BY <2>1, RuleIsSomewhere
    <3>2. PICK k \in DOMAIN activated : activated[k] = Id(x)
      BY <2>1, <2>2, <2>3, <3>1 DEF Walked
    <3> QED
      BY <3>2 DEF Range
  <2>4. ASSUME NEW id \in Range(activated)
        PROVE  \E x \in AllRules(db) : x.active /\ Id(x) = id
    <3>1. PICK k \in DOMAIN activated : activated[k] = id
      BY DEF Range
    <3>2. PICK g, i : /\ g \in DOMAIN db /\ i \in DOMAIN db[g].rules
                      /\ db[g].rules[i].active /\ id = Id(db[g].rules[i])
      BY <2>1, <3>1 DEF Walked
    <3>3. db[g].rules[i] \in AllRules(db)
      BY <2>1, <3>2, RuleIsSomewhere
    <3> QED
      BY <3>2, <3>3
  <2>5. Range(activated) = {Id(x) : x \in {y \in AllRules(db) : y.active}}
    BY <2>3, <2>4
  <2> QED
    BY <2>1, <2>5 DEF Walked
<1> QED
  BY <1>1, RulesInvariant, WalkInvariant, PTL
=============================================================================
