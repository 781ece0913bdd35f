------------------------ MODULE KeyReleasePolicyProofs ------------------------
(***************************************************************************)
(* The key release policies hold what their edits say, and the validation  *)
(* of claims answers as the policies say: for every set of claims, values   *)
(* and edits, and for ledgers of any length.                                *)
(*                                                                         *)
(* The loops over the values of an edit are folds, that is, recursive        *)
(* functions; what they return is proved by induction over their prefixes.  *)
(***************************************************************************)
EXTENDS KeyReleasePolicy, CcfLedgerProofs

-----------------------------------------------------------------------------
(***************************************************************************)
(* Lists of values.                                                         *)
(***************************************************************************)

\* A fold of a list goes through its prefixes.
LEMMA PrefixFacts ==
  ASSUME NEW n \in Nat, NEW k \in 1 .. n
  PROVE  /\ 1 .. k \in SUBSET (1 .. n)
         /\ 1 .. k # {}
         /\ \A S \in SUBSET (1 .. k) : k \in S => Max(S) = k
         /\ Max(1 .. k) = k
         /\ (1 .. k) \ {k} = 1 .. k - 1
<1>1. k \in 1 .. k /\ \A i \in 1 .. k : i \in Int /\ k >= i
  OBVIOUS
<1>2. ASSUME NEW S \in SUBSET (1 .. k), k \in S PROVE Max(S) = k
  <2>1. \A x \in S : (\A i \in S : x >= i) => x = k
    BY <1>1, <1>2
  <2>2. \A i \in S : k >= i
    BY <1>1
  <2> HIDE DEF Max
  <2>3. Max(S) = CHOOSE x \in S : \A i \in S : x >= i
    BY DEF Max
  <2>4. \E x \in S : \A i \in S : x >= i
    BY <1>2, <2>2
  <2> QED
    BY <2>1, <2>3, <2>4
<1>3. (1 .. k) \ {k} = 1 .. k - 1
  OBVIOUS
<1>4. \A i \in 1 .. k : i \in 1 .. n
  OBVIOUS
<1>5. 1 .. k \in SUBSET (1 .. k)
  OBVIOUS
<1>6. Max(1 .. k) = k
  BY <1>1, <1>2, <1>5
<1> QED
  BY <1>1, <1>2, <1>3, <1>4, <1>6

LEMMA MaxType ==
  ASSUME NEW n \in Nat, NEW S \in SUBSET (1 .. n), S # {}
  PROVE  Max(S) \in S
<1>1. PICK x \in S : \A i \in S : i <= x
  BY GreatestExists
<1>2. \A i \in S : x >= i
  BY <1>1
<1> QED
  BY <1>2 DEF Max

\* f is the fold of the first k elements of item, step by step: step is the
\* function folded, and f[S] the result for the elements at the positions S.
FoldOf(f, step, base, item, k) ==
  \A S \in SUBSET (1 .. k) :
    f[S] = IF S = {} THEN base
           ELSE step[<<f[S \ {Max(S)}], item[Max(S)]>>]

LEMMA FoldExists ==
  ASSUME NEW X, NEW Y, NEW step \in [X \X Y -> X], NEW base \in X,
         NEW item \in Seq(Y)
  PROVE  \E f \in [SUBSET (1 .. Len(item)) -> X] :
           FoldOf(f, step, base, item, Len(item))
<1> DEFINE n == Len(item)
           Good == {k \in 0 .. n : \E f \in [SUBSET (1 .. k) -> X] :
                                     FoldOf(f, step, base, item, k)}
<1>1. n \in Nat
  OBVIOUS
<1>2. 0 \in Good
  <2> DEFINE f == [S \in SUBSET (1 .. 0) |-> base]
  <2>1. f \in [SUBSET (1 .. 0) -> X] /\ FoldOf(f, step, base, item, 0)
    BY DEF FoldOf
  <2> HIDE DEF f
  <2>2. 0 \in 0 .. n
    BY <1>1
  <2>3. \E h \in [SUBSET (1 .. 0) -> X] : FoldOf(h, step, base, item, 0)
    BY <2>1
  <2> QED
    BY <2>2, <2>3
<1>3. ASSUME NEW k \in 1 .. n, k - 1 \in Good PROVE k \in Good
  <2>1. PICK g \in [SUBSET (1 .. k - 1) -> X] : FoldOf(g, step, base, item, k - 1)
    BY <1>3
  <2> DEFINE f == [S \in SUBSET (1 .. k) |->
                     IF k \in S THEN step[<<g[S \ {k}], item[k]>>] ELSE g[S]]
  <2>2. \A S \in SUBSET (1 .. k) : S \ {k} \in SUBSET (1 .. k - 1)
    BY <1>1
  <2>3. \A S \in SUBSET (1 .. k) : k \notin S => S \in SUBSET (1 .. k - 1)
    BY <1>1
  <2>4. item[k] \in Y
    OBVIOUS
  <2>5. f \in [SUBSET (1 .. k) -> X]
    BY <2>2, <2>3, <2>4
  <2>6. ASSUME NEW S \in SUBSET (1 .. k)
        PROVE  f[S] = IF S = {} THEN base
                      ELSE step[<<f[S \ {Max(S)}], item[Max(S)]>>]
    <3>1. CASE k \in S
      <4>1. Max(S) = k
        BY <1>1, <3>1, PrefixFacts
      <4>2. f[S \ {k}] = g[S \ {k}]
        OBVIOUS
      <4>3. f[S] = step[<<g[S \ {k}], item[k]>>]
        BY <3>1
      <4> QED
        BY <3>1, <4>1, <4>2, <4>3
    <3>2. CASE k \notin S
      <4>1. f[S] = g[S] /\ f[S \ {Max(S)}] = g[S \ {Max(S)}]
        BY <3>2
      <4>2. g[S] = IF S = {} THEN base
                   ELSE step[<<g[S \ {Max(S)}], item[Max(S)]>>]
        BY <2>1, <2>3, <3>2 DEF FoldOf
      <4> QED
        BY <4>1, <4>2
    <3> QED
      BY <3>1, <3>2
  <2> HIDE DEF f
  <2>7. FoldOf(f, step, base, item, k)
    BY <2>6 DEF FoldOf
  <2>8. k \in 0 .. n
    BY <1>1
  <2> QED
    BY <2>5, <2>7, <2>8
<1>4. n \in Good
  <2>1. n \in 0 .. n
    BY <1>1
  <2> HIDE DEF Good, n
  <2> QED
    BY <1>1, <1>2, <1>3, <2>1, UpToInduction
<1> QED
  BY <1>4

LEMMA PrefixElements ==
  ASSUME NEW n \in Nat, NEW k \in 1 .. n, NEW f
  PROVE  {f[i] : i \in 1 .. k} = {f[i] : i \in 1 .. k - 1} \cup {f[k]}
<1>1. \A i \in 1 .. k : i \in 1 .. k - 1 \/ i = k
  OBVIOUS
<1>2. \A i \in 1 .. k - 1 : i \in 1 .. k
  OBVIOUS
<1>3. k \in 1 .. k
  OBVIOUS
<1> QED
  BY <1>1, <1>2, <1>3

\* Appending to a list.
LEMMA AppendOne ==
  ASSUME NEW list \in Seq(Values), NEW value \in Values
  PROVE  /\ Append(list, value) \in Seq(Values)
         /\ ToSet(Append(list, value)) = ToSet(list) \cup {value}
         /\ IsInjective(list) /\ value \notin ToSet(list)
              => IsInjective(Append(list, value))
<1> DEFINE n == Len(list)
           longer == Append(list, value)
<1>1. n \in Nat /\ DOMAIN list = 1 .. n
  OBVIOUS
<1>2. /\ longer \in Seq(Values)
      /\ Len(longer) = n + 1
      /\ DOMAIN longer = 1 .. n + 1
      /\ \A i \in 1 .. n : longer[i] = list[i]
      /\ longer[n + 1] = value
  OBVIOUS
<1>3. \A i \in 1 .. n + 1 : i \in 1 .. n \/ i = n + 1
  BY <1>1
<1>4. n + 1 \in 1 .. n + 1 /\ \A i \in 1 .. n : i \in 1 .. n + 1
  BY <1>1
<1> HIDE DEF n, longer
<1>5. ToSet(longer) = ToSet(list) \cup {value}
  BY <1>1, <1>2, <1>3, <1>4 DEF ToSet
<1>6. IsInjective(list) /\ value \notin ToSet(list) => IsInjective(longer)
  BY <1>1, <1>2, <1>3 DEF ToSet, IsInjective
<1> QED
  BY <1>2, <1>5, <1>6 DEF longer

\* Adding the values of an item to a list, one after the other.
LEMMA AddValueEffect ==
  ASSUME NEW list \in Seq(Values), NEW value \in Values
  PROVE  /\ AddValue(list, value) \in Seq(Values)
         /\ ToSet(AddValue(list, value)) = ToSet(list) \cup {value}
         /\ IsInjective(list) => IsInjective(AddValue(list, value))
<1>1. Contains(list, value) <=> value \in ToSet(list)
  BY DEF Contains, ToSet
<1> QED
  BY <1>1, AppendOne DEF AddValue

LEMMA AddValuesRun ==
  ASSUME NEW list \in Seq(Values), NEW item \in Seq(Values)
  PROVE  \E g : /\ g[0] = list
                /\ \A k \in 1 .. Len(item) : g[k] = AddValue(g[k - 1], item[k])
                /\ AddValues(list, item) = g[Len(item)]
<1> DEFINE n == Len(item)
           step == [pair \in Seq(Values) \X Values |-> AddValue(pair[1], pair[2])]
           IsFold(f) == f = [S \in SUBSET DOMAIN item |->
                               IF S = {} THEN list
                               ELSE AddValue(f[S \ {Max(S)}], item[Max(S)])]
<1>1. n \in Nat /\ DOMAIN item = 1 .. n
  OBVIOUS
<1>2. \E f : IsFold(f)
  <2>1. step \in [Seq(Values) \X Values -> Seq(Values)]
    BY AddValueEffect
  <2> HIDE DEF step
  <2>2. PICK f \in [SUBSET (1 .. n) -> Seq(Values)] : FoldOf(f, step, list, item, n)
    BY <2>1, FoldExists
  <2>3. ASSUME NEW S \in SUBSET (1 .. n)
        PROVE  f[S] = IF S = {} THEN list
                      ELSE AddValue(f[S \ {Max(S)}], item[Max(S)])
    <3>1. CASE S = {}
      BY <2>2, <3>1 DEF FoldOf
    <3>2. CASE S # {}
      <4>1. Max(S) \in 1 .. n
        BY <1>1, <3>2, MaxType
      <4>2. item[Max(S)] \in Values /\ f[S \ {Max(S)}] \in Seq(Values)
        <5>1. Max(S) \in 1 .. n
          BY <4>1
        <5>2. S \ {Max(S)} \in SUBSET (1 .. n)
          OBVIOUS
        <5> QED
          BY <5>1, <5>2
      <4>3. f[S] = step[<<f[S \ {Max(S)}], item[Max(S)]>>]
        BY <2>2, <3>2 DEF FoldOf
      <4> QED
        BY <3>2, <4>2, <4>3 DEF step
    <3> QED
      BY <3>1, <3>2
  <2> QED
    BY <1>1, <2>3
<1>3. PICK f : IsFold(f) /\ AddValues(list, item) = f[DOMAIN item]
  BY <1>2 DEF AddValues, FoldLeft, MapThenFoldSet
<1> DEFINE g == [k \in 0 .. n |-> f[1 .. k]]
<1>4. g[0] = list
  <2>1. 1 .. 0 = {}
    OBVIOUS
  <2> QED
    BY <1>3, <2>1
<1>5. ASSUME NEW k \in 1 .. n PROVE g[k] = AddValue(g[k - 1], item[k])
  <2>1. /\ 1 .. k \in SUBSET (1 .. n) /\ 1 .. k # {}
        /\ Max(1 .. k) = k /\ (1 .. k) \ {k} = 1 .. k - 1
    BY <1>1, PrefixFacts
  <2>2. f[1 .. k] = AddValue(f[1 .. k - 1], item[k])
    BY <1>1, <1>3, <2>1
  <2>3. k \in 0 .. n /\ k - 1 \in 0 .. n
    BY <1>1
  <2> QED
    BY <2>2, <2>3
<1>6. AddValues(list, item) = g[n]
  BY <1>1, <1>3
<1> HIDE DEF g
<1> QED
  BY <1>4, <1>5, <1>6

\* Filtering a value out of a list.
LEMMA WithoutRun ==
  ASSUME NEW item \in Seq(Values), NEW value
  PROVE  \E g : /\ g[0] = <<>>
                /\ \A k \in 1 .. Len(item) :
                     g[k] = IF item[k] = value THEN g[k - 1]
                            ELSE Append(g[k - 1], item[k])
                /\ Without(item, value) = g[Len(item)]
<1> DEFINE Keep(kept, other) == IF other = value THEN kept ELSE Append(kept, other)
           n == Len(item)
           step == [pair \in Seq(Values) \X Values |-> Keep(pair[1], pair[2])]
           IsFold(f) == f = [S \in SUBSET DOMAIN item |->
                               IF S = {} THEN <<>>
                               ELSE Keep(f[S \ {Max(S)}], item[Max(S)])]
<1>1. n \in Nat /\ DOMAIN item = 1 .. n
  OBVIOUS
<1>2. \E f : IsFold(f)
  <2>1. step \in [Seq(Values) \X Values -> Seq(Values)]
    OBVIOUS
  <2> HIDE DEF step
  <2>2. PICK f \in [SUBSET (1 .. n) -> Seq(Values)] : FoldOf(f, step, <<>>, item, n)
    <3>1. <<>> \in Seq(Values)
      OBVIOUS
    <3> QED
      BY <2>1, <3>1, FoldExists
  <2>3. ASSUME NEW S \in SUBSET (1 .. n)
        PROVE  f[S] = IF S = {} THEN <<>>
                      ELSE Keep(f[S \ {Max(S)}], item[Max(S)])
    <3>1. CASE S = {}
      BY <2>2, <3>1 DEF FoldOf
    <3>2. CASE S # {}
      <4>1. Max(S) \in 1 .. n
        BY <1>1, <3>2, MaxType
      <4>2. item[Max(S)] \in Values /\ f[S \ {Max(S)}] \in Seq(Values)
        <5>1. Max(S) \in 1 .. n
          BY <4>1
        <5>2. S \ {Max(S)} \in SUBSET (1 .. n)
          OBVIOUS
        <5> QED
          BY <5>1, <5>2
      <4>3. f[S] = step[<<f[S \ {Max(S)}], item[Max(S)]>>]
        BY <2>2, <3>2 DEF FoldOf
      <4> QED
        BY <3>2, <4>2, <4>3 DEF step
    <3> QED
      BY <3>1, <3>2
  <2> QED
    BY <1>1, <2>3
<1>3. PICK f : IsFold(f) /\ Without(item, value) = f[DOMAIN item]
  BY <1>2 DEF Without, FoldLeft, MapThenFoldSet
<1> DEFINE g == [k \in 0 .. n |-> f[1 .. k]]
<1>4. g[0] = <<>>
  <2>1. 1 .. 0 = {}
    OBVIOUS
  <2> QED
    BY <1>3, <2>1
<1>5. ASSUME NEW k \in 1 .. n PROVE g[k] = Keep(g[k - 1], item[k])
  <2>1. /\ 1 .. k \in SUBSET (1 .. n) /\ 1 .. k # {}
        /\ Max(1 .. k) = k /\ (1 .. k) \ {k} = 1 .. k - 1
    BY <1>1, PrefixFacts
  <2>2. f[1 .. k] = Keep(f[1 .. k - 1], item[k])
    BY <1>1, <1>3, <2>1
  <2>3. k \in 0 .. n /\ k - 1 \in 0 .. n
    BY <1>1
  <2> QED
    BY <2>2, <2>3
<1>6. Without(item, value) = g[n]
  BY <1>1, <1>3
<1> HIDE DEF g
<1> QED
  BY <1>4, <1>5, <1>6

\* What removing values makes of a list.
Lists == Seq(Values) \cup {Deleted, Failed}

LEMMA WithoutEffect ==
  ASSUME NEW list \in Seq(Values), NEW value
  PROVE  /\ Without(list, value) \in Seq(Values)
         /\ ToSet(Without(list, value)) = ToSet(list) \ {value}
         /\ IsInjective(list) => IsInjective(Without(list, value))
<1> DEFINE n == Len(list)
<1>1. n \in Nat /\ DOMAIN list = 1 .. n
  OBVIOUS
<1>2. PICK g : /\ g[0] = <<>>
               /\ \A k \in 1 .. n : g[k] = IF list[k] = value THEN g[k - 1]
                                          ELSE Append(g[k - 1], list[k])
               /\ Without(list, value) = g[n]
  BY WithoutRun
<1> DEFINE Good == {k \in 0 .. n :
                      /\ g[k] \in Seq(Values)
                      /\ ToSet(g[k]) = {list[i] : i \in 1 .. k} \ {value}
                      /\ IsInjective(list) => IsInjective(g[k])}
<1>3. 0 \in Good
  <2>1. <<>> \in Seq(Values) /\ DOMAIN <<>> = {} /\ 1 .. 0 = {} /\ 0 \in 0 .. n
    BY <1>1
  <2>2. ToSet(<<>>) = {} /\ IsInjective(<<>>)
    BY <2>1 DEF ToSet, IsInjective
  <2>3. {list[i] : i \in 1 .. 0} = {}
    BY <2>1
  <2> QED
    BY <1>2, <2>1, <2>2, <2>3
<1>4. ASSUME NEW k \in 1 .. n, k - 1 \in Good PROVE k \in Good
  <2>1. /\ g[k - 1] \in Seq(Values)
        /\ ToSet(g[k - 1]) = {list[i] : i \in 1 .. k - 1} \ {value}
        /\ IsInjective(list) => IsInjective(g[k - 1])
    BY <1>4
  <2>2. k \in 0 .. n /\ list[k] \in Values
    BY <1>1
  <2>3. {list[i] : i \in 1 .. k} = {list[i] : i \in 1 .. k - 1} \cup {list[k]}
    BY <1>1, PrefixElements
  <2>4. CASE list[k] = value
    BY <1>2, <2>1, <2>2, <2>3, <2>4
  <2>5. CASE list[k] # value
    <3>1. g[k] = Append(g[k - 1], list[k])
      BY <1>2, <2>5
    <3>2. IsInjective(list) => list[k] \notin ToSet(g[k - 1])
      <4>1. \A i \in 1 .. k - 1 : i \in 1 .. n /\ i # k
        BY <1>1
      <4> QED
        BY <1>1, <2>1, <4>1 DEF IsInjective
    <3>3. /\ g[k] \in Seq(Values)
          /\ ToSet(g[k]) = ToSet(g[k - 1]) \cup {list[k]}
          /\ IsInjective(g[k - 1]) /\ list[k] \notin ToSet(g[k - 1])
               => IsInjective(g[k])
      BY <2>1, <2>2, <3>1, AppendOne
    <3> QED
      BY <2>1, <2>2, <2>3, <2>5, <3>2, <3>3
  <2> QED
    BY <2>4, <2>5
<1>5. n \in Good
  <2>1. n \in 0 .. n
    BY <1>1
  <2> HIDE DEF Good, n
  <2> QED
    BY <1>1, <1>3, <1>4, <2>1, UpToInduction
<1>6. {list[i] : i \in 1 .. n} = ToSet(list)
  BY <1>1 DEF ToSet
<1> QED
  BY <1>2, <1>5, <1>6

LEMMA RemoveValueType ==
  ASSUME NEW list \in Lists, NEW value \in Values
  PROVE  RemoveValue(list, value) \in Lists
BY WithoutEffect DEF RemoveValue, Lists

\* Removing the values of an item, one after the other.
LEMMA RemoveValuesRun ==
  ASSUME NEW list \in Lists, NEW item \in Seq(Values)
  PROVE  \E g : /\ g[0] = list
                /\ \A k \in 1 .. Len(item) : g[k] = RemoveValue(g[k - 1], item[k])
                /\ RemoveValues(list, item) = g[Len(item)]
<1> DEFINE n == Len(item)
           step == [pair \in Lists \X Values |-> RemoveValue(pair[1], pair[2])]
           IsFold(f) == f = [S \in SUBSET DOMAIN item |->
                               IF S = {} THEN list
                               ELSE RemoveValue(f[S \ {Max(S)}], item[Max(S)])]
<1>1. n \in Nat /\ DOMAIN item = 1 .. n
  OBVIOUS
<1>2. \E f : IsFold(f)
  <2>1. step \in [Lists \X Values -> Lists]
    BY RemoveValueType
  <2> HIDE DEF step
  <2>2. PICK f \in [SUBSET (1 .. n) -> Lists] : FoldOf(f, step, list, item, n)
    BY <2>1, FoldExists
  <2>3. ASSUME NEW S \in SUBSET (1 .. n)
        PROVE  f[S] = IF S = {} THEN list
                      ELSE RemoveValue(f[S \ {Max(S)}], item[Max(S)])
    <3>1. CASE S = {}
      BY <2>2, <3>1 DEF FoldOf
    <3>2. CASE S # {}
      <4>1. Max(S) \in 1 .. n
        BY <1>1, <3>2, MaxType
      <4>2. item[Max(S)] \in Values /\ f[S \ {Max(S)}] \in Lists
        <5>1. Max(S) \in 1 .. n
          BY <4>1
        <5>2. S \ {Max(S)} \in SUBSET (1 .. n)
          OBVIOUS
        <5> QED
          BY <5>1, <5>2
      <4>3. f[S] = step[<<f[S \ {Max(S)}], item[Max(S)]>>]
        BY <2>2, <3>2 DEF FoldOf
      <4> QED
        BY <3>2, <4>2, <4>3 DEF step
    <3> QED
      BY <3>1, <3>2
  <2> QED
    BY <1>1, <2>3
<1>3. PICK f : IsFold(f) /\ RemoveValues(list, item) = f[DOMAIN item]
  BY <1>2 DEF RemoveValues, FoldLeft, MapThenFoldSet
<1> DEFINE g == [k \in 0 .. n |-> f[1 .. k]]
<1>4. g[0] = list
  <2>1. 1 .. 0 = {}
    OBVIOUS
  <2> QED
    BY <1>3, <2>1
<1>5. ASSUME NEW k \in 1 .. n PROVE g[k] = RemoveValue(g[k - 1], item[k])
  <2>1. /\ 1 .. k \in SUBSET (1 .. n) /\ 1 .. k # {}
        /\ Max(1 .. k) = k /\ (1 .. k) \ {k} = 1 .. k - 1
    BY <1>1, PrefixFacts
  <2>2. f[1 .. k] = RemoveValue(f[1 .. k - 1], item[k])
    BY <1>1, <1>3, <2>1
  <2>3. k \in 0 .. n /\ k - 1 \in 0 .. n
    BY <1>1
  <2> QED
    BY <2>2, <2>3
<1>6. RemoveValues(list, item) = g[n]
  BY <1>1, <1>3
<1> HIDE DEF g
<1> QED
  BY <1>4, <1>5, <1>6

\* Values that are added are listed after that, with those that were before.
LEMMA AddValuesEffect ==
  ASSUME NEW list \in Seq(Values), NEW item \in Seq(Values)
  PROVE  /\ AddValues(list, item) \in Seq(Values)
         /\ ToSet(AddValues(list, item)) = ToSet(list) \cup ToSet(item)
         /\ IsInjective(list) => IsInjective(AddValues(list, item))
<1> DEFINE n == Len(item)
<1>1. n \in Nat /\ DOMAIN item = 1 .. n
  OBVIOUS
<1>2. PICK g : /\ g[0] = list
               /\ \A k \in 1 .. n : g[k] = AddValue(g[k - 1], item[k])
               /\ AddValues(list, item) = g[n]
  BY AddValuesRun
<1> DEFINE Good == {k \in 0 .. n :
                      /\ g[k] \in Seq(Values)
                      /\ ToSet(g[k]) = ToSet(list) \cup {item[i] : i \in 1 .. k}
                      /\ IsInjective(list) => IsInjective(g[k])}
<1>3. 0 \in Good
  <2>1. {item[i] : i \in 1 .. 0} = {} /\ 0 \in 0 .. n
    BY <1>1
  <2> QED
    BY <1>2, <2>1
<1>4. ASSUME NEW k \in 1 .. n, k - 1 \in Good PROVE k \in Good
  <2>1. /\ g[k - 1] \in Seq(Values)
        /\ ToSet(g[k - 1]) = ToSet(list) \cup {item[i] : i \in 1 .. k - 1}
        /\ IsInjective(list) => IsInjective(g[k - 1])
    BY <1>4
  <2>2. k \in 0 .. n /\ item[k] \in Values
    BY <1>1
  <2>3. {item[i] : i \in 1 .. k} = {item[i] : i \in 1 .. k - 1} \cup {item[k]}
    BY <1>1, PrefixElements
  <2>4. /\ g[k] \in Seq(Values)
        /\ ToSet(g[k]) = ToSet(g[k - 1]) \cup {item[k]}
        /\ IsInjective(g[k - 1]) => IsInjective(g[k])
    BY <1>2, <2>1, <2>2, AddValueEffect
  <2> QED
    BY <2>1, <2>2, <2>3, <2>4
<1>5. n \in Good
  <2>1. n \in 0 .. n
    BY <1>1
  <2> HIDE DEF Good, n
  <2> QED
    BY <1>1, <1>3, <1>4, <2>1, UpToInduction
<1>6. {item[i] : i \in 1 .. n} = ToSet(item)
  BY <1>1 DEF ToSet
<1> QED
  BY <1>2, <1>5, <1>6

\* What is left of a list from which gone has been removed.
Left(list, gone, left) ==
  \/ left = Failed
  \/ left = Deleted /\ ToSet(list) \subseteq gone
  \/ /\ left \in Seq(Values)
     /\ ToSet(left) = ToSet(list) \ gone
     /\ IsInjective(list) => IsInjective(left)

LEMMA RemoveValuesEffect ==
  ASSUME NEW list \in Seq(Values), NEW item \in Seq(Values)
  PROVE  Left(list, ToSet(item), RemoveValues(list, item))
<1> DEFINE n == Len(item)
<1>1. n \in Nat /\ DOMAIN item = 1 .. n /\ list \in Lists
  BY DEF Lists
<1>2. PICK g : /\ g[0] = list
               /\ \A k \in 1 .. n : g[k] = RemoveValue(g[k - 1], item[k])
               /\ RemoveValues(list, item) = g[n]
  BY <1>1, RemoveValuesRun
<1> DEFINE Good == {k \in 0 .. n : Left(list, {item[i] : i \in 1 .. k}, g[k])}
<1>3. 0 \in Good
  <2>1. {item[i] : i \in 1 .. 0} = {} /\ 0 \in 0 .. n
    BY <1>1
  <2> QED
    BY <1>2, <2>1 DEF Left
<1>4. ASSUME NEW k \in 1 .. n, k - 1 \in Good PROVE k \in Good
  <2> DEFINE before == {item[i] : i \in 1 .. k - 1}
             rest == Without(g[k - 1], item[k])
  <2>1. Left(list, before, g[k - 1])
    BY <1>4
  <2>2. k \in 0 .. n
    BY <1>1
  <2>3. {item[i] : i \in 1 .. k} = before \cup {item[k]}
    BY <1>1, PrefixElements
  <2>4. g[k] = RemoveValue(g[k - 1], item[k])
    BY <1>2
  <2>5. Left(list, before \cup {item[k]}, g[k])
    <3> HIDE DEF before
    <3>1. CASE g[k - 1] \in {Deleted, Failed}
      BY <2>4, <3>1 DEF RemoveValue, Left
    <3>2. CASE g[k - 1] \notin {Deleted, Failed}
      <4>1. /\ g[k - 1] \in Seq(Values)
            /\ ToSet(g[k - 1]) = ToSet(list) \ before
            /\ IsInjective(list) => IsInjective(g[k - 1])
        BY <2>1, <3>2 DEF Left
      <4>2. /\ rest \in Seq(Values)
            /\ ToSet(rest) = ToSet(g[k - 1]) \ {item[k]}
            /\ IsInjective(g[k - 1]) => IsInjective(rest)
        BY <4>1, WithoutEffect
      <4> HIDE DEF rest
      <4>3. g[k] = IF rest = <<>> THEN Deleted ELSE rest
        BY <2>4, <3>2 DEF RemoveValue, rest
      <4>4. rest = <<>> => ToSet(rest) = {}
        BY DEF ToSet
      <4> QED
        BY <4>1, <4>2, <4>3, <4>4 DEF Left
    <3> QED
      BY <3>1, <3>2
  <2> QED
    BY <2>2, <2>3, <2>5
<1>5. n \in Good
  <2>1. n \in 0 .. n
    BY <1>1
  <2> HIDE DEF Good, n
  <2> QED
    BY <1>1, <1>3, <1>4, <2>1, UpToInduction
<1>6. {item[i] : i \in 1 .. n} = ToSet(item)
  BY <1>1 DEF ToSet
<1> QED
  BY <1>2, <1>5, <1>6

-----------------------------------------------------------------------------
(***************************************************************************)
(* Edits of a policy.                                                       *)
(***************************************************************************)

ClaimsOK(part) ==
  \/ part = Missing
  \/ /\ DOMAIN part \subseteq Claims
     /\ part \in [DOMAIN part -> Seq(Values)]
     /\ \A c \in DOMAIN part : IsInjective(part[c])

BoundsOK(part) == part = Missing \/ IsMap(part, Claims, Values)

PolicyOK(policy) ==
  /\ ClaimsOK(policy.claims)
  /\ \A operator \in Operators : BoundsOK(policy[operator])

LEMMA PolicyTyped ==
  ASSUME NEW policy
  PROVE  PolicyTypeOK(policy) <=> PolicyOK(policy)
BY DEF PolicyTypeOK, PolicyOK, ClaimsOK, BoundsOK, IsMap

\* The values a part of a policy lists for a claim, those an edit names, and
\* the bound a part has for a claim.
Listed(part, c) == IF c \in DOMAIN OrEmpty(part) THEN ToSet(part[c]) ELSE {}

Named(claims, c) == IF c \in DOMAIN claims THEN ToSet(claims[c]) ELSE {}

Bounded(part, c, v) == c \in DOMAIN OrEmpty(part) /\ part[c] = v

\* Two parts are the same at a claim.
SameAt(new, old, c) ==
  /\ c \in DOMAIN OrEmpty(new) <=> c \in DOMAIN OrEmpty(old)
  /\ c \in DOMAIN OrEmpty(new) => new[c] = old[c]

LEMMA NotMissing ==
  ASSUME NEW part, DOMAIN part \subseteq AllClaims,
         \/ part \in [DOMAIN part -> Seq(Values)]
         \/ part \in [DOMAIN part -> Values]
  PROVE  part # Missing /\ OrEmpty(part) = part
BY PolicyAssumption DEF OrEmpty

LEMMA EmptyPart == DOMAIN OrEmpty(Missing) = {}
BY DEF OrEmpty

LEMMA AddClaimsEffect ==
  ASSUME NEW part, ClaimsOK(part),
         NEW claims, IsMap(claims, AllClaims, Seq(Values)),
         NEW new, new = AddClaims(part, claims), new # Failed
  PROVE  /\ ClaimsOK(new)
         /\ \A c : Listed(new, c) = Listed(part, c) \cup Named(claims, c)
         /\ \A c : c \notin DOMAIN claims => SameAt(new, part, c)
<1> DEFINE old == OrEmpty(part)
           D == DOMAIN old \cup DOMAIN claims
           Base(c) == IF c \in DOMAIN old THEN old[c] ELSE <<>>
<1>1. DOMAIN claims \subseteq Claims /\ claims \in [DOMAIN claims -> Seq(Values)]
  BY DEF IsMap, AddClaims
<1>2. /\ DOMAIN old \subseteq Claims
      /\ old \in [DOMAIN old -> Seq(Values)]
      /\ \A c \in DOMAIN old : IsInjective(old[c]) /\ old[c] = part[c]
  BY DEF ClaimsOK, OrEmpty
<1>3. new = [c \in D |-> IF c \notin DOMAIN claims THEN old[c]
                         ELSE AddValues(Base(c), claims[c])]
  BY <1>1 DEF AddClaims
<1>4. \A c : Base(c) \in Seq(Values) /\ IsInjective(Base(c))
  BY <1>2 DEF IsInjective
<1>5. \A c : ToSet(Base(c)) = Listed(part, c)
  BY <1>2 DEF Listed, ToSet
<1> HIDE DEF Base, old
<1>6. ASSUME NEW c \in DOMAIN claims
      PROVE  /\ AddValues(Base(c), claims[c]) \in Seq(Values)
             /\ IsInjective(AddValues(Base(c), claims[c]))
             /\ ToSet(AddValues(Base(c), claims[c]))
                  = Listed(part, c) \cup Named(claims, c)
  <2>1. claims[c] \in Seq(Values)
    BY <1>1
  <2> QED
    BY <1>4, <1>5, <2>1, AddValuesEffect DEF Named
<1>7. /\ DOMAIN new = D
      /\ D \subseteq Claims
      /\ new \in [D -> Seq(Values)]
      /\ \A c \in D : IsInjective(new[c])
  BY <1>1, <1>2, <1>3, <1>6
<1>8. OrEmpty(new) = new
  BY <1>7, NotMissing, PolicyAssumption
<1>9. ASSUME NEW c PROVE Listed(new, c) = Listed(part, c) \cup Named(claims, c)
  <2>1. CASE c \in DOMAIN claims
    BY <1>3, <1>6, <1>7, <1>8, <2>1 DEF Listed
  <2>2. CASE c \notin DOMAIN claims
    BY <1>2, <1>3, <1>7, <1>8, <2>2 DEF Listed, Named, old
  <2> QED
    BY <2>1, <2>2
<1>10. \A c : c \notin DOMAIN claims => SameAt(new, part, c)
  BY <1>2, <1>3, <1>7, <1>8 DEF SameAt, old
<1> QED
  BY <1>7, <1>9, <1>10 DEF ClaimsOK

LEMMA RemoveClaimsEffect ==
  ASSUME NEW part, ClaimsOK(part),
         NEW claims, IsMap(claims, AllClaims, Seq(Values)),
         NEW new, new = RemoveClaims(part, claims), new # Failed
  PROVE  /\ ClaimsOK(new)
         /\ \A c : Listed(new, c) = Listed(part, c) \ Named(claims, c)
         /\ \A c : c \notin DOMAIN claims => SameAt(new, part, c)
<1> DEFINE left == [c \in DOMAIN claims |-> RemoveValues(part[c], claims[c])]
           D == DOMAIN part \ {c \in DOMAIN claims : left[c] = Deleted}
<1>1. /\ part # Missing
      /\ DOMAIN claims \subseteq Claims \cap DOMAIN part
      /\ \A c \in DOMAIN claims : left[c] # Failed
      /\ new = [c \in D |-> IF c \in DOMAIN claims THEN left[c] ELSE part[c]]
  BY DEF RemoveClaims
<1>2. /\ DOMAIN part \subseteq Claims
      /\ part \in [DOMAIN part -> Seq(Values)]
      /\ \A c \in DOMAIN part : IsInjective(part[c])
      /\ OrEmpty(part) = part
  BY <1>1 DEF ClaimsOK, OrEmpty
<1>3. ASSUME NEW c \in DOMAIN claims
      PROVE  /\ part[c] \in Seq(Values) /\ IsInjective(part[c])
             /\ Left(part[c], ToSet(claims[c]), left[c])
  <2>1. claims[c] \in Seq(Values) /\ part[c] \in Seq(Values)
    BY <1>1, <1>2 DEF IsMap
  <2> QED
    BY <1>1, <1>2, <2>1, RemoveValuesEffect
<1> HIDE DEF left
<1>4. \A c \in DOMAIN claims : \/ left[c] = Deleted
                               \/ left[c] \in Seq(Values) /\ IsInjective(left[c])
  BY <1>1, <1>3 DEF Left
<1>5. /\ DOMAIN new = D
      /\ D \subseteq Claims
      /\ new \in [D -> Seq(Values)]
      /\ \A c \in D : IsInjective(new[c])
  BY <1>1, <1>2, <1>4
<1>6. OrEmpty(new) = new
  BY <1>5, NotMissing, PolicyAssumption
<1>7. ASSUME NEW c PROVE Listed(new, c) = Listed(part, c) \ Named(claims, c)
  <2>1. CASE c \notin DOMAIN claims
    BY <1>1, <1>2, <1>5, <1>6, <2>1 DEF Listed, Named
  <2>2. CASE c \in DOMAIN claims /\ left[c] = Deleted
    <3>1. ToSet(part[c]) \subseteq ToSet(claims[c])
      BY <1>3, <2>2, PolicyAssumption DEF Left
    <3> QED
      BY <1>1, <1>2, <1>5, <1>6, <2>2, <3>1 DEF Listed, Named
  <2>3. CASE c \in DOMAIN claims /\ left[c] # Deleted
    <3>1. ToSet(left[c]) = ToSet(part[c]) \ ToSet(claims[c])
      BY <1>1, <1>3, <2>3 DEF Left
    <3>2. c \in D /\ new[c] = left[c]
      BY <1>1, <2>3
    <3> QED
      BY <1>1, <1>2, <1>5, <1>6, <2>3, <3>1, <3>2 DEF Listed, Named
  <2> QED
    BY <2>1, <2>2, <2>3
<1>8. \A c : c \notin DOMAIN claims => SameAt(new, part, c)
  BY <1>1, <1>2, <1>5, <1>6 DEF SameAt
<1> QED
  BY <1>5, <1>7, <1>8 DEF ClaimsOK

LEMMA AddOperatorEffect ==
  ASSUME NEW part, BoundsOK(part),
         NEW bounds, bounds = Missing \/ IsMap(bounds, AllClaims, Values),
         NEW new, new = AddOperator(part, bounds), new # Failed
  PROVE  /\ BoundsOK(new)
         /\ \A c, v : Bounded(new, c, v) <=> IF c \in DOMAIN OrEmpty(bounds)
                                             THEN bounds[c] = v
                                             ELSE Bounded(part, c, v)
         /\ \A c : c \notin DOMAIN OrEmpty(bounds) => SameAt(new, part, c)
<1>1. CASE bounds = Missing
  BY <1>1, EmptyPart DEF AddOperator, Bounded, SameAt
<1>2. CASE bounds # Missing
  <2> DEFINE old == OrEmpty(part)
             D == DOMAIN old \cup DOMAIN bounds
  <2>1. /\ DOMAIN bounds \subseteq Claims
        /\ bounds \in [DOMAIN bounds -> Values]
        /\ OrEmpty(bounds) = bounds
        /\ new = [c \in D |-> IF c \in DOMAIN bounds THEN bounds[c] ELSE part[c]]
    BY <1>2 DEF AddOperator, IsMap, OrEmpty
  <2>2. /\ DOMAIN old \subseteq Claims
        /\ \A c \in DOMAIN old : part[c] \in Values
    BY EmptyPart DEF BoundsOK, IsMap, OrEmpty
  <2> HIDE DEF old
  <2>3. /\ DOMAIN new = D
        /\ D \subseteq Claims
        /\ new \in [D -> Values]
    BY <2>1, <2>2
  <2>4. OrEmpty(new) = new
    BY <2>3, NotMissing, PolicyAssumption
  <2>5. BoundsOK(new)
    BY <2>3 DEF BoundsOK, IsMap
  <2> QED
    BY <2>1, <2>3, <2>4, <2>5 DEF Bounded, SameAt, old
<1> QED
  BY <1>1, <1>2

LEMMA RemoveOperatorEffect ==
  ASSUME NEW part, BoundsOK(part), NEW bounds,
         NEW new, new = RemoveOperator(part, bounds), new # Failed
  PROVE  /\ BoundsOK(new)
         /\ \A c, v : Bounded(new, c, v) <=> /\ c \notin DOMAIN OrEmpty(bounds)
                                             /\ Bounded(part, c, v)
         /\ \A c : c \notin DOMAIN OrEmpty(bounds) => SameAt(new, part, c)
<1>1. CASE bounds = Missing
  BY <1>1, EmptyPart DEF RemoveOperator, Bounded, SameAt
<1>2. CASE bounds # Missing
  <2> DEFINE D == DOMAIN part \ DOMAIN bounds
  <2>1. /\ part # Missing
        /\ OrEmpty(bounds) = bounds /\ OrEmpty(part) = part
        /\ new = [c \in D |-> part[c]]
    BY <1>2 DEF RemoveOperator, OrEmpty
  <2>2. /\ DOMAIN part \subseteq Claims
        /\ \A c \in DOMAIN part : part[c] \in Values
    BY <2>1 DEF BoundsOK, IsMap
  <2>3. /\ DOMAIN new = D
        /\ D \subseteq Claims
        /\ new \in [D -> Values]
    BY <2>1, <2>2
  <2>4. OrEmpty(new) = new
    BY <2>3, NotMissing, PolicyAssumption
  <2>5. BoundsOK(new)
    BY <2>3 DEF BoundsOK, IsMap
  <2> QED
    BY <2>1, <2>3, <2>4, <2>5 DEF Bounded, SameAt
<1> QED
  BY <1>1, <1>2

\* What an action that does not throw makes of a policy: the values and bounds
\* it names are there, or gone, and everything else is as it was.
Edited(edit, old, new) ==
  /\ edit.type \in {"add", "remove"}
  /\ \A c : Listed(new.claims, c)
              = IF edit.type = "add"
                THEN Listed(old.claims, c) \cup Named(edit.claims, c)
                ELSE Listed(old.claims, c) \ Named(edit.claims, c)
  /\ \A operator \in Operators : \A c, v :
       Bounded(new[operator], c, v)
         <=> IF c \in DOMAIN OrEmpty(edit[operator])
             THEN edit.type = "add" /\ edit[operator][c] = v
             ELSE Bounded(old[operator], c, v)
  /\ \A c : c \notin DOMAIN edit.claims => SameAt(new.claims, old.claims, c)
  /\ \A operator \in Operators : \A c :
       c \notin DOMAIN OrEmpty(edit[operator])
         => SameAt(new[operator], old[operator], c)

LEMMA ApplyEffect ==
  ASSUME NEW edit \in Edits, NEW old, PolicyOK(old),
         NEW new, new = Apply(edit, old),
         Failed \notin {new.claims, new.gte, new.gt}
  PROVE  PolicyOK(new) /\ Edited(edit, old, new)
<1>1. /\ edit.type \in {"add", "remove", "other"}
      /\ IsMap(edit.claims, AllClaims, Seq(Values))
      /\ \A operator \in Operators :
           edit[operator] = Missing \/ IsMap(edit[operator], AllClaims, Values)
  BY PolicyAssumption DEF IsEdit, Operators
<1>2. /\ ClaimsOK(old.claims)
      /\ \A operator \in Operators : BoundsOK(old[operator])
  BY DEF PolicyOK
<1>3. CASE edit.type = "add"
  <2>1. /\ new.claims = AddClaims(old.claims, edit.claims)
        /\ \A operator \in Operators :
             new[operator] = AddOperator(old[operator], edit[operator])
    BY <1>3 DEF Apply, Operators
  <2>2. /\ new.claims # Failed
        /\ \A operator \in Operators : new[operator] # Failed
    BY DEF Operators
  <2>3. /\ ClaimsOK(new.claims)
        /\ \A c : Listed(new.claims, c)
                    = Listed(old.claims, c) \cup Named(edit.claims, c)
        /\ \A c : c \notin DOMAIN edit.claims
                    => SameAt(new.claims, old.claims, c)
    BY <1>1, <1>2, <2>1, <2>2, AddClaimsEffect
  <2>4. ASSUME NEW operator \in Operators
        PROVE  /\ BoundsOK(new[operator])
               /\ \A c, v : Bounded(new[operator], c, v)
                              <=> IF c \in DOMAIN OrEmpty(edit[operator])
                                  THEN edit[operator][c] = v
                                  ELSE Bounded(old[operator], c, v)
               /\ \A c : c \notin DOMAIN OrEmpty(edit[operator])
                           => SameAt(new[operator], old[operator], c)
    BY <1>1, <1>2, <2>1, <2>2, AddOperatorEffect
  <2> QED
    BY <1>3, <2>3, <2>4 DEF PolicyOK, Edited
<1>4. CASE edit.type = "remove"
  <2>1. /\ new.claims = RemoveClaims(old.claims, edit.claims)
        /\ \A operator \in Operators :
             new[operator] = RemoveOperator(old[operator], edit[operator])
    BY <1>4 DEF Apply, Operators
  <2>2. /\ new.claims # Failed
        /\ \A operator \in Operators : new[operator] # Failed
    BY DEF Operators
  <2>3. /\ ClaimsOK(new.claims)
        /\ \A c : Listed(new.claims, c)
                    = Listed(old.claims, c) \ Named(edit.claims, c)
        /\ \A c : c \notin DOMAIN edit.claims
                    => SameAt(new.claims, old.claims, c)
    BY <1>1, <1>2, <2>1, <2>2, RemoveClaimsEffect
  <2>4. ASSUME NEW operator \in Operators
        PROVE  /\ BoundsOK(new[operator])
               /\ \A c, v : Bounded(new[operator], c, v)
                              <=> /\ c \notin DOMAIN OrEmpty(edit[operator])
                                  /\ Bounded(old[operator], c, v)
               /\ \A c : c \notin DOMAIN OrEmpty(edit[operator])
                           => SameAt(new[operator], old[operator], c)
    BY <1>2, <2>1, <2>2, RemoveOperatorEffect
  <2> QED
    BY <1>4, <2>3, <2>4 DEF PolicyOK, Edited
<1>5. CASE edit.type = "other"
  BY <1>5 DEF Apply
<1> QED
  BY <1>1, <1>3, <1>4, <1>5

-----------------------------------------------------------------------------
(***************************************************************************)
(* The entries of the ledger.                                               *)
(***************************************************************************)

KvOK(kv) ==
  /\ DOMAIN kv.policies = Providers
  /\ \A p \in Providers : PolicyOK(kv.policies[p])
  /\ kv.edit \in Edits \cup {NoEdit}
  /\ kv.provider \in Providers

LedgerOK == LedgerTypeOK /\ \A i \in 1 .. Len(ledger) : KvOK(ledger[i])

\* The edits of the first n entries, by what they are about; the last of those
\* in S adds.
EditsUpTo(n, p) == {i \in EditsOf(p) : i <= n}

NamingUpTo(n, p, c, v) ==
  {i \in EditsUpTo(n, p) : v \in Named(ledger[i].edit.claims, c)}

BoundingUpTo(n, p, operator, c) ==
  {i \in EditsUpTo(n, p) : c \in DOMAIN OrEmpty(ledger[i].edit[operator])}

LastAdds(S) == \E i \in S : LastIn(S, i) /\ ledger[i].edit.type = "add"

LastBounds(S, operator, c, v) ==
  \E i \in S : /\ LastIn(S, i)
               /\ ledger[i].edit.type = "add"
               /\ ledger[i].edit[operator][c] = v

\* What LastEditWins says of the last entry, for every entry.
WinsAt(n) ==
  \A p \in Providers :
    /\ \A c, v : v \in Listed(ledger[n].policies[p].claims, c)
                   <=> LastAdds(NamingUpTo(n, p, c, v))
    /\ \A operator \in Operators : \A c, v :
         Bounded(ledger[n].policies[p][operator], c, v)
           <=> LastBounds(BoundingUpTo(n, p, operator, c), operator, c, v)

WinsInv == \A n \in 1 .. Len(ledger) : WinsAt(n)

LEMMA LatestFacts ==
  ASSUME LedgerOK
  PROVE  /\ LedgerTypeOK
         /\ Len(ledger) \in Nat \ {0}
         /\ Len(ledger) \in 1 .. Len(ledger)
         /\ Latest = ledger[Len(ledger)]
         /\ KvOK(Latest)
BY DEF LedgerOK, LedgerTypeOK, Latest

\* What an action writes.
LEMMA AppliedFacts ==
  ASSUME LedgerOK, NEW edit \in Edits, NEW provider \in Providers,
         Applied(edit, provider), NEW n, n = Len(ledger)
  PROVE  /\ LedgerOK'
         /\ Len(ledger') = n + 1
         /\ \A i \in 1 .. n : ledger'[i] = ledger[i]
         /\ ledger'[n + 1].edit = edit
         /\ ledger'[n + 1].provider = provider
         /\ Edited(edit, ledger[n].policies[provider],
                   ledger'[n + 1].policies[provider])
         /\ \A p \in Providers \ {provider} :
              ledger'[n + 1].policies[p] = ledger[n].policies[p]
<1> DEFINE old == Latest.policies[provider]
           new == Apply(edit, old)
<1>1. /\ Failed \notin {new.claims, new.gte, new.gt}
      /\ Write([policies |-> [Latest.policies EXCEPT ![provider] = new],
                edit |-> edit, provider |-> provider])
  BY DEF Applied
<1>2. /\ LedgerTypeOK /\ n \in Nat \ {0} /\ Latest = ledger[n] /\ KvOK(Latest)
  BY LatestFacts
<1>3. PolicyOK(old)
  BY <1>2 DEF KvOK
<1> HIDE DEF old
<1>4. PolicyOK(new) /\ Edited(edit, old, new)
  BY <1>1, <1>3, ApplyEffect
<1> HIDE DEF new
<1>5. /\ LedgerTypeOK'
      /\ Len(ledger') = n + 1
      /\ ledger'[n + 1].policies = [Latest.policies EXCEPT ![provider] = new]
      /\ ledger'[n + 1].edit = edit
      /\ ledger'[n + 1].provider = provider
      /\ \A i \in 1 .. n : ledger'[i] = ledger[i]
  BY <1>1, <1>2, WriteStep
<1>6. /\ DOMAIN ledger'[n + 1].policies = Providers
      /\ ledger'[n + 1].policies[provider] = new
      /\ \A p \in Providers \ {provider} :
           ledger'[n + 1].policies[p] = Latest.policies[p]
  BY <1>2, <1>5 DEF KvOK
<1>7. KvOK(ledger'[n + 1])
  BY <1>2, <1>4, <1>5, <1>6 DEF KvOK
<1>8. LedgerOK'
  <2>1. \A i \in 1 .. n + 1 : i \in 1 .. n \/ i = n + 1
    BY <1>2
  <2> QED
    BY <1>5, <1>7, <2>1 DEF LedgerOK, KvOK
<1> QED
  BY <1>2, <1>4, <1>5, <1>6, <1>8 DEF old

\* What an entry says depends on the entries up to it only.
LEMMA EditsUnchanged ==
  ASSUME NEW n \in Nat, n <= Len(ledger), n <= Len(ledger'),
         Len(ledger) \in Nat, Len(ledger') \in Nat,
         \A i \in 1 .. n : ledger'[i] = ledger[i]
  PROVE  /\ \A p : EditsUpTo(n, p)' = EditsUpTo(n, p)
         /\ \A p : \A i \in EditsUpTo(n, p) :
              i \in 1 .. n /\ ledger'[i] = ledger[i]
<1>1. \A p : \A i \in EditsUpTo(n, p) : i \in 1 .. n
  BY DEF EditsUpTo, EditsOf
<1> QED
  BY <1>1 DEF EditsUpTo, EditsOf

LEMMA WinsUnchanged ==
  ASSUME NEW n \in Nat \ {0}, n <= Len(ledger), n <= Len(ledger'),
         Len(ledger) \in Nat, Len(ledger') \in Nat,
         \A i \in 1 .. n : ledger'[i] = ledger[i],
         WinsAt(n)
  PROVE  WinsAt(n)'
<1>1. /\ \A p : EditsUpTo(n, p)' = EditsUpTo(n, p)
      /\ \A p : \A i \in EditsUpTo(n, p) : ledger'[i] = ledger[i]
  BY EditsUnchanged
<1>2. \A p, c, v : NamingUpTo(n, p, c, v)' = NamingUpTo(n, p, c, v)
  BY <1>1 DEF NamingUpTo
<1>3. \A p, operator, c : BoundingUpTo(n, p, operator, c)'
                            = BoundingUpTo(n, p, operator, c)
  BY <1>1 DEF BoundingUpTo
<1>4. \A p, c, v : LastAdds(NamingUpTo(n, p, c, v))'
                     <=> LastAdds(NamingUpTo(n, p, c, v))
  <2>1. \A p, c, v : \A i \in NamingUpTo(n, p, c, v) : ledger'[i] = ledger[i]
    BY <1>1 DEF NamingUpTo
  <2> QED
    BY <1>2, <2>1 DEF LastAdds, LastIn
<1>5. \A p, operator, c, v :
        LastBounds(BoundingUpTo(n, p, operator, c), operator, c, v)'
          <=> LastBounds(BoundingUpTo(n, p, operator, c), operator, c, v)
  <2>1. \A p, operator, c : \A i \in BoundingUpTo(n, p, operator, c) :
          ledger'[i] = ledger[i]
    BY <1>1 DEF BoundingUpTo
  <2> QED
    BY <1>3, <2>1 DEF LastBounds, LastIn
<1>6. ledger'[n] = ledger[n]
  OBVIOUS
<1> QED
  BY <1>4, <1>5, <1>6 DEF WinsAt

\* The new entry decides about what its edit names, and about nothing else.
LEMMA WinsPost ==
  ASSUME LedgerOK, NEW edit \in Edits, NEW provider \in Providers,
         Applied(edit, provider), NEW n, n = Len(ledger), WinsAt(n)
  PROVE  WinsAt(n + 1)'
<1> DEFINE m == n + 1
           old == ledger[n].policies
           new == ledger'[m].policies
<1>1. /\ Len(ledger') = m
      /\ \A i \in 1 .. n : ledger'[i] = ledger[i]
      /\ ledger'[m].edit = edit
      /\ ledger'[m].provider = provider
      /\ Edited(edit, old[provider], new[provider])
      /\ \A p \in Providers \ {provider} : new[p] = old[p]
  BY AppliedFacts
<1>2. n \in Nat \ {0} /\ m \in Nat /\ n < m
  BY LatestFacts
<1>3. /\ \A p : EditsUpTo(n, p)' = EditsUpTo(n, p)
      /\ \A p : \A i \in EditsUpTo(n, p) : i \in 1 .. n /\ ledger'[i] = ledger[i]
  BY <1>1, <1>2, EditsUnchanged
<1>4. \A p : EditsUpTo(m, p)' = EditsUpTo(n, p) \cup {i \in {m} : p = provider}
  <2>1. \A i \in 1 .. m : i <= m /\ (i <= n <=> i # m)
    BY <1>2
  <2>2. m \in 1 .. m /\ edit # NoEdit
    BY <1>2, PolicyAssumption
  <2>3. \A p : EditsUpTo(m, p)' = EditsUpTo(n, p)' \cup {i \in {m} : p = provider}
    BY <1>1, <2>1, <2>2 DEF EditsUpTo, EditsOf
  <2> QED
    BY <1>3, <2>3
<1> HIDE DEF m, old, new
<1>5. ASSUME NEW p, NEW c, NEW v
      PROVE  /\ NamingUpTo(m, p, c, v)'
                  = NamingUpTo(n, p, c, v)
                      \cup {i \in {m} : p = provider /\ v \in Named(edit.claims, c)}
             /\ \A i \in NamingUpTo(n, p, c, v) :
                  i \in 1 .. n /\ ledger'[i] = ledger[i]
  BY <1>1, <1>3, <1>4 DEF NamingUpTo
<1>6. ASSUME NEW p, NEW operator, NEW c
      PROVE  /\ \A i : i \in BoundingUpTo(m, p, operator, c)'
                        <=> \/ i \in BoundingUpTo(n, p, operator, c)
                            \/ /\ i = m /\ p = provider
                               /\ c \in DOMAIN OrEmpty(edit[operator])
             /\ \A i \in BoundingUpTo(n, p, operator, c) :
                  i \in 1 .. n /\ ledger'[i] = ledger[i]
  BY <1>1, <1>3, <1>4 DEF BoundingUpTo
<1>7. ASSUME NEW S, \A i \in S : i \in 1 .. n /\ ledger'[i] = ledger[i]
      PROVE  \A i \in S \cup {m} : LastIn(S \cup {m}, i) <=> i = m
  <2>1. \A i \in S : i \in Nat /\ i < m /\ ~ m <= i
    BY <1>2, <1>7
  <2> QED
    BY <1>2, <2>1 DEF LastIn
<1>8. ASSUME NEW p \in Providers, NEW c, NEW v
      PROVE  v \in Listed(new[p].claims, c) <=> LastAdds(NamingUpTo(m, p, c, v))'
  <2> DEFINE S == NamingUpTo(n, p, c, v)
  <2>1. v \in Listed(old[p].claims, c) <=> LastAdds(S)
    BY DEF WinsAt, old
  <2>2. \A i \in S : i \in 1 .. n /\ ledger'[i] = ledger[i]
    BY <1>5
  <2>3. LastAdds(NamingUpTo(m, p, c, v))'
          <=> \E i \in NamingUpTo(m, p, c, v)' :
                /\ LastIn(NamingUpTo(m, p, c, v)', i)
                /\ ledger'[i].edit.type = "add"
    BY DEF LastAdds, LastIn
  <2>4. CASE p = provider /\ v \in Named(edit.claims, c)
    <3>1. NamingUpTo(m, p, c, v)' = S \cup {m}
      BY <1>5, <2>4
    <3>2. v \in Listed(new[p].claims, c) <=> edit.type = "add"
      BY <1>1, <2>4 DEF Edited
    <3>3. \A i \in S \cup {m} : LastIn(S \cup {m}, i) <=> i = m
      BY <1>7, <2>2
    <3> HIDE DEF S
    <3> QED
      BY <1>1, <2>3, <3>1, <3>2, <3>3
  <2>5. CASE p # provider \/ v \notin Named(edit.claims, c)
    <3>1. NamingUpTo(m, p, c, v)' = S
      BY <1>5, <2>5
    <3>2. v \in Listed(new[p].claims, c) <=> v \in Listed(old[p].claims, c)
      BY <1>1, <2>5 DEF Edited
    <3> HIDE DEF S
    <3> QED
      BY <2>1, <2>2, <2>3, <3>1, <3>2 DEF LastAdds
  <2> QED
    BY <2>4, <2>5
<1>9. ASSUME NEW p \in Providers, NEW operator \in Operators, NEW c, NEW v
      PROVE  Bounded(new[p][operator], c, v)
               <=> LastBounds(BoundingUpTo(m, p, operator, c), operator, c, v)'
  <2> DEFINE S == BoundingUpTo(n, p, operator, c)
  <2>1. Bounded(old[p][operator], c, v) <=> LastBounds(S, operator, c, v)
    BY DEF WinsAt, old
  <2>2. \A i \in S : i \in 1 .. n /\ ledger'[i] = ledger[i]
    BY <1>6
  <2>3. LastBounds(BoundingUpTo(m, p, operator, c), operator, c, v)'
          <=> \E i \in BoundingUpTo(m, p, operator, c)' :
                /\ LastIn(BoundingUpTo(m, p, operator, c)', i)
                /\ ledger'[i].edit.type = "add"
                /\ ledger'[i].edit[operator][c] = v
    BY DEF LastBounds, LastIn
  <2>4. CASE p = provider /\ c \in DOMAIN OrEmpty(edit[operator])
    <3>1. BoundingUpTo(m, p, operator, c)' = S \cup {m}
      BY <1>6, <2>4
    <3>2. Bounded(new[p][operator], c, v)
            <=> edit.type = "add" /\ edit[operator][c] = v
      BY <1>1, <2>4 DEF Edited
    <3>3. \A i \in S \cup {m} : LastIn(S \cup {m}, i) <=> i = m
      BY <1>7, <2>2
    <3> HIDE DEF S
    <3> QED
      BY <1>1, <2>3, <3>1, <3>2, <3>3
  <2>5. CASE p # provider \/ c \notin DOMAIN OrEmpty(edit[operator])
    <3>1. BoundingUpTo(m, p, operator, c)' = S
      <4>1. \A i : i \in BoundingUpTo(m, p, operator, c)' <=> i \in S
        BY <1>6, <2>5
      <4> HIDE DEF S
      <4>2. BoundingUpTo(m, p, operator, c)' \subseteq S
        BY <4>1
      <4>3. S \subseteq BoundingUpTo(m, p, operator, c)'
        BY <4>1
      <4> QED
        BY <4>2, <4>3
    <3>2. Bounded(new[p][operator], c, v) <=> Bounded(old[p][operator], c, v)
      BY <1>1, <2>5 DEF Edited
    <3> HIDE DEF S
    <3> QED
      BY <2>1, <2>2, <2>3, <3>1, <3>2 DEF LastBounds
  <2> QED
    BY <2>4, <2>5
<1> QED
  BY <1>8, <1>9 DEF WinsAt, m, new

LEMMA PolicyInit == Init => LedgerOK /\ WinsInv
<1> SUFFICES ASSUME Init PROVE LedgerOK /\ WinsInv
  OBVIOUS
<1>1. /\ Len(ledger) = 1
      /\ ledger[1].policies = [p \in Providers |-> NoPolicy]
      /\ ledger[1].edit = NoEdit
      /\ ledger[1].provider = "azure"
      /\ ledger \in Seq({ledger[1]})
      /\ commit = 1
  BY DEF Init
<1>2. LedgerTypeOK
  <2>1. Entries = {ledger[1]}
    BY <1>1 DEF Entries
  <2> QED
    BY <1>1, <2>1 DEF LedgerTypeOK
<1>3. PolicyOK(NoPolicy)
  BY DEF NoPolicy, PolicyOK, ClaimsOK, BoundsOK, Operators
<1>4. LedgerOK
  BY <1>1, <1>2, <1>3 DEF LedgerOK, KvOK, Providers
<1>5. \A p : EditsUpTo(1, p) = {}
  BY <1>1 DEF EditsUpTo, EditsOf
<1>6. /\ \A p, c, v : ~ LastAdds(NamingUpTo(1, p, c, v))
      /\ \A p, operator, c, v :
           ~ LastBounds(BoundingUpTo(1, p, operator, c), operator, c, v)
  BY <1>5 DEF NamingUpTo, BoundingUpTo, LastAdds, LastBounds
<1>7. /\ \A c : Listed(NoPolicy.claims, c) = {}
      /\ \A operator \in Operators : \A c, v : ~ Bounded(NoPolicy[operator], c, v)
  BY EmptyPart DEF NoPolicy, Listed, Bounded, Operators
<1>8. WinsAt(1)
  BY <1>1, <1>6, <1>7 DEF WinsAt
<1> QED
  BY <1>1, <1>4, <1>8 DEF WinsInv

LEMMA PolicyStep == LedgerOK /\ WinsInv /\ [Next]_vars => (LedgerOK /\ WinsInv)'
<1> SUFFICES ASSUME LedgerOK, WinsInv, [Next]_vars, NEW n, n = Len(ledger)
             PROVE  LedgerOK' /\ WinsInv'
  OBVIOUS
<1>1. n \in Nat \ {0} /\ n \in 1 .. n /\ LedgerTypeOK
  BY LatestFacts
<1>2. ASSUME NEW edit \in Edits, NEW provider \in Providers, Applied(edit, provider)
      PROVE  LedgerOK' /\ WinsInv'
  <2>1. /\ LedgerOK'
        /\ Len(ledger') = n + 1
        /\ \A i \in 1 .. n : ledger'[i] = ledger[i]
    BY <1>2, AppliedFacts
  <2>2. WinsAt(n + 1)'
    BY <1>1, <1>2, WinsPost DEF WinsInv
  <2>3. ASSUME NEW i \in 1 .. n PROVE WinsAt(i)'
    BY <1>1, <2>1, WinsUnchanged DEF WinsInv
  <2>4. \A i \in 1 .. n + 1 : i = n + 1 \/ i \in 1 .. n
    BY <1>1
  <2>5. \A i \in 1 .. n + 1 : WinsAt(i)'
    BY <2>2, <2>3, <2>4
  <2> QED
    BY <2>1, <2>5 DEF WinsInv
<1>3. ASSUME NEW v \in 1 .. n, LedgerTypeOK', Len(ledger') = v,
             \A i \in 1 .. v : ledger'[i] = ledger[i]
      PROVE  LedgerOK' /\ WinsInv'
  <2>1. LedgerOK'
    BY <1>1, <1>3 DEF LedgerOK, KvOK
  <2>2. ASSUME NEW i \in 1 .. v PROVE WinsAt(i)'
    BY <1>1, <1>3, WinsUnchanged DEF WinsInv
  <2> QED
    BY <1>3, <2>1, <2>2 DEF WinsInv
<1>4. CASE Commit
  <2>1. LedgerTypeOK' /\ ledger' = ledger
    BY <1>1, <1>4, GloballyCommitStep DEF Commit
  <2> QED
    BY <1>1, <1>3, <2>1
<1>5. CASE NewPrimary
  <2>1. PICK v \in 1 .. MaxLedger : Rollback(v)
    BY <1>5 DEF NewPrimary
  <2>2. /\ LedgerTypeOK'
        /\ v \in 1 .. n
        /\ Len(ledger') = v
        /\ \A i \in 1 .. v : ledger'[i] = ledger[i]
    BY <1>1, <2>1, RollbackStep DEF LedgerTypeOK
  <2> QED
    BY <1>3, <2>2
<1>6. CASE UNCHANGED vars
  <2>1. LedgerTypeOK' /\ ledger' = ledger
    BY <1>1, <1>6 DEF vars, LedgerTypeOK, Entries
  <2> QED
    BY <1>1, <1>3, <2>1
<1>7. CASE \E edit \in Edits : SetKeyReleasePolicy(edit)
  BY <1>2, <1>7 DEF SetKeyReleasePolicy, Providers
<1>8. CASE \E edit \in Edits : SetGcpKeyReleasePolicy(edit)
  BY <1>2, <1>8 DEF SetGcpKeyReleasePolicy, Providers
<1> QED
  BY <1>4, <1>5, <1>6, <1>7, <1>8 DEF Next

LEMMA PolicyInvariant == Spec => [](LedgerOK /\ WinsInv)
BY PolicyInit, PolicyStep, PTL DEF Spec

-----------------------------------------------------------------------------
(***************************************************************************)
(* What the policies hold.                                                  *)
(***************************************************************************)

\* Actions leave policies behind that list values of known claims, none of
\* them twice, and bounds of known claims.
THEOREM PolicyTypeCorrect == Spec => []TypeOK
<1>1. LedgerOK => TypeOK
  BY PolicyTyped DEF LedgerOK, LedgerTypeOK, KvOK, TypeOK
<1> QED
  BY <1>1, PolicyInvariant, PTL

\* A policy holds what the last edits about each value and each bound say, and
\* nothing that no edit put there: adding and removing single values never
\* disturbs other values, other claims or the other provider's policy.
THEOREM LastEditDecides == Spec => []LastEditWins
<1>1. LedgerOK /\ WinsInv => LastEditWins
  <2> SUFFICES ASSUME LedgerOK, WinsInv, NEW p \in Providers, NEW c \in Claims
               PROVE  LET policy == Latest.policies[p]
                          Naming(v) ==
                            {i \in EditsOf(p) :
                               /\ c \in DOMAIN ledger[i].edit.claims
                               /\ v \in ToSet(ledger[i].edit.claims[c])}
                          Bounding(operator) ==
                            {i \in EditsOf(p) :
                               /\ ledger[i].edit[operator] # Missing
                               /\ c \in DOMAIN ledger[i].edit[operator]}
                      IN  /\ \A v \in Values :
                               (/\ c \in DOMAIN OrEmpty(policy.claims)
                                /\ v \in ToSet(policy.claims[c]))
                               <=> \E i \in Naming(v) :
                                     LastIn(Naming(v), i) /\ ledger[i].edit.type = "add"
                          /\ \A operator \in Operators, v \in Values :
                               (/\ c \in DOMAIN OrEmpty(policy[operator])
                                /\ policy[operator][c] = v)
                               <=> \E i \in Bounding(operator) :
                                     /\ LastIn(Bounding(operator), i)
                                     /\ ledger[i].edit.type = "add"
                                     /\ ledger[i].edit[operator][c] = v
    BY Zenon DEF LastEditWins
  <2> DEFINE n == Len(ledger)
             policy == Latest.policies[p]
             Naming(v) == {i \in EditsOf(p) :
                             /\ c \in DOMAIN ledger[i].edit.claims
                             /\ v \in ToSet(ledger[i].edit.claims[c])}
             Bounding(operator) == {i \in EditsOf(p) :
                                      /\ ledger[i].edit[operator] # Missing
                                      /\ c \in DOMAIN ledger[i].edit[operator]}
  <2>1. n \in 1 .. n /\ n \in Nat /\ Latest = ledger[n]
    BY LatestFacts
  <2>2. WinsAt(n)
    BY <2>1 DEF WinsInv
  <2>3. EditsUpTo(n, p) = EditsOf(p)
    BY <2>1 DEF EditsUpTo, EditsOf
  <2>4. \A v : NamingUpTo(n, p, c, v) = Naming(v)
    BY <2>3 DEF NamingUpTo, Named
  <2>5. \A operator : BoundingUpTo(n, p, operator, c) = Bounding(operator)
    BY <2>3, EmptyPart DEF BoundingUpTo, OrEmpty
  <2> HIDE DEF Naming, Bounding, n
  <2>6. ASSUME NEW v \in Values
        PROVE  (/\ c \in DOMAIN OrEmpty(policy.claims)
                /\ v \in ToSet(policy.claims[c]))
               <=> \E i \in Naming(v) :
                     LastIn(Naming(v), i) /\ ledger[i].edit.type = "add"
    BY <2>1, <2>2, <2>4 DEF WinsAt, Listed, LastAdds
  <2>7. ASSUME NEW operator \in Operators, NEW v \in Values
        PROVE  (/\ c \in DOMAIN OrEmpty(policy[operator])
                /\ policy[operator][c] = v)
               <=> \E i \in Bounding(operator) :
                     /\ LastIn(Bounding(operator), i)
                     /\ ledger[i].edit.type = "add"
                     /\ ledger[i].edit[operator][c] = v
    BY <2>1, <2>2, <2>5 DEF WinsAt, Bounded, LastBounds
  <2> QED
    BY <2>6, <2>7, Zenon DEF Naming, Bounding
<1> QED
  BY <1>1, PolicyInvariant, PTL

-----------------------------------------------------------------------------
(***************************************************************************)
(* What validateAttestation answers.                                        *)
(***************************************************************************)

\* Bounds are checked as they should be, each operator by itself.
LEMMA OperatorsStatusFacts ==
  ASSUME NEW bounds, IsMap(bounds, Claims, Values), NEW att \in Attestations
  PROVE  /\ OperatorsStatus("gte", bounds, att) = 200
              <=> \A c \in DOMAIN bounds : ~ (att[c] = Undefined \/ att[c] < bounds[c])
         /\ OperatorsStatus("gt", bounds, att) = 200
              <=> \A c \in DOMAIN bounds : ~ (att[c] = Undefined \/ att[c] <= bounds[c])
<1>1. ASSUME NEW c \in DOMAIN bounds
      PROVE  bounds[c] \in Int /\ (att[c] # Undefined => att[c] \in Int)
  BY PolicyAssumption DEF IsMap, Attestations
<1>2. \A c \in DOMAIN bounds : att[c] # Undefined =>
        /\ att[c] >= bounds[c] <=> ~ att[c] < bounds[c]
        /\ att[c] > bounds[c] <=> ~ att[c] <= bounds[c]
  BY <1>1
<1> QED
  BY <1>2 DEF OperatorsStatus

\* What an accepted attestation passes: the claims and the bounds that count.
LEMMA StatusFacts ==
  ASSUME NEW policy, PolicyOK(policy), NEW att \in Attestations
  PROVE  /\ Accepts(policy, att) => AzureStatus(policy, att) = 200
         /\ ~ BothOperators(policy) /\ AzureStatus(policy, att) = 200
              => Accepts(policy, att)
<1> DEFINE ClaimsPass == \A c \in DOMAIN policy.claims :
                           att[c] \in ToSet(policy.claims[c])
           GtePass == \A c \in DOMAIN policy.gte :
                        ~ (att[c] = Undefined \/ att[c] < policy.gte[c])
           GtPass == \A c \in DOMAIN policy.gt :
                       ~ (att[c] = Undefined \/ att[c] <= policy.gt[c])
<1>1. /\ policy.claims # Missing => DOMAIN policy.claims \subseteq AllClaims
      /\ policy.gte # Missing => IsMap(policy.gte, Claims, Values)
      /\ policy.gt # Missing => IsMap(policy.gt, Claims, Values)
  BY PolicyAssumption DEF PolicyOK, ClaimsOK, BoundsOK, Operators
<1>2. ClaimsStatus(policy.claims, att) = 200 <=> ClaimsPass
  BY DEF ClaimsStatus
<1>3. policy.gte # Missing
        => (OperatorsStatus("gte", policy.gte, att) = 200 <=> GtePass)
  BY <1>1, OperatorsStatusFacts
<1>4. policy.gt # Missing
        => (OperatorsStatus("gt", policy.gt, att) = 200 <=> GtPass)
  BY <1>1, OperatorsStatusFacts
<1>5. /\ policy.gte # Missing => DOMAIN policy.gte \subseteq AllClaims
      /\ policy.gt # Missing => DOMAIN policy.gt \subseteq AllClaims
  BY <1>1, PolicyAssumption DEF IsMap
<1>6. Accepts(policy, att)
        <=> /\ policy.claims # Missing
            /\ DOMAIN policy.claims # {}
            /\ ClaimsPass
            /\ policy.gte # Missing => GtePass
            /\ policy.gt # Missing => GtPass
  <2>1. DOMAIN OrEmpty(policy.claims) # {}
          <=> policy.claims # Missing /\ DOMAIN policy.claims # {}
    BY EmptyPart DEF OrEmpty
  <2>2. \A c : /\ c \in DOMAIN OrEmpty(policy.claims)
                    <=> policy.claims # Missing /\ c \in DOMAIN policy.claims
               /\ c \in DOMAIN OrEmpty(policy.gte)
                    <=> policy.gte # Missing /\ c \in DOMAIN policy.gte
               /\ c \in DOMAIN OrEmpty(policy.gt)
                    <=> policy.gt # Missing /\ c \in DOMAIN policy.gt
    BY EmptyPart DEF OrEmpty
  <2>3. (\A c \in AllClaims : ~ FailsAt(policy, c, att))
          <=> /\ policy.claims # Missing => ClaimsPass
              /\ policy.gte # Missing => GtePass
              /\ policy.gt # Missing => GtPass
    BY <1>1, <1>5, <2>2 DEF FailsAt
  <2> QED
    BY <2>1, <2>3 DEF Accepts
<1> HIDE DEF ClaimsPass, GtePass, GtPass
<1>7. AzureStatus(policy, att) = 200
        <=> /\ policy.claims # Missing
            /\ DOMAIN policy.claims # {}
            /\ ClaimsPass
            /\ policy.gt # Missing => GtPass
            /\ policy.gt = Missing /\ policy.gte # Missing => GtePass
  <2>1. ClaimsStatus(policy.claims, att) \in {200, 400}
    BY DEF ClaimsStatus
  <2> QED
    BY <1>2, <1>3, <1>4, <2>1 DEF AzureStatus, Readable, PolicyStatus
<1> QED
  BY <1>6, <1>7 DEF BothOperators

\* Whatever edits have led to it, a policy that does not use both operators is
\* answered 200 for exactly the attestations it is meant to accept; one that
\* uses both for no fewer.
THEOREM StatusCorrect == Spec => []StatusAsConfigured
<1>1. LedgerOK => StatusAsConfigured
  <2> SUFFICES ASSUME LedgerOK, NEW att \in Attestations,
                      NEW policy, policy = Latest.policies["azure"]
               PROVE  /\ Accepts(policy, att)
                           => Status(Latest.policies, "azure", att) = 200
                      /\ ~ BothOperators(policy)
                           /\ Status(Latest.policies, "azure", att) = 200
                           => Accepts(policy, att)
    BY DEF StatusAsConfigured
  <2>1. PolicyOK(policy)
    BY LatestFacts DEF KvOK, Providers
  <2>2. Status(Latest.policies, "azure", att) = AzureStatus(policy, att)
    BY DEF Status
  <2> QED
    BY <2>1, <2>2, StatusFacts
<1> QED
  BY <1>1, PolicyInvariant, PTL

\* An edit makes an attestation acceptable only by what it names: at every
\* claim where the attestation failed before, the edit says something.
THEOREM EditsOpenNothingElse == Spec => EditsAdmitWhatTheyName
<1> DEFINE Admits ==
      Len(ledger') > Len(ledger) /\ ~ BothOperators(Latest'.policies["azure"])
        => \A att \in Attestations :
             /\ Status(Latest.policies, "azure", att) # 200
             /\ Status(Latest'.policies, "azure", att) = 200
             => /\ Latest'.provider = "azure"
                /\ \A c \in AllClaims :
                     FailsAt(Latest.policies["azure"], c, att)
                       => c \in DOMAIN Latest'.edit.claims
                             \cup DOMAIN OrEmpty(Latest'.edit.gte)
                             \cup DOMAIN OrEmpty(Latest'.edit.gt)
<1>1. LedgerOK /\ [Next]_vars => [Admits]_vars
  <2> SUFFICES ASSUME LedgerOK, Next, NEW n, n = Len(ledger),
                      Len(ledger') > n,
                      ~ BothOperators(Latest'.policies["azure"]),
                      NEW att \in Attestations,
                      Status(Latest.policies, "azure", att) # 200,
                      Status(Latest'.policies, "azure", att) = 200
               PROVE  /\ Latest'.provider = "azure"
                      /\ \A c \in AllClaims :
                           FailsAt(Latest.policies["azure"], c, att)
                             => c \in DOMAIN Latest'.edit.claims
                                   \cup DOMAIN OrEmpty(Latest'.edit.gte)
                                   \cup DOMAIN OrEmpty(Latest'.edit.gt)
    OBVIOUS
  <2>1. LedgerTypeOK /\ n \in Nat \ {0} /\ Latest = ledger[n]
    BY LatestFacts
  <2>2. ~ Commit
    BY <2>1, GloballyCommitStep DEF Commit
  <2>3. ~ NewPrimary
    BY <2>1, RollbackStep DEF NewPrimary, LedgerTypeOK
  <2>4. PICK edit \in Edits, provider \in Providers : Applied(edit, provider)
    BY <2>2, <2>3 DEF Next, SetKeyReleasePolicy, SetGcpKeyReleasePolicy, Providers
  <2> DEFINE old == ledger[n].policies
             new == ledger'[n + 1].policies
  <2>5. /\ LedgerOK'
        /\ Len(ledger') = n + 1
        /\ ledger'[n + 1].edit = edit
        /\ ledger'[n + 1].provider = provider
        /\ Edited(edit, old[provider], new[provider])
        /\ \A p \in Providers \ {provider} : new[p] = old[p]
    BY <2>4, AppliedFacts
  <2>6. Latest' = ledger'[n + 1]
    BY <2>5 DEF Latest
  <2>7. PolicyOK(new["azure"])
    BY <2>1, <2>5 DEF LedgerOK, KvOK, Providers
  <2> HIDE DEF old, new
  <2>8. /\ AzureStatus(old["azure"], att) # 200
        /\ AzureStatus(new["azure"], att) = 200
        /\ ~ BothOperators(new["azure"])
    BY <2>1, <2>6 DEF Status, old, new
  <2>9. provider = "azure"
    BY <2>5, <2>8 DEF Providers
  <2>10. \A c \in AllClaims : ~ FailsAt(new["azure"], c, att)
    BY <2>7, <2>8, StatusFacts DEF Accepts
  <2>11. ASSUME NEW c \in AllClaims, FailsAt(old["azure"], c, att),
                c \notin DOMAIN edit.claims, c \notin DOMAIN OrEmpty(edit.gte),
                c \notin DOMAIN OrEmpty(edit.gt)
         PROVE  FALSE
    <3>1. /\ SameAt(new["azure"].claims, old["azure"].claims, c)
          /\ SameAt(new["azure"].gte, old["azure"].gte, c)
          /\ SameAt(new["azure"].gt, old["azure"].gt, c)
      BY <2>5, <2>9, <2>11 DEF Edited, Operators
    <3>2. FailsAt(new["azure"], c, att)
      BY <2>11, <3>1 DEF FailsAt, SameAt
    <3> QED
      BY <2>10, <3>2
  <2> QED
    BY <2>1, <2>5, <2>6, <2>9, <2>11 DEF old
<1>2. EditsAdmitWhatTheyName <=> [][Admits]_vars
  BY PTL DEF EditsAdmitWhatTheyName
<1> QED
  BY <1>1, <1>2, PolicyInvariant, PTL DEF Spec
=============================================================================
