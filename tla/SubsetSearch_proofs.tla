------------------------- MODULE SubsetSearch_proofs -------------------------
(***************************************************************************)
(* The loops of subset_sum_positions compute what the function says.       *)
(***************************************************************************)
EXTENDS SubsetSearch, InductionFacts

\* The positions that a sequence of candidates holds.
Taken(c) == {c[i] : i \in 1 .. Len(c)}

\* The candidates are in increasing order.
Rising(c) == \A i, j \in 1 .. Len(c) : i < j => c[i] < c[j]

\* All of them are before a position.
Below(c, p) == \A i \in 1 .. Len(c) : c[i] < p

\* The entries of a sequence.
LEMMA SeqFacts ==
  ASSUME NEW S, NEW c \in Seq(S)
  PROVE  Len(c) \in Nat /\ \A i \in 1 .. Len(c) : c[i] \in S
OBVIOUS

\* A candidate after the others.
LEMMA AppendTaken ==
  ASSUME NEW n \in Nat, NEW c \in Seq(1 .. n), Rising(c), NEW p \in 1 .. n, Below(c, p)
  PROVE  /\ Append(c, p) \in Seq(1 .. n) /\ Rising(Append(c, p)) /\ Below(Append(c, p), p + 1)
         /\ Taken(Append(c, p)) = Taken(c) \cup {p} /\ p \notin Taken(c)
<1> DEFINE d == Append(c, p)
<1>1. /\ Len(c) \in Nat /\ d \in Seq(1 .. n) /\ Len(d) = Len(c) + 1
      /\ (\A i \in 1 .. Len(c) : d[i] = c[i] /\ c[i] \in 1 .. n) /\ d[Len(c) + 1] = p
  OBVIOUS
<1> HIDE DEF d
<1>6. ASSUME NEW i \in 1 .. Len(d) PROVE i \in 1 .. Len(c) \/ i = Len(c) + 1
  BY <1>1
<1>7. \A i \in 1 .. Len(c) : d[i] < p /\ d[i] \in 1 .. n
  BY <1>1 DEF Below
<1>2. Rising(d)
  <2> SUFFICES ASSUME NEW i \in 1 .. Len(d), NEW j \in 1 .. Len(d), i < j PROVE d[i] < d[j]
    BY DEF Rising
  <2>1. i \in 1 .. Len(c)
    BY <1>1
  <2>2. CASE j = Len(c) + 1
    BY <1>1, <1>7, <2>1, <2>2
  <2>3. CASE j \in 1 .. Len(c)
    <3>1. c[i] < c[j]
      BY <2>1, <2>3 DEF Rising
    <3> QED
      BY <1>1, <2>1, <2>3, <3>1
  <2> QED
    BY <1>6, <2>2, <2>3
<1>3. Below(d, p + 1)
  <2> SUFFICES ASSUME NEW i \in 1 .. Len(d) PROVE d[i] < p + 1
    BY DEF Below
  <2>1. d[i] < p \/ d[i] = p
    BY <1>1, <1>6, <1>7
  <2> QED
    BY <1>1, <1>6, <1>7, <2>1
<1>4. p \notin Taken(c)
  BY <1>1 DEF Below, Taken
<1>5. Taken(d) = Taken(c) \cup {p}
  <2>1. 1 .. Len(d) = (1 .. Len(c)) \cup {Len(c) + 1}
    BY <1>1
  <2> QED
    BY <1>1, <2>1 DEF Taken
<1> QED
  BY <1>1, <1>2, <1>3, <1>4, <1>5 DEF d

\* The last candidate given up.
LEMMA FrontTaken ==
  ASSUME NEW n \in Nat, NEW c \in Seq(1 .. n), Rising(c), c # << >>
  PROVE  LET back == c[Len(c)]
             d == SubSeq(c, 1, Len(c) - 1)
         IN  /\ d \in Seq(1 .. n) /\ Rising(d) /\ Below(d, back + 1) /\ back \in 1 .. n
             /\ Taken(d) = Taken(c) \ {back} /\ back \in Taken(c) /\ Max(Taken(c)) = back
<1> DEFINE back == c[Len(c)]
           d == SubSeq(c, 1, Len(c) - 1)
<1>1. /\ Len(c) \in Nat /\ Len(c) > 0 /\ back \in 1 .. n
      /\ \A i \in 1 .. Len(c) : c[i] \in 1 .. n
  OBVIOUS
<1>2. /\ d \in Seq(1 .. n) /\ Len(d) = Len(c) - 1
      /\ \A i \in 1 .. Len(c) - 1 : d[i] = c[i]
  <2>1. /\ \A i \in 1 .. Len(c) - 1 : c[i] \in 1 .. n
        /\ Len(c) - 1 \in Nat /\ 1 \in 1 .. Len(c) + 1 /\ Len(c) - 1 \in 0 .. Len(c)
    BY <1>1
  <2>2. /\ d \in Seq(1 .. n)
        /\ Len(d) = IF 1 <= Len(c) - 1 THEN (Len(c) - 1) - 1 + 1 ELSE 0
        /\ \A i \in 1 .. ((Len(c) - 1) - 1 + 1) : d[i] = c[1 + i - 1]
    BY <2>1, SubSeqProperties
  <2>3. \A i \in 1 .. Len(c) - 1 : d[i] = c[i]
    BY <1>1, <2>2
  <2> HIDE DEF d
  <2>4. Len(d) = Len(c) - 1
    <3> DEFINE m == Len(c)
    <3>1. m \in Nat /\ m > 0 /\ Len(d) = IF 1 <= m - 1 THEN (m - 1) - 1 + 1 ELSE 0
      BY <1>1, <2>2
    <3> HIDE DEF m
    <3>2. CASE 1 <= m - 1
      BY <3>1, <3>2 DEF m
    <3>3. CASE ~ (1 <= m - 1)
      <4>1. m = 1 /\ Len(d) = 0
        BY <3>1, <3>3
      <4> QED
        BY <4>1 DEF m
    <3> QED
      BY <3>2, <3>3
  <2> QED
    BY <2>2, <2>3, <2>4
<1> HIDE DEF d
<1>3. \A i \in 1 .. Len(c) - 1 : c[i] < back
  BY <1>1 DEF Rising
<1> HIDE DEF back
<1>4. Rising(d)
  <2> SUFFICES ASSUME NEW i \in 1 .. Len(d), NEW j \in 1 .. Len(d), i < j PROVE d[i] < d[j]
    BY DEF Rising
  <2>1. i \in 1 .. Len(c) - 1 /\ j \in 1 .. Len(c) - 1
    BY <1>2
  <2>2. i \in 1 .. Len(c) /\ j \in 1 .. Len(c)
    BY <1>1, <2>1
  <2>3. c[i] < c[j]
    BY <2>2 DEF Rising
  <2> QED
    BY <1>2, <2>1, <2>3
<1>5. Below(d, back + 1)
  BY <1>1, <1>2, <1>3 DEF Below
<1>6. Taken(d) = Taken(c) \ {back} /\ back \in Taken(c)
  <2>1. Taken(d) \in SUBSET Taken(c) /\ back \notin Taken(d)
    <3>1. ASSUME NEW i \in 1 .. Len(d) PROVE d[i] \in Taken(c) /\ d[i] # back
      <4>1. i \in 1 .. Len(c) - 1 /\ i \in 1 .. Len(c)
        BY <1>1, <1>2
      <4>2. d[i] = c[i] /\ c[i] < back /\ c[i] \in 1 .. n
        BY <1>1, <1>2, <1>3, <4>1
      <4>3. c[i] \in Taken(c)
        BY <4>1 DEF Taken
      <4> QED
        BY <1>1, <4>2, <4>3
    <3> QED
      BY <3>1 DEF Taken
  <2>2. ASSUME NEW p \in Taken(c), p # back PROVE p \in Taken(d)
    <3>1. PICK i \in 1 .. Len(c) : p = c[i]
      BY DEF Taken
    <3>2. i \in 1 .. Len(c) - 1
      BY <1>1, <2>2, <3>1 DEF back
    <3> QED
      BY <1>2, <3>1, <3>2 DEF Taken
  <2>3. back \in Taken(c)
    BY <1>1 DEF Taken, back
  <2> QED
    BY <2>1, <2>2, <2>3
<1>7. Max(Taken(c)) = back
  <2> DEFINE C == Taken(c)
             m == Max(C)
  <2>1. C \in SUBSET (1 .. n) /\ C # {} /\ back \in C
    BY <1>1, <1>6 DEF Taken
  <2>2. \A p \in C : p <= back
    <3> SUFFICES ASSUME NEW p \in C PROVE p <= back
      OBVIOUS
    <3>1. PICK i \in 1 .. Len(c) : p = c[i]
      BY DEF Taken
    <3>2. CASE i = Len(c)
      BY <1>1, <3>1, <3>2 DEF back
    <3>3. CASE i # Len(c)
      BY <1>1, <1>3, <3>1, <3>3
    <3> QED
      BY <3>2, <3>3
  <2> HIDE DEF C
  <2>3. m \in C /\ \A y \in C : y <= m
    BY <2>1, MaxIs
  <2> HIDE DEF m
  <2>4. m \in Int /\ m <= back /\ back <= m
    BY <2>1, <2>2, <2>3
  <2>5. m = back
    BY <1>1, <2>4
  <2> QED
    BY <2>5 DEF m, C
<1> QED
  BY <1>1, <1>2, <1>4, <1>5, <1>6, <1>7 DEF back, d

-----------------------------------------------------------------------------
\* The array and the target are the ones search_subset_match calls the search with.
InputOK ==
  /\ N \in Nat /\ (\A i \in 1 .. N : x[i] \in Int) /\ target \in Int
  /\ ~ (target = 0 \/ SumAt(x, 1 .. N) < target)

\* The function of which the search of subset_sum_positions is a value.
Searched == CHOOSE u : SearchStep(u, x, N, target)

\* The place where the loops are leads to the same answer as the one they started from.
OnTheWay ==
  /\ pc = "scan" => result = {} /\ Searched[<<first, Taken(candidates)>>] = Searched[<<1, {}>>]
  /\ pc # "scan" => result = Searched[<<1, {}>>]

\* The inductive invariant: the candidates are in order and before the next position, the
\* running sum is theirs, and the answer is ahead.
SearchInv ==
  /\ InputOK
  /\ first \in 1 .. N + 1 /\ pc \in {"scan", "found", "failed"}
  /\ candidates \in Seq(1 .. N) /\ Rising(candidates)
  /\ pc = "scan" => Below(candidates, first)
  /\ s = SumAt(x, Taken(candidates))
  /\ pc = "found" => SumAt(x, result) = target
  /\ OnTheWay

\* The invariant says what the search promises.
LEMMA SearchInvIsExact == SearchInv => SearchExact
<1> SUFFICES ASSUME SearchInv PROVE SearchExact
  OBVIOUS
<1>0. candidates \in Seq(1 .. N)
  BY DEF SearchInv
<1>1. Len(candidates) \in Nat /\ \A i \in 1 .. Len(candidates) : candidates[i] \in 1 .. N
  BY <1>0, SeqFacts
<1>2. \A i \in 1 .. Len(candidates) - 1 : candidates[i] < candidates[i + 1]
  <2> TAKE i \in 1 .. Len(candidates) - 1
  <2>1. i \in 1 .. Len(candidates) /\ i + 1 \in 1 .. Len(candidates) /\ i < i + 1
    BY <1>1
  <2> QED
    BY <2>1 DEF SearchInv, Rising
<1>3. TypeOK
  BY <1>1, <1>2 DEF SearchInv, TypeOK
<1>4. Sound
  BY DEF SearchInv, Sound, Taken
<1>5. MatchesFunction
  <2>1. subset_sum_positions(x, N, target) = Searched[<<1, {}>>]
    <3>1. subset_sum_positions(x, N, target) =
            IF target = 0 \/ SumAt(x, 1 .. N) < target THEN {}
            ELSE (CHOOSE u : SearchStep(u, x, N, target))[<<1, {}>>]
      BY PositionsAre
    <3>2. ~ (target = 0 \/ SumAt(x, 1 .. N) < target)
      BY DEF SearchInv, InputOK
    <3> QED
      BY <3>1, <3>2 DEF Searched
  <2>2. Ended => pc # "scan"
    BY DEF Ended
  <2> QED
    BY <2>1, <2>2 DEF SearchInv, OnTheWay, MatchesFunction
<1> QED
  BY <1>3, <1>4, <1>5 DEF SearchExact

\* The function has the values of its definition.
LEMMA SearchedIs == N \in Nat => SearchStep(Searched, x, N, target)
BY SearchExists DEF Searched

\* Search_subset_match calls the search with such an array and such a target.
LEMMA InitInputOK == Init => InputOK
<1> SUFFICES ASSUME Init PROVE InputOK
  OBVIOUS
<1>1. PICK n \in 1 .. MaxLength : x \in SortedArrays(n)
  BY DEF Init
<1>2. MaxLength \in Nat /\ MaxValue \in Nat /\ n \in Nat /\ n >= 1
  BY BoundAssumption
<1>3. x \in [1 .. n -> 1 .. MaxValue]
  BY <1>1 DEF SortedArrays
<1>4. Len(x) = n
  <2>1. x \in Seq(1 .. MaxValue)
    BY <1>2, <1>3
  <2> QED
    BY <1>2, <1>3, <2>1
<1>5. target \in x[n] .. SumAt(x, 1 .. n)
  BY <1>4 DEF Init
<1>6. \A i \in 1 .. n : x[i] \in 1 .. MaxValue
  BY <1>3
<1>7. SumAt(x, 1 .. n) \in Int
  <2>1. IsFiniteSet(1 .. n)
    BY <1>2, FS_Interval
  <2>2. \A i \in 1 .. n : x[i] \in Int
    BY <1>6
  <2> QED
    BY <2>1, <2>2, SumTake
<1>8. x[n] >= 1 /\ x[n] \in Int
  BY <1>2, <1>6
<1> DEFINE t == SumAt(x, 1 .. n)
           b == x[n]
<1>9. target \in Int /\ target # 0 /\ ~ (t < target)
  <2>1. t \in Int /\ b \in Int /\ b >= 1 /\ target \in b .. t
    BY <1>5, <1>7, <1>8
  <2> HIDE DEF t, b
  <2> QED
    BY <2>1
<1>10. \A i \in 1 .. n : x[i] \in Int
  BY <1>6
<1> QED
  BY <1>2, <1>4, <1>9, <1>10 DEF InputOK, N

\* The invariant holds at the start.
LEMMA SearchInvInit == Init => SearchInv
<1> SUFFICES ASSUME Init PROVE SearchInv
  OBVIOUS
<1>1. InputOK
  BY InitInputOK
<1>2. N \in Nat /\ first = 1 /\ candidates = << >> /\ s = 0 /\ pc = "scan" /\ result = {}
  BY <1>1 DEF InputOK, Init
<1>3. candidates \in Seq(1 .. N) /\ Len(candidates) = 0
  BY <1>2
<1>4. Rising(candidates) /\ Below(candidates, first) /\ Taken(candidates) = {}
  BY <1>3 DEF Rising, Below, Taken
<1>5. s = SumAt(x, Taken(candidates))
  <2>1. IsFiniteSet({})
    BY FS_EmptySet
  <2>2. \A i \in {} : x[i] \in Int
    OBVIOUS
  <2>3. SumAt(x, {}) = 0
    BY <2>1, <2>2, SumTake
  <2> QED
    BY <1>2, <1>4, <2>3
<1>6. OnTheWay
  BY <1>2, <1>4 DEF OnTheWay
<1>7. first \in 1 .. N + 1
  BY <1>2
<1> QED
  BY <1>1, <1>2, <1>3, <1>4, <1>5, <1>6, <1>7 DEF SearchInv

\* What the actions use of the invariant while the search goes on.
LEMMA Scanning ==
  ASSUME SearchInv, pc = "scan"
  PROVE  /\ N \in Nat /\ first \in 1 .. N + 1 /\ (\A i \in 1 .. N : x[i] \in Int)
         /\ candidates \in Seq(1 .. N) /\ Rising(candidates) /\ Below(candidates, first)
         /\ Taken(candidates) \in SUBSET (1 .. N) /\ IsFiniteSet(Taken(candidates))
         /\ s = SumAt(x, Taken(candidates)) /\ s \in Int /\ target \in Int
         /\ result = {} /\ Searched[<<first, Taken(candidates)>>] = Searched[<<1, {}>>]
         /\ SearchStep(Searched, x, N, target)
<1>1. /\ N \in Nat /\ first \in 1 .. N + 1 /\ (\A i \in 1 .. N : x[i] \in Int)
      /\ candidates \in Seq(1 .. N) /\ Rising(candidates) /\ Below(candidates, first)
      /\ s = SumAt(x, Taken(candidates)) /\ target \in Int
      /\ result = {} /\ Searched[<<first, Taken(candidates)>>] = Searched[<<1, {}>>]
  BY DEF SearchInv, InputOK, OnTheWay
<1>2. \A i \in 1 .. Len(candidates) : candidates[i] \in 1 .. N
  BY <1>1, SeqFacts
<1>3. Taken(candidates) \in SUBSET (1 .. N)
  BY <1>2 DEF Taken
<1>4. IsFiniteSet(Taken(candidates))
  <2>1. IsFiniteSet(1 .. N)
    BY <1>1, FS_Interval
  <2> QED
    BY <1>3, <2>1, FS_Subset
<1>5. \A i \in Taken(candidates) : x[i] \in Int
  BY <1>1, <1>3
<1>6. s \in Int
  BY <1>1, <1>4, <1>5, SumTake
<1> QED
  BY <1>1, <1>3, <1>4, <1>6, SearchedIs

\* The array and the target stay as they are, and so does the function.
LEMMA InputKept ==
  ASSUME SearchInv, UNCHANGED input
  PROVE  N' = N /\ x' = x /\ target' = target /\ InputOK' /\ Searched' = Searched
<1>1. x' = x /\ target' = target
  BY DEF input
<1>2. N' = N
  BY <1>1 DEF N
<1>3. InputOK'
  BY <1>1, <1>2 DEF SearchInv, InputOK
<1> QED
  BY <1>1, <1>2, <1>3 DEF Searched

\* The next position is taken, as the last one or not.
LEMMA TakesNext ==
  ASSUME SearchInv, pc = "scan", first <= N, candidates' = Append(candidates, first),
         s' = s + x[first], UNCHANGED input
  PROVE  /\ first \in 1 .. N /\ candidates' \in Seq(1 .. N) /\ Rising(candidates')
         /\ Below(candidates', first + 1) /\ Taken(candidates') = Taken(candidates) \cup {first}
         /\ s' = SumAt(x, Taken(candidates)) + x[first] /\ s' = SumAt(x, Taken(candidates'))
         /\ x[first] \in Int
<1>1. first \in 1 .. N /\ x[first] \in Int
  BY Scanning
<1>2. /\ candidates' \in Seq(1 .. N) /\ Rising(candidates') /\ Below(candidates', first + 1)
      /\ Taken(candidates') = Taken(candidates) \cup {first} /\ first \notin Taken(candidates)
  <2>1. /\ N \in Nat /\ candidates \in Seq(1 .. N) /\ Rising(candidates)
        /\ Below(candidates, first)
    BY Scanning
  <2> QED
    BY <1>1, <2>1, AppendTaken
<1>3. s' = SumAt(x, Taken(candidates)) + x[first]
  BY Scanning
<1>4. SumAt(x, Taken(candidates) \cup {first}) = SumAt(x, Taken(candidates)) + x[first]
  <2>1. IsFiniteSet(Taken(candidates)) /\ \A i \in Taken(candidates) : x[i] \in Int
    BY Scanning
  <2> QED
    BY <1>1, <1>2, <2>1, SumAdd
<1> QED
  BY <1>1, <1>2, <1>3, <1>4

\* What the function says of the place where the loops are, before the end of the array.
LEMMA FunctionGoesOn ==
  ASSUME SearchInv, pc = "scan", first <= N
  PROVE  LET C == Taken(candidates)
         IN  /\ s + x[first] = target => Searched[<<1, {}>>] = C \cup {first}
             /\ s + x[first] < target => Searched[<<1, {}>>] = Searched[<<first + 1, C \cup {first}>>]
             /\ s + x[first] > target => Searched[<<1, {}>>] = Searched[<<first + 1, C>>]
<1> DEFINE C == Taken(candidates)
           a == s + x[first]
<1>1. first \in 1 .. N /\ C \in SUBSET (1 .. N) /\ N \in Nat
  BY Scanning
<1>2. a \in Int /\ a = SumAt(x, C) + x[first] /\ target \in Int
  BY <1>1, Scanning
<1>3. Searched[<<first, C>>] = Searched[<<1, {}>>]
  BY Scanning
<1>4. GoesOn(Searched, x, target, first, C)
  <2>1. SearchStep(Searched, x, N, target)
    BY Scanning
  <2> HIDE DEF C
  <2> QED
    BY <1>1, <2>1, SearchGoesOn
<1> HIDE DEF a, C
<1>5. Searched[<<1, {}>>] = IF a = target THEN C \cup {first}
                            ELSE IF a < target THEN Searched[<<first + 1, C \cup {first}>>]
                            ELSE Searched[<<first + 1, C>>]
  BY <1>2, <1>3, <1>4 DEF GoesOn
<1>6. /\ a = target => Searched[<<1, {}>>] = C \cup {first}
      /\ a < target => Searched[<<1, {}>>] = Searched[<<first + 1, C \cup {first}>>]
      /\ a > target => Searched[<<1, {}>>] = Searched[<<first + 1, C>>]
  BY <1>2, <1>5
<1> QED
  BY <1>6 DEF a, C

\* The invariant is kept by the actions one by one.
LEMMA HitKeeps == SearchInv /\ Hit => SearchInv'
<1> SUFFICES ASSUME SearchInv, Hit PROVE SearchInv'
  OBVIOUS
<1>1. /\ pc = "scan" /\ first <= N /\ s + x[first] = target
      /\ candidates' = Append(candidates, first) /\ s' = s + x[first]
      /\ result' = Taken(candidates) \cup {first} /\ pc' = "found"
      /\ UNCHANGED input /\ first' = first
  BY DEF Hit, Taken
<1>2. N' = N /\ x' = x /\ target' = target /\ InputOK' /\ Searched' = Searched
  BY <1>1, InputKept
<1>3. /\ first \in 1 .. N /\ candidates' \in Seq(1 .. N) /\ Rising(candidates')
      /\ Taken(candidates') = Taken(candidates) \cup {first} /\ s' = SumAt(x, Taken(candidates'))
  BY <1>1, TakesNext
<1>4. result' = Searched[<<1, {}>>]
  BY <1>1, FunctionGoesOn
<1>5. SumAt(x, result') = target
  BY <1>1, <1>3
<1>6. OnTheWay'
  BY <1>1, <1>2, <1>4 DEF OnTheWay
<1>7. first \in 1 .. N + 1
  BY <1>1, Scanning
<1> QED
  BY <1>1, <1>2, <1>3, <1>5, <1>6, <1>7 DEF SearchInv

\* A candidate is added.
LEMMA TakeKeeps == SearchInv /\ Take => SearchInv'
<1> SUFFICES ASSUME SearchInv, Take PROVE SearchInv'
  OBVIOUS
<1>1. /\ pc = "scan" /\ first <= N /\ s + x[first] < target
      /\ candidates' = Append(candidates, first) /\ s' = s + x[first]
      /\ first' = first + 1 /\ UNCHANGED input /\ pc' = pc /\ result' = result
  BY DEF Take
<1>2. N' = N /\ x' = x /\ target' = target /\ InputOK' /\ Searched' = Searched
  BY <1>1, InputKept
<1>3. /\ first \in 1 .. N /\ candidates' \in Seq(1 .. N) /\ Rising(candidates')
      /\ Taken(candidates') = Taken(candidates) \cup {first} /\ s' = SumAt(x, Taken(candidates'))
      /\ Below(candidates', first')
  BY <1>1, TakesNext
<1>4. Searched[<<1, {}>>] = Searched[<<first', Taken(candidates')>>]
  BY <1>1, <1>3, FunctionGoesOn
<1>5. result = {}
  BY <1>1, Scanning
<1>6. OnTheWay'
  BY <1>1, <1>2, <1>4, <1>5 DEF OnTheWay
<1>7. first' \in 1 .. N + 1
  BY <1>1, <1>3, Scanning
<1> QED
  BY <1>1, <1>2, <1>3, <1>6, <1>7 DEF SearchInv

\* An entry is passed over.
LEMMA SkipKeeps == SearchInv /\ Skip => SearchInv'
<1> SUFFICES ASSUME SearchInv, Skip PROVE SearchInv'
  OBVIOUS
<1>1. /\ pc = "scan" /\ first <= N /\ s + x[first] > target
      /\ candidates' = candidates /\ s' = s
      /\ first' = first + 1 /\ UNCHANGED input /\ pc' = pc /\ result' = result
  BY DEF Skip
<1>2. N' = N /\ x' = x /\ target' = target /\ InputOK' /\ Searched' = Searched
  BY <1>1, InputKept
<1>3. /\ first \in 1 .. N /\ candidates \in Seq(1 .. N) /\ Rising(candidates)
      /\ s = SumAt(x, Taken(candidates)) /\ Below(candidates, first) /\ N \in Nat
  BY <1>1, Scanning
<1>4. Searched[<<1, {}>>] = Searched[<<first', Taken(candidates)>>]
  BY <1>1, <1>3, FunctionGoesOn
<1>5. result = {}
  BY <1>1, Scanning
<1>6. OnTheWay'
  BY <1>1, <1>2, <1>4, <1>5 DEF OnTheWay
<1>7. first' \in 1 .. N + 1
  BY <1>1, <1>3
<1>8. Below(candidates', first')
  <2>1. \A i \in 1 .. Len(candidates) : candidates[i] \in 1 .. N
    BY <1>3, SeqFacts
  <2> QED
    BY <1>1, <1>3, <2>1 DEF Below
<1> QED
  BY <1>1, <1>2, <1>3, <1>6, <1>7, <1>8 DEF SearchInv

\* The last candidate is given up.
LEMMA BacktrackKeeps == SearchInv /\ Backtrack => SearchInv'
<1> SUFFICES ASSUME SearchInv, Backtrack PROVE SearchInv'
  OBVIOUS
<1> DEFINE back == candidates[Len(candidates)]
           d == SubSeq(candidates, 1, Len(candidates) - 1)
           C == Taken(candidates)
<1>1. /\ pc = "scan" /\ first = N + 1 /\ candidates # << >>
      /\ first' = back + 1 /\ candidates' = d /\ s' = s - x[back]
      /\ pc' = (IF back = N THEN "failed" ELSE "scan")
      /\ UNCHANGED input /\ result' = result
  BY DEF Backtrack
<1>2. N' = N /\ x' = x /\ target' = target /\ InputOK' /\ Searched' = Searched
  BY <1>1, InputKept
<1>3. /\ N \in Nat /\ candidates \in Seq(1 .. N) /\ Rising(candidates) /\ C \in SUBSET (1 .. N)
      /\ s = SumAt(x, C) /\ result = {} /\ IsFiniteSet(C) /\ (\A i \in C : x[i] \in Int)
      /\ s \in Int
  BY <1>1, Scanning
<1>4. /\ d \in Seq(1 .. N) /\ Rising(d) /\ Below(d, back + 1) /\ back \in 1 .. N
      /\ Taken(d) = C \ {back} /\ back \in C /\ Max(C) = back
  BY <1>1, <1>3, FrontTaken
<1> HIDE DEF back, d, C
<1>5. s' = SumAt(x, Taken(d))
  <2>1. SumAt(x, C) = x[back] + SumAt(x, C \ {back})
    BY <1>3, <1>4, SumTake
  <2>2. SumAt(x, C \ {back}) \in Int
    <3>1. IsFiniteSet(C \ {back}) /\ \A i \in C \ {back} : x[i] \in Int
      BY <1>3, FS_Subset
    <3> QED
      BY <3>1, SumTake
  <2>3. x[back] \in Int
    BY <1>3, <1>4
  <2> QED
    BY <1>1, <1>3, <1>4, <2>1, <2>2, <2>3
<1>6. Searched[<<1, {}>>] = IF back = N THEN {} ELSE Searched[<<back + 1, Taken(d)>>]
  <2>1. GivesUp(Searched, N, C)
    <3>1. SearchStep(Searched, x, N, target)
      BY <1>1, Scanning
    <3> QED
      BY <1>3, <3>1, SearchGivesUp
  <2>2. Searched[<<N + 1, C>>] = IF back = N THEN {} ELSE Searched[<<back + 1, C \ {back}>>]
    <3>1. C # {}
      BY <1>4
    <3> QED
      BY <1>4, <2>1, <3>1 DEF GivesUp
  <2>3. Searched[<<N + 1, C>>] = Searched[<<1, {}>>]
    BY <1>1, Scanning DEF C
  <2> QED
    BY <1>4, <2>2, <2>3
<1>7. OnTheWay'
  <2>1. CASE back = N
    <3>1. pc' = "failed" /\ result' = Searched[<<1, {}>>]
      BY <1>1, <1>3, <1>6, <2>1
    <3> QED
      BY <1>2, <3>1 DEF OnTheWay
  <2>2. CASE back # N
    <3>1. pc' = "scan" /\ result' = {}
      BY <1>1, <1>3, <2>2
    <3>2. Searched[<<first', Taken(candidates')>>] = Searched[<<1, {}>>]
      BY <1>1, <1>6, <2>2
    <3> QED
      BY <1>2, <3>1, <3>2 DEF OnTheWay
  <2> QED
    BY <2>1, <2>2
<1>8. pc' \in {"scan", "failed"}
  BY <1>1
<1>9. first' \in 1 .. N + 1
  BY <1>1, <1>3, <1>4
<1>10. Below(candidates', first')
  BY <1>1, <1>4
<1> QED
  BY <1>1, <1>2, <1>4, <1>5, <1>7, <1>8, <1>9, <1>10 DEF SearchInv

\* Every step of the loops keeps the invariant.
LEMMA SearchInvNext == SearchInv /\ [Next]_vars => SearchInv'
<1> SUFFICES ASSUME SearchInv, [Next]_vars PROVE SearchInv'
  OBVIOUS
<1>1. CASE UNCHANGED vars
  <2>1. /\ UNCHANGED input /\ first' = first /\ candidates' = candidates /\ s' = s /\ pc' = pc
        /\ result' = result
    BY <1>1 DEF vars, input
  <2>2. N' = N /\ x' = x /\ target' = target /\ InputOK' /\ Searched' = Searched
    BY <2>1, InputKept
  <2>3. OnTheWay'
    BY <2>1, <2>2 DEF SearchInv, OnTheWay
  <2> QED
    BY <2>1, <2>2, <2>3 DEF SearchInv
<1>2. CASE Terminated
  BY <1>1, <1>2 DEF Terminated
<1> QED
  BY <1>1, <1>2, HitKeeps, TakeKeeps, SkipKeeps, BacktrackKeeps DEF Next

-----------------------------------------------------------------------------
\* subset_sum_positions, for arrays of any length: through every retreat the running sum is the
\* one of the candidates, which stay in order, and what the loops return is what the function
\* says, so that the positions found have the wanted sum.
THEOREM SearchAlwaysExact == Spec => []SearchExact
<1>1. Spec => []SearchInv
  BY SearchInvInit, SearchInvNext, PTL DEF Spec
<1> QED
  BY <1>1, SearchInvIsExact, PTL
=====
