----------------------------- MODULE ToolsProofs -----------------------------
(***************************************************************************)
(* What the commands of Tools print and return, for all command lines and   *)
(* files: wildmatch() finds the modules a pattern asks for; qid and ident   *)
(* agree; cmp, tee and count, which take a file byte by byte or block by    *)
(* block, come to what a look at the whole file would say.  The induction   *)
(* over a file is that of CountingUp, with a set of positions for what is   *)
(* proved of each.                                                          *)
(***************************************************************************)
EXTENDS Tools, SequenceTheorems, FiniteSetTheorems, WellFoundedInduction, TLAPS

-----------------------------------------------------------------------------
(* The least number of a set, from the well-foundedness of finite subsets.  *)
LEMMA LeastNatural ==
  ASSUME NEW S, S \subseteq Nat, S # {}
  PROVE  \E m \in S : \A n \in S : m <= n
<1> DEFINE T == {1..n : n \in S}
<1>1. T # {} /\ \A t \in T : t \in FiniteSubsetsOf(Nat)
  <2>1. ASSUME NEW n \in S PROVE 1..n \in FiniteSubsetsOf(Nat)
    <3>1. IsFiniteSet(1..n)
      BY FS_Interval
    <3> QED
      BY <3>1 DEF FiniteSubsetsOf
  <2> QED
    BY <2>1
<1>2. IsWellFoundedOn(StrictSubsetOrdering(Nat), FiniteSubsetsOf(Nat))
  BY FS_StrictSubsetOrderingWellFounded
<1>3. \E t \in T : \A u \in T : ~ (<<u, t>> \in StrictSubsetOrdering(Nat))
  <2> HIDE DEF T
  <2> QED
    BY <1>1, <1>2, WFMin
<1>4. PICK m \in S : \A n \in S : ~ (<<1..n, 1..m>> \in StrictSubsetOrdering(Nat))
  BY <1>3
<1>5. ASSUME NEW n \in S, n < m PROVE FALSE
  <2>1. 1..n \subseteq 1..m /\ 1..n # 1..m /\ 1..n \in SUBSET Nat /\ 1..m \in SUBSET Nat
    BY <1>5
  <2> QED
    BY <1>4, <2>1 DEF StrictSubsetOrdering
<1> QED
  BY <1>5

(* Induction up to n, for a set where the library has an operator. *)
LEMMA CountingUp ==
  ASSUME NEW n \in Nat, NEW S, 0 \in S,
         \A i \in 0..(n - 1) : i \in S => i + 1 \in S
  PROVE  0..n \subseteq S
<1> DEFINE missing == {i \in 0..n : i \notin S}
<1>1. SUFFICES ASSUME missing # {} PROVE FALSE
  OBVIOUS
<1>2. PICK m \in missing : \A i \in missing : m <= i
  <2>1. missing \subseteq Nat
    OBVIOUS
  <2> HIDE DEF missing
  <2> QED
    BY <1>1, <2>1, LeastNatural
<1>3. m \in 1..n /\ m - 1 \in 0..(n - 1)
  BY <1>2
<1>4. m - 1 \in S
  BY <1>2, <1>3
<1> QED
  BY <1>2, <1>3, <1>4

LEMMA MaxIs ==
  ASSUME NEW n \in Nat, NEW s \in SUBSET (1..n), s # {}
  PROVE  Max(s) \in s /\ \A x \in s : x <= Max(s)
<1> DEFINE above == {m \in Nat : \A x \in s : x <= m}
<1>1. n \in above
  OBVIOUS
<1>2. PICK m \in above : \A k \in above : m <= k
  <2>1. above \subseteq Nat
    OBVIOUS
  <2> HIDE DEF above
  <2> QED
    BY <1>1, <2>1, LeastNatural
<1>3. m \in s
  <2>1. SUFFICES ASSUME m \notin s PROVE FALSE
    OBVIOUS
  <2>2. PICK y \in s : y \in 1..n
    OBVIOUS
  <2>3. m \in Nat /\ y <= m
    BY <1>2
  <2>4. ASSUME NEW x \in s PROVE x <= m - 1
    <3>1. x \in 1..n /\ x <= m /\ x # m
      BY <1>2, <2>1
    <3> QED
      BY <2>3, <3>1
  <2>5. m - 1 \in above
    BY <2>2, <2>3, <2>4
  <2> QED
    BY <1>2, <2>3, <2>5
<1>4. \E x \in s : \A y \in s : x >= y
  BY <1>2, <1>3
<1>5. Max(s) \in s /\ \A y \in s : Max(s) >= y
  BY <1>4 DEF Max
<1> QED
  BY <1>5

LEMMA LastIn ==
  ASSUME NEW T, NEW text \in Seq(T), NEW s \in SUBSET DOMAIN text, s # {}
  PROVE  text[Max(s)] \in T /\ s \ {Max(s)} \in SUBSET DOMAIN text
<1>1. PICK n \in Nat : n = Len(text) /\ DOMAIN text = 1..n /\ \A i \in 1..n : text[i] \in T
  OBVIOUS
<1>2. Max(s) \in s
  BY <1>1, MaxIs
<1> QED
  BY <1>1, <1>2

(* FoldLeft() of the community modules folds over the sets of positions     *)
(* below one another.  For a step that is a function, such a fold exists.   *)
Folds(it, V, base, g, text) ==
  /\ it[{}] = base
  /\ \A s \in SUBSET DOMAIN text :
       s # {} /\ it[s \ {Max(s)}] \in V => it[s] = g[it[s \ {Max(s)}]][text[Max(s)]]

LEMMA FoldExists ==
  ASSUME NEW V, NEW T, NEW text \in Seq(T), NEW base \in V, NEW g \in [V -> [T -> V]]
  PROVE  \E it \in [SUBSET DOMAIN text -> V] : Folds(it, V, base, g, text)
<1>1. PICK n \in Nat : n = Len(text) /\ DOMAIN text = 1..n /\ \A i \in 1..n : text[i] \in T
  OBVIOUS
<1> DEFINE step(it, s) == IF s = {} THEN base ELSE g[it[s \ {Max(s)}]][text[Max(s)]]
           S == {k \in 0..n : \E it \in [SUBSET (1..k) -> V] : \A s \in SUBSET (1..k) : it[s] = step(it, s)}
<1>2. 0 \in S
  <2> DEFINE it == [s \in SUBSET (1..0) |-> base]
  <2>1. \A s \in SUBSET (1..0) : s = {}
    OBVIOUS
  <2>2. it \in [SUBSET (1..0) -> V] /\ \A s \in SUBSET (1..0) : it[s] = step(it, s)
    BY <2>1
  <2>3. \E h \in [SUBSET (1..0) -> V] : \A s \in SUBSET (1..0) : h[s] = step(h, s)
    <3> HIDE DEF it, step
    <3> QED
      BY <2>2
  <2>4. 0 \in 0..n
    OBVIOUS
  <2> HIDE DEF step
  <2> QED
    BY <2>3, <2>4
<1>3. ASSUME NEW k \in 0..(n - 1), k \in S PROVE k + 1 \in S
  <2>1. PICK it \in [SUBSET (1..k) -> V] : \A s \in SUBSET (1..k) : it[s] = step(it, s)
    BY <1>3
  <2>2. \A s \in SUBSET (1..(k + 1)) : s \ {k + 1} \in SUBSET (1..k)
    BY <1>1
  <2> DEFINE new == [s \in SUBSET (1..(k + 1)) |->
                       IF k + 1 \in s THEN g[it[s \ {k + 1}]][text[k + 1]] ELSE it[s]]
  <2>3. text[k + 1] \in T
    BY <1>1
  <2>4. new \in [SUBSET (1..(k + 1)) -> V]
    <3>1. ASSUME NEW s \in SUBSET (1..(k + 1)) PROVE new[s] \in V
      <4>1. it[s \ {k + 1}] \in V
        BY <2>1, <2>2
      <4>2. k + 1 \notin s => s \ {k + 1} = s
        OBVIOUS
      <4>3. g[it[s \ {k + 1}]][text[k + 1]] \in V
        <5>1. PICK f \in [T -> V] : f = g[it[s \ {k + 1}]]
          BY <4>1
        <5> QED
          BY <2>3, <5>1
      <4> QED
        BY <4>1, <4>2, <4>3
    <3> QED
      BY <3>1
  <2>5. ASSUME NEW s \in SUBSET (1..(k + 1)) PROVE new[s] = step(new, s)
    <3>1. CASE k + 1 \in s
      <4>1. Max(s) = k + 1
        <5>1. k + 1 \in Nat /\ s # {}
          BY <3>1
        <5>2. Max(s) \in s /\ \A x \in s : x <= Max(s)
          BY <5>1, MaxIs
        <5>3. Max(s) \in 1..(k + 1) /\ k + 1 <= Max(s)
          BY <3>1, <5>2
        <5> QED
          BY <5>1, <5>3
      <4>2. s \ {k + 1} \in SUBSET (1..(k + 1)) /\ new[s \ {k + 1}] = it[s \ {k + 1}]
        OBVIOUS
      <4> QED
        BY <3>1, <4>1, <4>2
    <3>2. CASE k + 1 \notin s
      <4>1. s \in SUBSET (1..k)
        BY <2>2, <3>2
      <4>2. CASE s = {}
        BY <2>1, <3>2, <4>1, <4>2
      <4>3. CASE s # {}
        <5>1. k \in Nat
          OBVIOUS
        <5>2. Max(s) \in s
          BY <4>1, <4>3, <5>1, MaxIs
        <5>3. s \ {Max(s)} \in SUBSET (1..k) /\ s \ {Max(s)} \in SUBSET (1..(k + 1))
               /\ k + 1 \notin s \ {Max(s)}
          BY <3>2, <4>1
        <5>4. new[s \ {Max(s)}] = it[s \ {Max(s)}]
          BY <5>3
        <5> QED
          BY <2>1, <3>2, <4>1, <4>3, <5>4
      <4> QED
        BY <4>2, <4>3
    <3> QED
      BY <3>1, <3>2
  <2>6. k + 1 \in 0..n
    BY <1>1
  <2> HIDE DEF new, step
  <2> QED
    BY <2>4, <2>5, <2>6
<1>4. n \in S
  <2> HIDE DEF S
  <2>1. 0..n \subseteq S
    BY <1>1, <1>2, <1>3, CountingUp
  <2> QED
    BY <1>1, <2>1
<1>5. PICK it \in [SUBSET (1..n) -> V] : \A s \in SUBSET (1..n) : it[s] = step(it, s)
  BY <1>4
<1> QED
  BY <1>1, <1>5 DEF Folds

(* And whatever such a fold is, it goes through the text from left to right.*)
Ends(value, V, T, base, g, text) ==
  \E acc \in [0..Len(text) -> V] :
    /\ acc[0] = base /\ value = acc[Len(text)]
    /\ \A i \in 1..Len(text) : acc[i - 1] \in V /\ text[i] \in T /\ acc[i] = g[acc[i - 1]][text[i]]

LEMMA FoldRuns ==
  ASSUME NEW V, NEW T, NEW text \in Seq(T), NEW base \in V, NEW g \in [V -> [T -> V]], NEW it,
         Folds(it, V, base, g, text)
  PROVE  Ends(it[DOMAIN text], V, T, base, g, text)
<1>1. PICK n \in Nat : n = Len(text) /\ DOMAIN text = 1..n /\ \A i \in 1..n : text[i] \in T
  OBVIOUS
<1> DEFINE acc == [i \in 0..n |-> it[1..i]]
           S == {i \in 0..n : acc[i] \in V}
<1>2. acc[0] = base
  <2>1. 1..0 = {}
    OBVIOUS
  <2> QED
    BY <1>1, <2>1 DEF Folds
<1>3. ASSUME NEW i \in 1..n, acc[i - 1] \in V
      PROVE  acc[i] = g[acc[i - 1]][text[i]]
  <2>1. i \in Nat /\ 1..i # {} /\ 1..i \in SUBSET (1..n)
    <3>1. i \in 1..i /\ \A x \in 1..i : x \in 1..n
      OBVIOUS
    <3>2. 1..i \subseteq 1..n /\ 1..i # {}
      BY <3>1
    <3> QED
      BY <3>2
  <2>2. Max(1..i) = i
    <3>1. PICK m : m = Max(1..i) /\ m \in 1..i /\ \A x \in 1..i : x <= m
      BY <2>1, MaxIs
    <3> QED
      BY <2>1, <3>1
  <2>3. (1..i) \ {i} = 1..(i - 1)
    BY <2>1
  <2>4. acc[i - 1] = it[1..(i - 1)] /\ acc[i] = it[1..i]
    BY <1>1
  <2> QED
    BY <1>1, <1>3, <2>1, <2>2, <2>3, <2>4 DEF Folds
<1>4. 0..n \subseteq S
  <2>1. 0 \in S
    BY <1>1, <1>2
  <2>2. ASSUME NEW i \in 0..(n - 1), i \in S PROVE i + 1 \in S
    <3>1. i + 1 \in 1..n /\ (i + 1) - 1 = i /\ acc[i] \in V
      BY <1>1, <2>2
    <3>2. acc[i + 1] = g[acc[i]][text[i + 1]]
      <4> HIDE DEF acc
      <4> QED
        BY <1>3, <3>1
    <3> HIDE DEF acc
    <3> QED
      BY <1>1, <3>1, <3>2
  <2> HIDE DEF S
  <2> QED
    BY <1>1, <2>1, <2>2, CountingUp
<1>5. acc \in [0..n -> V]
  BY <1>4
<1>6. \A i \in 1..n : acc[i] = g[acc[i - 1]][text[i]]
  <2> SUFFICES ASSUME NEW i \in 1..n PROVE acc[i] = g[acc[i - 1]][text[i]]
    OBVIOUS
  <2>1. i - 1 \in 0..n
    BY <1>1
  <2>2. acc[i - 1] \in V
    BY <1>5, <2>1
  <2> HIDE DEF acc
  <2> QED
    BY <1>3, <2>2
<1>7. it[DOMAIN text] = acc[n]
  BY <1>1
<1>8. \A i \in 1..n : acc[i - 1] \in V
  <2>1. \A i \in 1..n : i - 1 \in 0..n
    BY <1>1
  <2> HIDE DEF acc
  <2> QED
    BY <1>5, <2>1
<1> HIDE DEF acc
<1> QED
  BY <1>1, <1>2, <1>5, <1>6, <1>7, <1>8 DEF Ends

-----------------------------------------------------------------------------
(* A command is run on one of the jobs, and what has come of it is what its *)
(* function says.                                                           *)
Outcome ==
  /\ job \in Jobs
  /\ Ran("wildmatch") => out = Wildmatch(job.pattern, job.name)
  /\ Ran("identify") => out = [qid |-> Qid(job.file), ident |-> Ident(job.file)]
  /\ Ran("cmp") => out = Cmp(job)
  /\ Ran("tee") => out = Tee(job)
  /\ Ran("count") => out = Count(job)
  /\ Ran("fixmod") => out = Fixmod(job)
  /\ Ran("attr") => out = Attr(job)
  /\ Ran("binex") => out = Binex(job)
  /\ Ran("repair") => out = RepairModule(job.module)

LEMMA OutcomeHolds == Spec => []Outcome
<1>1. Init => Outcome
  BY DEF Init, Outcome, Ran
<1>2. Outcome /\ [Next]_vars => Outcome'
  <2> SUFFICES ASSUME Outcome, [Next]_vars PROVE Outcome'
    OBVIOUS
  <2> USE DEF Outcome, Ran
  <2>1. CASE RunCmp
    BY <2>1 DEF RunCmp, Does
  <2>2. CASE RunTee
    BY <2>2 DEF RunTee, Does
  <2>3. CASE RunCount
    BY <2>3 DEF RunCount, Does
  <2>4. CASE RunWildmatch
    BY <2>4 DEF RunWildmatch, Does
  <2>5. CASE RunIdentify
    BY <2>5 DEF RunIdentify, Does
  <2>6. CASE RunGrep \/ RunQsort \/ RunTr
    BY <2>6 DEF RunGrep, RunQsort, RunTr, Does
  <2>7. CASE RunBinex
    BY <2>7 DEF RunBinex, Does
  <2>8. CASE RunAttr
    BY <2>8 DEF RunAttr, Does
  <2>9. CASE RunFixmod
    BY <2>9 DEF RunFixmod, Does
  <2>10. CASE RunRepair
    BY <2>10 DEF RunRepair, Does
  <2>11. CASE UNCHANGED vars
    BY <2>11 DEF vars
  <2> QED
    BY <2>1, <2>2, <2>3, <2>4, <2>5, <2>6, <2>7, <2>8, <2>9, <2>10, <2>11 DEF Next
<1> QED
  BY <1>1, <1>2, PTL DEF Spec

-----------------------------------------------------------------------------
(* The rest of a pattern, from position i, laid along the rest of a name,   *)
(* from position j.                                                         *)
LaidBy(p, m, i, j, at) ==
  /\ at[i] = j /\ at[Len(p) + 1] = Len(m) + 1
  /\ \A k \in i..Len(p) :
       /\ at[k] <= at[k + 1]
       /\ p[k] # Star => at[k + 1] = at[k] + 1 /\ p[k] \in {Query, m[at[k]]}
Laid(p, m, i, j) == \E at \in [i..(Len(p) + 1) -> 1..(Len(m) + 1)] : LaidBy(p, m, i, j, at)

LEMMA LaidAtEnd ==
  ASSUME NEW p \in Seq(Int), NEW m \in Seq(Int), NEW j \in 1..(Len(m) + 1)
  PROVE  Laid(p, m, Len(p) + 1, j) <=> j > Len(m)
<1>1. PICK P \in Nat, N \in Nat : P = Len(p) /\ N = Len(m)
  OBVIOUS
<1>2. ASSUME Laid(p, m, P + 1, j) PROVE j > N
  BY <1>1, <1>2 DEF Laid, LaidBy
<1>3. ASSUME j > N PROVE Laid(p, m, P + 1, j)
  <2> DEFINE at == [k \in (P + 1)..(P + 1) |-> j]
  <2>1. at \in [(P + 1)..(P + 1) -> 1..(N + 1)] /\ j = N + 1
    BY <1>1, <1>3
  <2>2. at[P + 1] = j /\ \A k \in (P + 1)..P : FALSE
    BY <1>1
  <2> HIDE DEF at
  <2>3. LaidBy(p, m, P + 1, j, at)
    BY <1>1, <2>1, <2>2 DEF LaidBy
  <2> QED
    BY <1>1, <2>1, <2>3 DEF Laid
<1> QED
  BY <1>1, <1>2, <1>3

LEMMA LaidChar ==
  ASSUME NEW p \in Seq(Int), NEW m \in Seq(Int), NEW i \in 1..Len(p), NEW j \in 1..(Len(m) + 1),
         p[i] # Star
  PROVE  Laid(p, m, i, j) <=> j <= Len(m) /\ p[i] \in {Query, m[j]} /\ Laid(p, m, i + 1, j + 1)
<1>1. PICK P \in Nat, N \in Nat : P = Len(p) /\ N = Len(m)
  OBVIOUS
<1>2. ASSUME Laid(p, m, i, j)
      PROVE  j <= N /\ p[i] \in {Query, m[j]} /\ Laid(p, m, i + 1, j + 1)
  <2>1. PICK at \in [i..(P + 1) -> 1..(N + 1)] : LaidBy(p, m, i, j, at)
    BY <1>1, <1>2 DEF Laid
  <2>2. /\ at[i] = j /\ at[P + 1] = N + 1
        /\ \A k \in i..P : /\ at[k] <= at[k + 1]
                           /\ p[k] # Star => at[k + 1] = at[k] + 1 /\ p[k] \in {Query, m[at[k]]}
    BY <1>1, <2>1 DEF LaidBy
  <2>3. i \in i..P /\ at[i + 1] \in 1..(N + 1)
    <3>1. i \in i..P /\ i + 1 \in i..(P + 1)
      BY <1>1
    <3> QED
      BY <3>1
  <2>4. at[i + 1] = j + 1 /\ p[i] \in {Query, m[j]}
    BY <2>2, <2>3
  <2> DEFINE new == [k \in (i + 1)..(P + 1) |-> at[k]]
  <2>5. new \in [(i + 1)..(P + 1) -> 1..(N + 1)]
    BY <1>1
  <2>6. new[i + 1] = j + 1 /\ new[P + 1] = N + 1
    BY <1>1, <2>2, <2>4
  <2>7. ASSUME NEW k \in (i + 1)..P
        PROVE  /\ new[k] <= new[k + 1]
               /\ p[k] # Star => new[k + 1] = new[k] + 1 /\ p[k] \in {Query, m[new[k]]}
    <3>1. k \in i..P /\ new[k] = at[k] /\ new[k + 1] = at[k + 1]
      BY <1>1
    <3> QED
      BY <2>2, <3>1
  <2> HIDE DEF new
  <2>8. Laid(p, m, i + 1, j + 1)
    BY <1>1, <2>5, <2>6, <2>7 DEF Laid, LaidBy
  <2> QED
    BY <1>1, <2>3, <2>4, <2>8
<1>3. ASSUME j <= N, p[i] \in {Query, m[j]}, Laid(p, m, i + 1, j + 1)
      PROVE  Laid(p, m, i, j)
  <2>1. PICK at \in [(i + 1)..(P + 1) -> 1..(N + 1)] : LaidBy(p, m, i + 1, j + 1, at)
    BY <1>1, <1>3 DEF Laid
  <2>2. /\ at[i + 1] = j + 1 /\ at[P + 1] = N + 1
        /\ \A k \in (i + 1)..P : /\ at[k] <= at[k + 1]
                                 /\ p[k] # Star => at[k + 1] = at[k] + 1 /\ p[k] \in {Query, m[at[k]]}
    BY <1>1, <2>1 DEF LaidBy
  <2> DEFINE new == [k \in i..(P + 1) |-> IF k = i THEN j ELSE at[k]]
  <2>3. new \in [i..(P + 1) -> 1..(N + 1)]
    BY <1>1
  <2>4. new[i] = j /\ new[P + 1] = N + 1 /\ new[i + 1] = j + 1
    BY <1>1, <2>2
  <2>5. ASSUME NEW k \in i..P
        PROVE  /\ new[k] <= new[k + 1]
               /\ p[k] # Star => new[k + 1] = new[k] + 1 /\ p[k] \in {Query, m[new[k]]}
    <3>1. CASE k = i
      <4> HIDE DEF new
      <4> QED
        BY <1>3, <2>4, <3>1
    <3>2. CASE k # i
      <4>1. k \in (i + 1)..P /\ new[k] = at[k] /\ new[k + 1] = at[k + 1]
        BY <1>1, <3>2
      <4> QED
        BY <2>2, <4>1
    <3> QED
      BY <3>1, <3>2
  <2> HIDE DEF new
  <2> QED
    BY <1>1, <2>3, <2>4, <2>5 DEF Laid, LaidBy
<1> QED
  BY <1>1, <1>2, <1>3

LEMMA LaidStars ==
  ASSUME NEW p \in Seq(Int), NEW m \in Seq(Int), NEW i \in 1..Len(p), NEW j \in 1..(Len(m) + 1),
         NEW q \in (i + 1)..(Len(p) + 1), \A k \in i..(q - 1) : p[k] = Star
  PROVE  Laid(p, m, i, j) <=> \E k \in j..(Len(m) + 1) : Laid(p, m, q, k)
<1>1. PICK P \in Nat, N \in Nat : P = Len(p) /\ N = Len(m)
  OBVIOUS
<1>2. ASSUME Laid(p, m, i, j)
      PROVE  \E k \in j..(N + 1) : Laid(p, m, q, k)
  <2>1. PICK at \in [i..(P + 1) -> 1..(N + 1)] : LaidBy(p, m, i, j, at)
    BY <1>1, <1>2 DEF Laid
  <2>2. /\ at[i] = j /\ at[P + 1] = N + 1
        /\ \A k \in i..P : /\ at[k] <= at[k + 1]
                           /\ p[k] # Star => at[k + 1] = at[k] + 1 /\ p[k] \in {Query, m[at[k]]}
    BY <1>1, <2>1 DEF LaidBy
  <2> DEFINE S == {d \in 0..(q - i) : j <= at[i + d]}
  <2>3. 0..(q - i) \subseteq S
    <3>1. 0 \in S
      BY <1>1, <2>2
    <3>2. ASSUME NEW d \in 0..(q - i - 1), d \in S PROVE d + 1 \in S
      <4>1. i + d \in i..P /\ i + (d + 1) = (i + d) + 1 /\ j <= at[i + d] /\ d + 1 \in 0..(q - i)
        BY <1>1, <3>2
      <4>2. i + d \in i..(P + 1) /\ (i + d) + 1 \in i..(P + 1)
        BY <1>1, <4>1
      <4>3. at[i + d] \in 1..(N + 1) /\ at[(i + d) + 1] \in 1..(N + 1) /\ at[i + d] <= at[(i + d) + 1]
        BY <2>2, <4>1, <4>2
      <4>4. j <= at[i + (d + 1)]
        BY <4>1, <4>3
      <4> QED
        BY <4>1, <4>4
    <3>3. q - i \in Nat
      BY <1>1
    <3> HIDE DEF S
    <3> QED
      BY <3>1, <3>2, <3>3, CountingUp
  <2>4. j <= at[q] /\ at[q] \in 1..(N + 1)
    <3>1. q - i \in 0..(q - i) /\ i + (q - i) = q /\ q \in i..(P + 1)
      BY <1>1
    <3>2. q - i \in S
      BY <2>3, <3>1
    <3> QED
      BY <3>1, <3>2
  <2> DEFINE new == [k \in q..(P + 1) |-> at[k]]
  <2>5. new \in [q..(P + 1) -> 1..(N + 1)] /\ new[q] = at[q] /\ new[P + 1] = N + 1
    BY <1>1, <2>2
  <2>6. ASSUME NEW k \in q..P
        PROVE  /\ new[k] <= new[k + 1]
               /\ p[k] # Star => new[k + 1] = new[k] + 1 /\ p[k] \in {Query, m[new[k]]}
    <3>1. k \in i..P /\ new[k] = at[k] /\ new[k + 1] = at[k + 1]
      BY <1>1
    <3> QED
      BY <2>2, <3>1
  <2> HIDE DEF new
  <2>7. Laid(p, m, q, at[q])
    BY <1>1, <2>5, <2>6 DEF Laid, LaidBy
  <2> QED
    BY <2>4, <2>7
<1>3. ASSUME NEW n \in j..(N + 1), Laid(p, m, q, n)
      PROVE  Laid(p, m, i, j)
  <2>1. PICK at \in [q..(P + 1) -> 1..(N + 1)] : LaidBy(p, m, q, n, at)
    BY <1>1, <1>3 DEF Laid
  <2>2. /\ at[q] = n /\ at[P + 1] = N + 1
        /\ \A k \in q..P : /\ at[k] <= at[k + 1]
                           /\ p[k] # Star => at[k + 1] = at[k] + 1 /\ p[k] \in {Query, m[at[k]]}
    BY <1>1, <2>1 DEF LaidBy
  <2> DEFINE new == [k \in i..(P + 1) |-> IF k < q THEN j ELSE at[k]]
  <2>3. new \in [i..(P + 1) -> 1..(N + 1)] /\ new[i] = j /\ new[P + 1] = N + 1
    BY <1>1, <2>2
  <2>4. ASSUME NEW k \in i..P
        PROVE  /\ new[k] <= new[k + 1]
               /\ p[k] # Star => new[k + 1] = new[k] + 1 /\ p[k] \in {Query, m[new[k]]}
    <3>1. CASE k < q
      <4>1. k \in i..(q - 1) /\ k + 1 \in i..(P + 1) /\ (k + 1 < q \/ k + 1 = q)
        BY <1>1, <3>1
      <4>2. new[k] = j /\ (k + 1 < q => new[k + 1] = j) /\ (k + 1 = q => new[k + 1] = n)
        <5>1. new[k] = j /\ new[k + 1] = IF k + 1 < q THEN j ELSE at[k + 1]
          BY <3>1, <4>1
        <5>2. k + 1 = q => ~ (k + 1 < q)
          BY <1>1
        <5> HIDE DEF new
        <5> QED
          BY <2>2, <5>1, <5>2
      <4> HIDE DEF new
      <4>3. p[k] = Star /\ j <= n /\ j <= j
        BY <1>1, <4>1
      <4>4. new[k] <= new[k + 1]
        BY <4>1, <4>2, <4>3
      <4> QED
        BY <4>3, <4>4
    <3>2. CASE ~ (k < q)
      <4>1. k \in q..P /\ new[k] = at[k] /\ new[k + 1] = at[k + 1]
        BY <1>1, <3>2
      <4> QED
        BY <2>2, <4>1
    <3> QED
      BY <3>1, <3>2
  <2> HIDE DEF new
  <2> QED
    BY <1>1, <2>3, <2>4 DEF Laid, LaidBy
<1> QED
  BY <1>1, <1>2, <1>3

LEMMA BehindStars ==
  ASSUME NEW p \in Seq(Int), NEW i \in 1..Len(p)
  PROVE  /\ Behind(p, i) \in i..(Len(p) + 1)
         /\ \A k \in i..(Behind(p, i) - 1) : p[k] = Star
         /\ Behind(p, i) <= Len(p) => p[Behind(p, i)] # Star
<1>1. PICK P \in Nat : P = Len(p)
  OBVIOUS
<1> DEFINE others == {q \in i..(P + 1) : q <= P => p[q] # Star}
<1>2. P + 1 \in others /\ others \subseteq Nat
  BY <1>1
<1>3. PICK q \in others : \A k \in others : q <= k
  <2> HIDE DEF others
  <2> QED
    BY <1>2, LeastNatural
<1>4. \A k \in i..(q - 1) : p[k] = Star
  <2>1. SUFFICES ASSUME NEW k \in i..(q - 1), p[k] # Star PROVE FALSE
    OBVIOUS
  <2>2. k \in others /\ k < q
    BY <1>1, <2>1
  <2> QED
    BY <1>1, <1>3, <2>2
<1>5. \E r \in i..(Len(p) + 1) :
        (\A k \in i..(r - 1) : p[k] = Star) /\ (r <= Len(p) => p[r] # Star)
  BY <1>1, <1>3, <1>4
<1> QED
  BY <1>5 DEF Behind

(* wildmatch() says whether the pattern can be laid along the name.         *)
LEMMA WildmatchIs ==
  ASSUME NEW p \in Seq(Int), NEW m \in Seq(Int)
  PROVE  Wildmatch(p, m) = Laid(p, m, 1, 1)
<1>1. PICK P \in Nat, N \in Nat : P = Len(p) /\ N = Len(m)
  OBVIOUS
<1> DEFINE row(f, i, n) ==
             IF i > Len(p) THEN n > Len(m)
             ELSE IF p[i] = Star
               THEN Behind(p, i) > Len(p) \/ \E k \in n..Len(m) : f[Behind(p, i)][k]
             ELSE n <= Len(m) /\ p[i] \in {Query, m[n]} /\ f[i + 1][n + 1]
           rows(f) == [i \in 1..(Len(p) + 1) |-> [n \in 1..(Len(m) + 1) |-> row(f, i, n)]]
           laid == [i \in 1..(Len(p) + 1) |-> [n \in 1..(Len(m) + 1) |-> Laid(p, m, i, n)]]
<1>2. ASSUME NEW f, NEW i \in 1..(P + 1), NEW n \in 1..(N + 1),
             \A k \in (i + 1)..(P + 1), j \in 1..(N + 1) : f[k][j] = Laid(p, m, k, j)
      PROVE  row(f, i, n) = Laid(p, m, i, n)
  <2>0. Laid(p, m, i, n) \in BOOLEAN
    BY DEF Laid
  <2>1. CASE i = P + 1
    <3>1. Laid(p, m, Len(p) + 1, n) <=> n > Len(m)
      BY <1>1, LaidAtEnd
    <3>2. i > Len(p) /\ i = Len(p) + 1
      BY <1>1, <2>1
    <3>3. row(f, i, n) = (n > Len(m))
      BY <3>2
    <3>4. (n > Len(m)) = Laid(p, m, i, n)
      BY <2>0, <3>1, <3>2
    <3> QED
      BY <3>3, <3>4
  <2>2. CASE i <= P /\ p[i] # Star
    <3>1. n <= N => i + 1 \in (i + 1)..(P + 1) /\ n + 1 \in 1..(N + 1)
      BY <1>1, <2>2
    <3>2. Laid(p, m, i, n) <=> n <= Len(m) /\ p[i] \in {Query, m[n]} /\ Laid(p, m, i + 1, n + 1)
      <4>1. i \in 1..Len(p) /\ n \in 1..(Len(m) + 1)
        BY <1>1, <2>2
      <4> QED
        BY <2>2, <4>1, LaidChar
    <3>3. n <= Len(m) => f[i + 1][n + 1] = Laid(p, m, i + 1, n + 1)
      BY <1>1, <1>2, <3>1
    <3>4. ~ (i > Len(p)) /\ p[i] # Star
      BY <1>1, <2>2
    <3>5. row(f, i, n) = (n <= Len(m) /\ p[i] \in {Query, m[n]} /\ f[i + 1][n + 1])
      BY <3>4
    <3>6. (n <= Len(m) /\ p[i] \in {Query, m[n]} /\ f[i + 1][n + 1]) = Laid(p, m, i, n)
      BY <2>0, <3>2, <3>3
    <3> HIDE DEF row
    <3> QED
      BY <3>5, <3>6
  <2>3. CASE i <= P /\ p[i] = Star
    <3>1. PICK q : /\ q = Behind(p, i) /\ q \in i..(P + 1)
                   /\ \A k \in i..(q - 1) : p[k] = Star
                   /\ q <= P => p[q] # Star
      BY <1>1, <2>3, BehindStars
    <3>2. q \in (i + 1)..(P + 1)
      BY <1>1, <2>3, <3>1
    <3>3. Laid(p, m, i, n) <=> \E k \in n..(N + 1) : Laid(p, m, q, k)
      <4>1. i \in 1..Len(p) /\ n \in 1..(Len(m) + 1) /\ q \in (i + 1)..(Len(p) + 1)
        BY <1>1, <2>3, <3>2
      <4>2. Laid(p, m, i, n) <=> \E k \in n..(Len(m) + 1) : Laid(p, m, q, k)
        BY <3>1, <4>1, LaidStars
      <4> QED
        BY <1>1, <4>2
    <3>4. (\E k \in n..(N + 1) : Laid(p, m, q, k)) <=> q > P \/ \E k \in n..N : Laid(p, m, q, k)
      <4>1. CASE q = P + 1
        <5>1. N + 1 \in n..(N + 1) /\ N + 1 \in 1..(N + 1) /\ N + 1 > N
          BY <1>1
        <5>2. Laid(p, m, P + 1, N + 1)
          BY <1>1, <5>1, LaidAtEnd
        <5> QED
          BY <1>1, <4>1, <5>1, <5>2
      <4>2. CASE q <= P
        <5>1. ~ Laid(p, m, q, N + 1)
          <6>1. q \in 1..P /\ N + 1 \in 1..(N + 1) /\ ~ (N + 1 <= N)
            BY <1>1, <3>2, <4>2
          <6> QED
            BY <1>1, <3>1, <4>2, <6>1, LaidChar
        <5>2. \A k \in n..(N + 1) : k \in n..N \/ k = N + 1
          BY <1>1
        <5>3. \A k \in n..N : k \in n..(N + 1)
          BY <1>1
        <5>4. ~ (q > P)
          BY <1>1, <3>1, <4>2
        <5> QED
          BY <5>1, <5>2, <5>3, <5>4
      <4> QED
        BY <1>1, <3>1, <4>1, <4>2
    <3>5. \A k \in n..N : f[q][k] = Laid(p, m, q, k)
      BY <1>1, <1>2, <3>2
    <3>6. ~ (i > Len(p)) /\ p[i] = Star
      BY <1>1, <2>3
    <3>7. row(f, i, n) = (q > Len(p) \/ \E k \in n..Len(m) : f[q][k])
      BY <3>1, <3>6
    <3>8. (\E k \in n..Len(m) : f[q][k]) <=> \E k \in n..Len(m) : Laid(p, m, q, k)
      BY <1>1, <3>5
    <3>9. (q > Len(p) \/ \E k \in n..Len(m) : f[q][k]) = Laid(p, m, i, n)
      <4>1. (q > Len(p) \/ \E k \in n..Len(m) : f[q][k]) <=> Laid(p, m, i, n)
        BY <1>1, <3>3, <3>4, <3>8
      <4> QED
        BY <2>0, <4>1
    <3> HIDE DEF row
    <3> QED
      BY <3>7, <3>9
  <2> QED
    BY <1>1, <2>1, <2>2, <2>3
<1>3. laid = rows(laid)
  <2>1. \A k \in 1..(P + 1), j \in 1..(N + 1) : laid[k][j] = Laid(p, m, k, j)
    BY <1>1
  <2> HIDE DEF laid
  <2>2. ASSUME NEW i \in 1..(P + 1), NEW n \in 1..(N + 1) PROVE row(laid, i, n) = Laid(p, m, i, n)
    <3>1. \A k \in (i + 1)..(P + 1), j \in 1..(N + 1) : laid[k][j] = Laid(p, m, k, j)
      BY <1>1, <2>1
    <3> HIDE DEF row
    <3> QED
      BY <1>2, <3>1
  <2> HIDE DEF row
  <2> QED
    BY <1>1, <2>2 DEF laid
<1> DEFINE chosen == CHOOSE f : f = rows(f)
<1>4. Wildmatch(p, m) = chosen[1][1]
  BY DEF Wildmatch
<1> HIDE DEF laid
<1>5. PICK f : f = rows(f) /\ Wildmatch(p, m) = f[1][1]
  <2> HIDE DEF rows
  <2>1. chosen = rows(chosen)
    BY <1>3
  <2> HIDE DEF chosen
  <2> QED
    BY <1>4, <2>1
<1> DEFINE S == {d \in 0..(P + 1) : \A i \in (P + 2 - d)..(P + 1), n \in 1..(N + 1) :
                                     f[i][n] = Laid(p, m, i, n)}
<1>6. 0..(P + 1) \subseteq S
  <2>1. 0 \in S
    BY <1>1
  <2>2. ASSUME NEW d \in 0..P, d \in S PROVE d + 1 \in S
    <3>1. PICK i \in 1..(P + 1) : i = P + 1 - d /\ P + 2 - d = i + 1
      <4>1. P + 1 - d \in 1..(P + 1) /\ P + 2 - d = (P + 1 - d) + 1
        OBVIOUS
      <4> QED
        BY <4>1
    <3>2. \A k \in (i + 1)..(P + 1), j \in 1..(N + 1) : f[k][j] = Laid(p, m, k, j)
      <4>1. \A k \in (P + 2 - d)..(P + 1), j \in 1..(N + 1) : f[k][j] = Laid(p, m, k, j)
        BY <2>2
      <4> QED
        BY <3>1, <4>1
    <3>3. ASSUME NEW n \in 1..(N + 1) PROVE f[i][n] = Laid(p, m, i, n)
      <4>1. row(f, i, n) = Laid(p, m, i, n)
        <5> HIDE DEF row
        <5> QED
          BY <1>2, <3>2
      <4>2. f[i][n] = row(f, i, n)
        <5>1. i \in 1..(Len(p) + 1) /\ n \in 1..(Len(m) + 1)
          BY <1>1
        <5> HIDE DEF row
        <5>2. rows(f)[i] = [k \in 1..(Len(m) + 1) |-> row(f, i, k)]
          BY <5>1
        <5>3. rows(f)[i][n] = row(f, i, n)
          BY <5>1, <5>2
        <5> HIDE DEF rows
        <5> QED
          BY <1>5, <5>3
      <4> QED
        BY <4>1, <4>2
    <3>4. \A k \in (P + 2 - (d + 1))..(P + 1) : k = i \/ k \in (i + 1)..(P + 1)
      BY <3>1
    <3>5. d + 1 \in 0..(P + 1)
      OBVIOUS
    <3> QED
      BY <3>2, <3>3, <3>4, <3>5
  <2>3. P + 1 \in Nat /\ (P + 1) - 1 = P
    OBVIOUS
  <2> HIDE DEF S
  <2> QED
    BY <2>1, <2>2, <2>3, CountingUp
<1>7. P + 1 \in S /\ P + 2 - (P + 1) = 1 /\ 1 \in 1..(P + 1) /\ 1 \in 1..(N + 1)
  <2> HIDE DEF S
  <2> QED
    BY <1>6
<1>8. f[1][1] = Laid(p, m, 1, 1)
  BY <1>7
<1> QED
  BY <1>5, <1>8

(* qid prints a module exactly when the pattern can be laid along its name, *)
(* for every pattern and every name.                                        *)
THEOREM WildmatchIsRight == Spec => []WildRight
<1>1. Outcome => WildRight
  <2> SUFFICES ASSUME Outcome, Ran("wildmatch") PROVE WildRight
    BY DEF WildRight
  <2>1. job.pattern \in Seq(Int) /\ job.name \in Seq(Int)
    <3>1. job.pattern \in Seq(Nat) /\ job.name \in Seq(Nat)
      BY ToolsAssumption DEF Outcome, Ran
    <3> QED
      BY <3>1
  <2>2. out = Laid(job.pattern, job.name, 1, 1)
    BY <2>1, WildmatchIs DEF Outcome
  <2>3. DOMAIN job.pattern = 1..Len(job.pattern)
    BY <2>1
  <2> QED
    BY <2>2, <2>3 DEF WildRight, Laid, LaidBy
<1> QED
  BY <1>1, OutcomeHolds, PTL

-----------------------------------------------------------------------------
(* What each attempt of qid says of a file, and the headers it needs. *)
Formats == {"module", "rof", "elf"}

Takes(f, answer, kind) == answer.says = kind /\ answer.status = 0 /\ f.magic = kind

LEMMA Refusals ==
  /\ NotThis.says = "not this"
  /\ Failed.says = "error" /\ Failed.status = 1
  /\ Failed # NotThis
BY DEF NotThis, Failed, Says

LEMMA ModuleAttempt ==
  ASSUME NEW f \in File, IdentifyModule(f) # NotThis
  PROVE  \/ IdentifyModule(f) = Failed /\ ~ Readable(f, 0, CommonSize)
         \/ Takes(f, IdentifyModule(f), "module") /\ IdentifyModule(f).name = NameRead(f)
            /\ IdentifyModule(f).detail = PrintModuleDetail(f)
BY DEF IdentifyModule, Takes, Says

LEMMA RofAttempt ==
  ASSUME NEW f \in File, IdentifyRof(f) # NotThis
  PROVE  \/ IdentifyRof(f) = Failed /\ ~ Readable(f, 0, RofSize)
         \/ Takes(f, IdentifyRof(f), "rof")
BY DEF IdentifyRof, Takes, Says

LEMMA ElfAttempt ==
  ASSUME NEW f \in File, IdentifyElf(f) # NotThis
  PROVE  \/ IdentifyElf(f) = Failed /\ (~ Readable(f, 0, 16) \/ ~ Readable(f, 0, ElfSize(f.is64)))
         \/ Takes(f, IdentifyElf(f), "elf")
BY DEF IdentifyElf, Takes, Says

(* A file as long as the longest header is read by every attempt. *)
Whole(f) == f.size >= ElfSize(TRUE)
Short(f) == f.size < IF f.is64 THEN 64 ELSE RofSize

LEMMA HeaderSizes ==
  ASSUME NEW f \in File
  PROVE  /\ Whole(f) => /\ Readable(f, 0, CommonSize) /\ Readable(f, 0, RofSize)
                        /\ Readable(f, 0, 16) /\ Readable(f, 0, ElfSize(f.is64))
         /\ \/ ~ Readable(f, 0, CommonSize) \/ ~ Readable(f, 0, RofSize)
            \/ ~ Readable(f, 0, 16) \/ ~ Readable(f, 0, ElfSize(f.is64))
            => Short(f)
<1> DEFINE n == f.size
<1>1. n \in Nat
  BY DEF File
<1>2. ElfSize(TRUE) = 64 /\ ElfSize(FALSE) = 52 /\ f.is64 \in BOOLEAN
  BY DEF ElfSize, File
<1>3. /\ Readable(f, 0, CommonSize) <=> 48 <= n
      /\ Readable(f, 0, RofSize) <=> 56 <= n
      /\ Readable(f, 0, 16) <=> 16 <= n
      /\ Readable(f, 0, 52) <=> 52 <= n
      /\ Readable(f, 0, 64) <=> 64 <= n
  BY <1>1 DEF Readable, CommonSize, RofSize
<1>4. Whole(f) <=> 64 <= n
  BY <1>1, <1>2 DEF Whole
<1>5. Short(f) <=> n < IF f.is64 THEN 64 ELSE 56
  BY DEF Short, RofSize
<1> HIDE DEF n
<1>6. CASE f.is64
  <2>1. ElfSize(f.is64) = 64 /\ (Short(f) <=> n < 64)
    BY <1>2, <1>5, <1>6 DEF ElfSize
  <2> QED
    BY <1>1, <1>3, <1>4, <2>1
<1>7. CASE ~ f.is64
  <2>1. ElfSize(f.is64) = 52 /\ (Short(f) <=> n < 56)
    BY <1>2, <1>5, <1>7 DEF ElfSize
  <2> QED
    BY <1>1, <1>3, <1>4, <2>1
<1> QED
  BY <1>6, <1>7

(* Where the headers can be read, the magic decides. *)
LEMMA MagicDecides ==
  ASSUME NEW f \in File, Whole(f)
  PROVE  /\ IdentifyModule(f) # NotThis <=> f.magic = "module"
         /\ IdentifyRof(f) # NotThis <=> f.magic = "rof"
         /\ IdentifyElf(f) # NotThis <=> f.magic = "elf"
         /\ IdentifyModule(f) # Failed /\ IdentifyRof(f) # Failed /\ IdentifyElf(f) # Failed
<1>1. /\ Readable(f, 0, CommonSize) /\ Readable(f, 0, RofSize)
      /\ Readable(f, 0, 16) /\ Readable(f, 0, ElfSize(f.is64))
  BY HeaderSizes
<1>2. \A kind \in Formats : \A exit, name, detail :
        Says(kind, exit, name, detail) # NotThis /\ Says(kind, exit, name, detail) # Failed
  BY DEF Formats, NotThis, Failed, Says
<1>3. Failed # NotThis /\ "module" \in Formats /\ "rof" \in Formats /\ "elf" \in Formats
  BY Refusals DEF Formats
<1>4. /\ IdentifyModule(f) # NotThis <=> f.magic = "module"
      /\ IdentifyModule(f) # Failed
  BY <1>1, <1>2, <1>3 DEF IdentifyModule
<1>5. /\ IdentifyRof(f) # NotThis <=> f.magic = "rof"
      /\ IdentifyRof(f) # Failed
  BY <1>1, <1>2, <1>3 DEF IdentifyRof
<1>6. /\ IdentifyElf(f) # NotThis <=> f.magic = "elf"
      /\ IdentifyElf(f) # Failed
  BY <1>1, <1>2, <1>3 DEF IdentifyElf
<1> QED
  BY <1>4, <1>5, <1>6

(* qid: the first attempt that does not say "not this" decides. *)
LEMMA QidDecides ==
  ASSUME NEW f \in File
  PROVE  \/ Qid(f) = Failed /\ Short(f) /\ ~ Whole(f)
         \/ Takes(f, Qid(f), "module") /\ Qid(f).name = NameRead(f)
            /\ Qid(f).detail = PrintModuleDetail(f)
         \/ Takes(f, Qid(f), "rof")
         \/ Takes(f, Qid(f), "elf")
         \/ /\ Qid(f).says = "unknown" /\ Qid(f).status = 1
            /\ Whole(f) => f.magic \notin Formats
<1>1. Qid(f) = Failed => ~ Whole(f) /\ Short(f)
  <2>1. \A said, exit, name, detail : said # "error" => Says(said, exit, name, detail) # Failed
    BY DEF Says, Failed
  <2>2. Says("unknown", 1, 0, "none") # Failed
    BY <2>1
  <2>3. \/ ~ Readable(f, 0, CommonSize) \/ ~ Readable(f, 0, RofSize)
        \/ ~ Readable(f, 0, 16) \/ ~ Readable(f, 0, ElfSize(f.is64))
        => Short(f) /\ ~ Whole(f)
    BY HeaderSizes
  <2>4. \A kind : Takes(f, Failed, kind) => kind = "error"
    BY Refusals DEF Takes
  <2>5. ~ Takes(f, Failed, "module") /\ ~ Takes(f, Failed, "rof") /\ ~ Takes(f, Failed, "elf")
    BY <2>4
  <2>6. Qid(f) = Failed => \/ IdentifyModule(f) = Failed \/ IdentifyRof(f) = Failed
                           \/ IdentifyElf(f) = Failed
    BY <2>2 DEF Qid
  <2> QED
    BY <2>3, <2>5, <2>6, Refusals, ModuleAttempt, RofAttempt, ElfAttempt
<1>2. CASE IdentifyModule(f) # NotThis
  <2>1. Qid(f) = IdentifyModule(f)
    BY <1>2 DEF Qid
  <2> QED
    BY <1>1, <1>2, <2>1, ModuleAttempt
<1>3. CASE IdentifyModule(f) = NotThis /\ IdentifyRof(f) # NotThis
  <2>1. Qid(f) = IdentifyRof(f)
    BY <1>3 DEF Qid
  <2> QED
    BY <1>1, <1>3, <2>1, RofAttempt
<1>4. CASE IdentifyModule(f) = NotThis /\ IdentifyRof(f) = NotThis /\ IdentifyElf(f) # NotThis
  <2>1. Qid(f) = IdentifyElf(f)
    BY <1>4 DEF Qid
  <2> QED
    BY <1>1, <1>4, <2>1, ElfAttempt
<1>5. CASE IdentifyModule(f) = NotThis /\ IdentifyRof(f) = NotThis /\ IdentifyElf(f) = NotThis
  <2>1. Qid(f) = Says("unknown", 1, 0, "none")
    BY <1>5 DEF Qid
  <2>2. Qid(f).says = "unknown" /\ Qid(f).status = 1
    BY <2>1 DEF Says
  <2>3. Whole(f) => f.magic \notin Formats
    BY <1>5, MagicDecides DEF Formats
  <2> QED
    BY <2>2, <2>3
<1> QED
  BY <1>2, <1>3, <1>4, <1>5

(* ident: what it says, and of which files. *)
LEMMA IdentDecides ==
  ASSUME NEW f \in File
  PROVE  \/ Ident(f).says = "error" /\ Ident(f).status = 1
         \/ Ident(f).status = 0 /\ Ident(f).says \in {"module", "elf", "rof", "libgen", "little", "m6809"}
            /\ (Ident(f).says \in Formats => Ident(f).says = f.magic)
<1>1. IdentifyOther(f) # NotThis =>
        \/ IdentifyOther(f) = Failed
        \/ /\ IdentifyOther(f).status = 0 /\ IdentifyOther(f).says \in {"elf", "rof", "libgen"}
           /\ IdentifyOther(f).says = f.magic
  BY DEF IdentifyOther, Says
<1>2. Identify6809(f) # NotThis =>
        \/ Identify6809(f) = Failed
        \/ Identify6809(f).status = 0 /\ Identify6809(f).says = "m6809"
  BY DEF Identify6809, Says
<1>3. CASE IdentifyOther(f) # NotThis
  <2>1. Ident(f) = IdentifyOther(f)
    BY <1>3 DEF Ident
  <2> QED
    BY <1>1, <1>3, <2>1, Refusals
<1>4. CASE IdentifyOther(f) = NotThis /\ Identify6809(f) # NotThis
  <2>1. Ident(f) = Identify6809(f)
    BY <1>4 DEF Ident
  <2> QED
    BY <1>2, <1>4, <2>1, Refusals DEF Formats
<1>5. CASE IdentifyOther(f) = NotThis /\ Identify6809(f) = NotThis
  <2>1. \/ Ident(f) = Failed
        \/ f.magic \in {"module", "little"} /\ Ident(f) = Says(f.magic, 0, NameLength(f), "exec")
    BY <1>5 DEF Ident
  <2>2. CASE Ident(f) = Failed
    BY <2>2, Refusals
  <2>3. CASE f.magic \in {"module", "little"} /\ Ident(f) = Says(f.magic, 0, NameLength(f), "exec")
    <3>1. Ident(f).says = f.magic /\ Ident(f).status = 0
      BY <2>3 DEF Says
    <3> QED
      BY <2>3, <3>1
  <2> QED
    BY <2>1, <2>2, <2>3
<1> QED
  BY <1>3, <1>4, <1>5

(* The name qid reads of a module, 40 bytes at a time. *)
LEMMA NameIsRead ==
  ASSUME NEW f \in File
  PROVE  /\ NameLength(f) < NameMax => NameRead(f) \in {0, NameLength(f), Chunk}
         /\ f.nameAt + Chunk <= f.size /\ NameLength(f) <= Chunk => NameRead(f) = NameLength(f)
<1>1. f.nulAt \in Nat /\ f.highAt \in Nat
  BY DEF File
<1>2. NameLength(f) \in Nat
  BY <1>1 DEF NameLength
<1> QED
  BY <1>2 DEF NameRead, Readable, Least, NameMax, Chunk

(* The detail qid shows where the file holds all of the type's header.      *)
LEMMA DetailIsShown ==
  ASSUME NEW f \in File, f.size >= LayoutSize(f.type), f.type # "any"
  PROVE  PrintModuleDetail(f) # "none"
<1> DEFINE n == LayoutSize(f.type)
<1>1. n \in Nat
  BY DEF LayoutSize, CommonSize, ExecSize
<1>2. f.size \in Nat /\ f.type \in ModuleTypes
  BY DEF File
<1>3. Readable(f, 0, n)
  BY <1>1, <1>2 DEF Readable
<1>4. f.type # "none"
  BY <1>2 DEF ModuleTypes, Executable
<1> QED
  BY <1>3, <1>4 DEF PrintModuleDetail

(* qid and ident, for every file whatever its length and fields: neither    *)
(* takes for one format what the other takes for another, and qid gives the *)
(* whole name of a module, its first piece, or none, and shows the fields   *)
(* of its type where the file holds them.                                   *)
THEOREM FormatsAgree == \A f \in File : Agree(f, Qid(f), Ident(f))
<1>1. SUFFICES ASSUME NEW f \in File PROVE Agree(f, Qid(f), Ident(f))
  OBVIOUS
<1> DEFINE q == Qid(f)
           i == Ident(f)
<1>2. \/ q.says = "error" /\ q.status = 1 /\ Short(f) /\ ~ Whole(f)
      \/ q.says \in Formats /\ q.status = 0 /\ q.says = f.magic
      \/ q.says = "unknown" /\ q.status = 1 /\ (Whole(f) => f.magic \notin Formats)
  BY QidDecides, Refusals DEF Takes, Formats
<1>3. \/ i.says = "error" /\ i.status = 1
      \/ i.status = 0 /\ i.says \in {"module", "elf", "rof", "libgen", "little", "m6809"}
         /\ (i.says \in Formats => i.says = f.magic)
  BY IdentDecides
<1>4. q.says = "module" /\ NameLength(f) < NameMax => q.name \in {0, NameLength(f), Chunk}
  <2>1. q.says = "module" => q.name = NameRead(f)
    BY QidDecides, Refusals DEF Takes
  <2> QED
    BY <2>1, NameIsRead
<1>5. /\ q.says = "module" /\ f.nameAt + Chunk <= f.size /\ NameLength(f) <= Chunk =>
           q.name = NameLength(f)
      /\ q.says = "module" /\ f.size >= LayoutSize(f.type) /\ f.type # "any" => q.detail # "none"
  <2>1. q.says = "module" => q.name = NameRead(f) /\ q.detail = PrintModuleDetail(f)
    BY QidDecides, Refusals DEF Takes
  <2> QED
    BY <2>1, NameIsRead, DetailIsShown
<1> HIDE DEF q, i
<1>6. /\ q.says \in Formats /\ i.says \in Formats => q.says = i.says
      /\ i.says \in Formats /\ Whole(f) => q.says = i.says
      /\ q.says = "error" => Short(f)
      /\ q.says \in Formats => q.says = f.magic
      /\ q.status = 0 <=> q.says \notin {"error", "unknown"}
      /\ i.status = 0 <=> i.says \notin {"error", "unknown"}
  BY <1>2, <1>3 DEF Formats
<1>7. Agree(f, q, i)
  BY <1>4, <1>5, <1>6 DEF Agree, Formats, Whole, Short
<1> QED
  BY <1>7 DEF q, i

(* What qid and ident say of a file, in every run of the two.               *)
THEOREM FormatsAreRight == Spec => []FormatsRight
<1>1. Outcome => FormatsRight
  <2> SUFFICES ASSUME Outcome, Ran("identify") PROVE FormatsRight
    BY DEF FormatsRight
  <2>1. job.file \in File
    BY ToolsAssumption DEF Outcome, Ran
  <2>2. out = [qid |-> Qid(job.file), ident |-> Ident(job.file)]
    BY DEF Outcome
  <2>3. out.qid = Qid(job.file) /\ out.ident = Ident(job.file)
    BY <2>2
  <2> QED
    BY <2>1, <2>3, FormatsAgree DEF FormatsRight
<1> QED
  BY <1>1, OutcomeHolds, PTL

-----------------------------------------------------------------------------
(* cmp: what has been found when n bytes of both files have been compared.  *)
Tally == [compared: Nat, different: Nat]
DifferTo(one, two, n) == {k \in 1..n : Differ(one, two, k)}
Seen(one, two, silent, n, t) ==
  /\ t \in Tally
  /\ ~ silent => t.compared = n /\ t.different = Cardinality(DifferTo(one, two, n))
  /\ t.different = 0 <=> DifferTo(one, two, n) = {}

LEMMA UptoIs ==
  ASSUME NEW n \in Nat
  PROVE  Upto(n) \in Seq(1..n) /\ Len(Upto(n)) = n /\ \A i \in 1..n : Upto(n)[i] = i
<1>1. Upto(n) \in [1..n -> 1..n]
  BY DEF Upto
<1> QED
  BY <1>1, SeqDef, LenProperties DEF Upto

LEMMA ByteTyped ==
  ASSUME NEW a, NEW b, NEW silent, NEW t \in Tally, NEW i
  PROVE  CompareByte(a, b, silent, t, i) \in Tally
BY DEF CompareByte, Tally

Compared(a, b, silent, start, n) == FoldLeft(LAMBDA u, i : CompareByte(a, b, silent, u, i), start, Upto(n))

ByteByByte(acc, a, b, silent, start, n) ==
  /\ acc \in [0..n -> Tally]
  /\ acc[0] = start
  /\ \A i \in 1..n : acc[i] = CompareByte(a, b, silent, acc[i - 1], i)
  /\ Compared(a, b, silent, start, n) = acc[n]

LEMMA CompareBufferIs ==
  ASSUME NEW one, NEW two, NEW size, NEW silent, NEW t, NEW k
  PROVE  CompareBuffer(one, two, size, silent, t, k)
           = Compared(Buffer(one, size, k), Buffer(two, size, k), silent, t,
                      Longer(Buffer(one, size, k), Buffer(two, size, k)))
BY DEF CompareBuffer, Compared

LEMMA ByteFold ==
  ASSUME NEW a, NEW b, NEW silent, NEW start \in Tally, NEW n \in Nat
  PROVE  \E acc : ByteByByte(acc, a, b, silent, start, n)
<1> DEFINE text == Upto(n)
           step(t, i) == CompareByte(a, b, silent, t, i)
           g == [t \in Tally |-> [i \in 1..n |-> step(t, i)]]
           fold(it) == [s \in SUBSET DOMAIN text |->
                          IF s = {} THEN start ELSE step(it[s \ {Max(s)}], text[Max(s)])]
           chosen == CHOOSE it : it = fold(it)
<1>1. Compared(a, b, silent, start, n) = chosen[DOMAIN text]
  BY DEF Compared, FoldLeft, MapThenFoldSet
<1>2. g \in [Tally -> [1..n -> Tally]]
  BY ByteTyped
<1> HIDE DEF step
<1>3. \A t \in Tally, i \in 1..n : g[t][i] = step(t, i)
  OBVIOUS
<1>4. text \in Seq(1..n) /\ Len(text) = n /\ \A i \in 1..n : text[i] = i
  BY UptoIs
<1> HIDE DEF g, text
<1>5. \A s \in SUBSET DOMAIN text : s # {} => text[Max(s)] \in 1..n /\ s \ {Max(s)} \in SUBSET DOMAIN text
  BY <1>4, LastIn
<1>6. PICK it \in [SUBSET DOMAIN text -> Tally] : Folds(it, Tally, start, g, text)
  BY <1>2, <1>4, FoldExists
<1>7. it = fold(it)
  BY <1>3, <1>5, <1>6 DEF Folds
<1>8. PICK end : end = fold(end) /\ chosen[DOMAIN text] = end[DOMAIN text]
  BY <1>7
<1> HIDE DEF chosen
<1>9. Folds(end, Tally, start, g, text)
  BY <1>3, <1>5, <1>8 DEF Folds
<1>10. Ends(end[DOMAIN text], Tally, 1..n, start, g, text)
  BY <1>2, <1>4, <1>9, FoldRuns
<1>11. PICK acc \in [0..n -> Tally] :
         /\ acc[0] = start /\ end[DOMAIN text] = acc[n]
         /\ \A i \in 1..n : acc[i - 1] \in Tally /\ acc[i] = g[acc[i - 1]][text[i]]
  BY <1>4, <1>10 DEF Ends
<1>12. ASSUME NEW i \in 1..n PROVE acc[i] = step(acc[i - 1], i)
  <2>1. PICK t \in Tally : t = acc[i - 1] /\ acc[i] = g[t][i]
    BY <1>4, <1>11
  <2> QED
    BY <1>3, <2>1
<1> QED
  BY <1>1, <1>8, <1>11, <1>12 DEF step, ByteByByte

(* One byte more. *)
LEMMA ByteSeen ==
  ASSUME NEW one, NEW two, NEW silent \in BOOLEAN, NEW n \in Nat, NEW t,
         Seen(one, two, silent, n, t), NEW a, NEW b, NEW i,
         Differ(a, b, i) <=> Differ(one, two, n + 1)
  PROVE  Seen(one, two, silent, n + 1, CompareByte(a, b, silent, t, i))
<1> DEFINE old == DifferTo(one, two, n)
           new == DifferTo(one, two, n + 1)
<1>1. new = IF Differ(one, two, n + 1) THEN old \cup {n + 1} ELSE old
  BY DEF DifferTo
<1>2. IsFiniteSet(old) /\ n + 1 \notin old
  <2>1. old \subseteq 1..n
    BY DEF DifferTo
  <2>2. IsFiniteSet(1..n)
    BY FS_Interval
  <2> QED
    BY <2>1, <2>2, FS_Subset
<1>3. Cardinality(new) = IF Differ(one, two, n + 1) THEN Cardinality(old) + 1 ELSE Cardinality(old)
  BY <1>1, <1>2, FS_AddElement
<1> DEFINE u == CompareByte(a, b, silent, t, i)
<1>4. u \in Tally
  BY ByteTyped DEF Seen
<1>5. t.different \in Nat /\ t.compared \in Nat
  BY DEF Seen, Tally
<1>6. CASE silent /\ t.different > 0
  <2>1. u = t
    BY <1>6 DEF CompareByte
  <2>2. old # {}
    BY <1>6 DEF Seen
  <2>3. new # {}
    BY <1>1, <2>2
  <2> HIDE DEF u
  <2>4. silent /\ u.different # 0
    <3>1. t.different > 0 => t.different # 0
      BY <1>5
    <3> QED
      BY <1>6, <2>1, <3>1
  <2>5. Seen(one, two, silent, n + 1, u)
    BY <1>4, <2>3, <2>4 DEF Seen
  <2> QED
    BY <2>5 DEF u
<1>7. CASE ~ (silent /\ t.different > 0)
  <2>1. /\ u.compared = t.compared + 1
        /\ u.different = IF Differ(a, b, i) THEN t.different + 1 ELSE t.different
    BY <1>7 DEF CompareByte
  <2>2. u.different = 0 <=> new = {}
    <3>1. t.different = 0 <=> old = {}
      BY DEF Seen
    <3>2. u.different = 0 <=> t.different = 0 /\ ~ Differ(a, b, i)
      BY <1>5, <2>1
    <3>3. new = {} <=> old = {} /\ ~ Differ(a, b, i)
      BY <1>1
    <3> QED
      BY <3>1, <3>2, <3>3
  <2>3. ~ silent => u.compared = n + 1 /\ u.different = Cardinality(new)
    BY <1>3, <2>1 DEF Seen
  <2>4. /\ ~ silent => u.compared = n + 1 /\ u.different = Cardinality(DifferTo(one, two, n + 1))
        /\ u.different = 0 <=> DifferTo(one, two, n + 1) = {}
    BY <2>2, <2>3
  <2> HIDE DEF u
  <2>5. Seen(one, two, silent, n + 1, u)
    BY <1>4, <2>4 DEF Seen
  <2> QED
    BY <2>5 DEF u
<1> QED
  BY <1>6, <1>7

(* Byte i of buffer k is a byte of the file. *)
LEMMA BufferIs ==
  ASSUME NEW T, NEW text \in Seq(T), NEW size \in Nat, NEW k, NEW from \in Nat,
         (k - 1) * size = from, k * size = from + size
  PROVE  /\ Len(Buffer(text, size, k)) =
              IF Len(text) <= from THEN 0 ELSE IF Len(text) <= from + size THEN Len(text) - from ELSE size
         /\ Buffer(text, size, k) \in Seq(T)
         /\ \A i \in 1..Len(Buffer(text, size, k)) : Buffer(text, size, k)[i] = text[from + i]
<1>1. PICK n \in Nat : n = Len(text)
  OBVIOUS
<1> DEFINE to == Smaller(from + size, n)
<1>2. to \in Nat /\ to <= n /\ to = (IF n <= from + size THEN n ELSE from + size)
  BY <1>1 DEF Smaller
<1>3. Buffer(text, size, k) = SubSeq(text, from + 1, to)
  BY <1>1 DEF Buffer
<1> HIDE DEF to
<1>4. /\ SubSeq(text, from + 1, to) \in Seq(T)
      /\ Len(SubSeq(text, from + 1, to)) = IF from + 1 <= to THEN to - from ELSE 0
      /\ \A i \in 1..(to - from) : SubSeq(text, from + 1, to)[i] = text[from + i]
  <2>1. \A i \in (from + 1)..to : text[i] \in T
    BY <1>1, <1>2
  <2>2. from + 1 \in Int /\ to \in Int /\ to - (from + 1) + 1 = to - from
    BY <1>2
  <2>3. \A i \in 1..(to - from) : from + 1 + i - 1 = from + i
    BY <1>2
  <2>4. /\ SubSeq(text, from + 1, to) \in Seq(T)
        /\ Len(SubSeq(text, from + 1, to)) = IF from + 1 <= to THEN to - (from + 1) + 1 ELSE 0
        /\ \A i \in 1..(to - (from + 1) + 1) : SubSeq(text, from + 1, to)[i] = text[from + 1 + i - 1]
    BY <2>1, <2>2, SubSeqProperties
  <2> QED
    BY <2>2, <2>3, <2>4
<1> DEFINE buffer == Buffer(text, size, k)
<1>5. Len(buffer) = IF n <= from THEN 0 ELSE IF n <= from + size THEN n - from ELSE size
  <2>1. Len(buffer) = IF from + 1 <= to THEN to - from ELSE 0
    BY <1>3, <1>4
  <2> QED
    BY <1>2, <2>1
<1>6. \A i \in 1..Len(buffer) : i \in 1..(to - from)
  BY <1>2, <1>5
<1>7. \A i \in 1..Len(buffer) : buffer[i] = text[from + i]
  BY <1>3, <1>4, <1>6
<1>8. buffer \in Seq(T)
  BY <1>3, <1>4
<1> QED
  BY <1>1, <1>5, <1>7, <1>8
LEMMA Blocks ==
  ASSUME NEW k \in Nat \ {0}, NEW size \in Nat
  PROVE  (k - 1) * size \in Nat /\ k * size = (k - 1) * size + size
<1>1. k - 1 \in Nat
  OBVIOUS
<1> QED
  BY <1>1

LEMMA EnoughBlocks ==
  ASSUME NEW n \in Nat, NEW size \in Nat \ {0}
  PROVE  n \div size \in Nat /\ (n \div size) * size <= n /\ n <= (n \div size + 1) * size
<1>1. PICK q \in Nat : q = n \div size
  OBVIOUS
<1>2. q * size <= n /\ n < q * size + size
  BY <1>1
<1>3. (q + 1) * size = q * size + size
  OBVIOUS
<1> QED
  BY <1>1, <1>2, <1>3

LEMMA LongerIs ==
  ASSUME NEW a \in Seq(Nat), NEW b \in Seq(Nat)
  PROVE  Longer(a, b) \in Nat /\ Longer(a, b) = (IF Len(a) >= Len(b) THEN Len(a) ELSE Len(b))
BY DEF Longer

(* A buffer more. *)
LEMMA BufferSeen ==
  ASSUME NEW one \in Seq(Nat), NEW two \in Seq(Nat), NEW silent \in BOOLEAN, NEW size \in Nat,
         NEW k, NEW from \in Nat, (k - 1) * size = from, k * size = from + size,
         from <= Longer(one, two), NEW t, Seen(one, two, silent, from, t)
  PROVE  Seen(one, two, silent, Smaller(from + size, Longer(one, two)),
              CompareBuffer(one, two, size, silent, t, k))
<1>1. PICK x \in Nat, y \in Nat : x = Len(one) /\ y = Len(two)
  OBVIOUS
<1>2. PICK a, b : a = Buffer(one, size, k) /\ b = Buffer(two, size, k)
  OBVIOUS
<1>3. a \in Seq(Nat) /\ b \in Seq(Nat)
  BY <1>2, BufferIs
<1>4. PICK m \in Nat, n \in Nat : m = Len(a) /\ n = Len(b)
  BY <1>3
<1>5. /\ m = IF x <= from THEN 0 ELSE IF x <= from + size THEN x - from ELSE size
      /\ n = IF y <= from THEN 0 ELSE IF y <= from + size THEN y - from ELSE size
  <2>1. Len(a) = IF Len(one) <= from THEN 0 ELSE IF Len(one) <= from + size THEN Len(one) - from ELSE size
    BY <1>2, BufferIs
  <2>2. Len(b) = IF Len(two) <= from THEN 0 ELSE IF Len(two) <= from + size THEN Len(two) - from ELSE size
    BY <1>2, BufferIs
  <2> QED
    BY <1>1, <1>4, <2>1, <2>2
<1>6. /\ \A i \in 1..m : a[i] = one[from + i]
      /\ \A i \in 1..n : b[i] = two[from + i]
  <2>1. \A i \in 1..Len(a) : a[i] = one[from + i]
    BY <1>2, BufferIs
  <2>2. \A i \in 1..Len(b) : b[i] = two[from + i]
    BY <1>2, BufferIs
  <2> QED
    BY <1>4, <2>1, <2>2
<1>7. PICK len \in Nat : len = Longer(a, b) /\ len = IF m >= n THEN m ELSE n
  BY <1>4 DEF Longer
<1>8. from + len = Smaller(from + size, Longer(one, two))
  <2>1. PICK L \in Nat : L = Longer(one, two) /\ L = IF x >= y THEN x ELSE y
    BY <1>1 DEF Longer
  <2> QED
    BY <1>5, <1>7, <2>1 DEF Smaller
<1>9. ASSUME NEW i \in 1..len PROVE Differ(a, b, i) <=> Differ(one, two, from + i)
  <2>1. i > m <=> from + i > x
    BY <1>5, <1>7
  <2>2. i > n <=> from + i > y
    BY <1>5, <1>7
  <2>3. ~ (i > m) => a[i] = one[from + i]
    BY <1>6
  <2>4. ~ (i > n) => b[i] = two[from + i]
    BY <1>6
  <2>5. Differ(a, b, i) <=> i > m \/ i > n \/ one[from + i] # two[from + i]
    BY <1>4, <2>3, <2>4 DEF Differ
  <2>6. Differ(one, two, from + i) <=> from + i > x \/ from + i > y \/ one[from + i] # two[from + i]
    BY <1>1 DEF Differ
  <2> QED
    BY <2>1, <2>2, <2>5, <2>6
<1>10. PICK acc \in [0..len -> Tally] :
        /\ acc[0] = t
        /\ \A i \in 1..len : acc[i] = CompareByte(a, b, silent, acc[i - 1], i)
        /\ Compared(a, b, silent, t, len) = acc[len]
  <2>1. t \in Tally
    BY DEF Seen
  <2>2. PICK acc : ByteByByte(acc, a, b, silent, t, len)
    BY <2>1, ByteFold
  <2> QED
    BY <2>2 DEF ByteByByte
<1> DEFINE S == {i \in 0..len : Seen(one, two, silent, from + i, acc[i])}
<1>11. 0..len \subseteq S
  <2>1. 0 \in S
    <3>1. from + 0 = from
      OBVIOUS
    <3> QED
      BY <1>10, <3>1
  <2>2. ASSUME NEW i \in 0..(len - 1), i \in S PROVE i + 1 \in S
    <3>1. Seen(one, two, silent, from + i, acc[i]) /\ from + i \in Nat
      BY <2>2
    <3>2. i + 1 \in 1..len /\ (i + 1) - 1 = i /\ from + (i + 1) = (from + i) + 1
      OBVIOUS
    <3>3. Differ(a, b, i + 1) <=> Differ(one, two, (from + i) + 1)
      BY <1>9, <3>2
    <3>4. Seen(one, two, silent, (from + i) + 1, CompareByte(a, b, silent, acc[i], i + 1))
      BY <3>1, <3>3, ByteSeen
    <3>5. acc[i + 1] = CompareByte(a, b, silent, acc[i], i + 1)
      BY <1>10, <3>2
    <3> QED
      BY <3>2, <3>4, <3>5
  <2> HIDE DEF S
  <2> QED
    BY <2>1, <2>2, CountingUp
<1>12. Seen(one, two, silent, from + len, acc[len])
  BY <1>11
<1>13. CompareBuffer(one, two, size, silent, t, k) = acc[len]
  BY <1>2, <1>7, <1>10, CompareBufferIs
<1> QED
  BY <1>8, <1>12, <1>13

LEMMA BufferTyped ==
  ASSUME NEW one \in Seq(Nat), NEW two \in Seq(Nat), NEW silent, NEW size \in Nat,
         NEW k \in Nat \ {0}, NEW t \in Tally
  PROVE  CompareBuffer(one, two, size, silent, t, k) \in Tally
<1>1. PICK from \in Nat : from = (k - 1) * size /\ k * size = from + size
  BY Blocks
<1>2. Buffer(one, size, k) \in Seq(Nat) /\ Buffer(two, size, k) \in Seq(Nat)
  BY <1>1, BufferIs
<1>3. PICK len \in Nat : len = Longer(Buffer(one, size, k), Buffer(two, size, k))
  BY <1>2, LongerIs
<1>4. PICK acc : ByteByByte(acc, Buffer(one, size, k), Buffer(two, size, k), silent, t, len)
  BY ByteFold
<1>5. CompareBuffer(one, two, size, silent, t, k) = acc[len] /\ acc \in [0..len -> Tally]
  BY <1>3, <1>4, CompareBufferIs DEF ByteByByte
<1> QED
  BY <1>5

BufferByBuffer(acc, one, two, size, silent, n) ==
  /\ acc \in [0..n -> Tally]
  /\ acc[0] = [compared |-> 0, different |-> 0]
  /\ \A k \in 1..n : acc[k] = CompareBuffer(one, two, size, silent, acc[k - 1], k)
  /\ Compare(one, two, size, silent) = acc[n]

LEMMA BufferFold ==
  ASSUME NEW one \in Seq(Nat), NEW two \in Seq(Nat), NEW size \in Nat, NEW silent,
         NEW n \in Nat, n = Longer(one, two) \div size + 1
  PROVE  \E acc : BufferByBuffer(acc, one, two, size, silent, n)
<1> DEFINE start == [compared |-> 0, different |-> 0]
           text == Upto(Longer(one, two) \div size + 1)
           step(t, k) == CompareBuffer(one, two, size, silent, t, k)
           g == [t \in Tally |-> [k \in 1..n |-> step(t, k)]]
           fold(it) == [s \in SUBSET DOMAIN text |->
                          IF s = {} THEN start ELSE step(it[s \ {Max(s)}], text[Max(s)])]
           chosen == CHOOSE it : it = fold(it)
<1>1. Compare(one, two, size, silent) = chosen[DOMAIN text]
  BY DEF Compare, FoldLeft, MapThenFoldSet
<1>2. g \in [Tally -> [1..n -> Tally]] /\ start \in Tally
  <2>1. start \in Tally
    BY DEF Tally
  <2>2. \A t \in Tally, k \in 1..n : step(t, k) \in Tally
    BY BufferTyped
  <2> HIDE DEF step
  <2> QED
    BY <2>1, <2>2
<1> HIDE DEF step
<1>3. \A t \in Tally, k \in 1..n : g[t][k] = step(t, k)
  OBVIOUS
<1>4. text \in Seq(1..n) /\ Len(text) = n /\ \A k \in 1..n : text[k] = k
  BY UptoIs
<1> HIDE DEF g, text, start
<1>5. \A s \in SUBSET DOMAIN text : s # {} => text[Max(s)] \in 1..n /\ s \ {Max(s)} \in SUBSET DOMAIN text
  BY <1>4, LastIn
<1>6. PICK it \in [SUBSET DOMAIN text -> Tally] : Folds(it, Tally, start, g, text)
  BY <1>2, <1>4, FoldExists
<1>7. it = fold(it)
  BY <1>3, <1>5, <1>6 DEF Folds
<1>8. PICK end : end = fold(end) /\ chosen[DOMAIN text] = end[DOMAIN text]
  BY <1>7
<1> HIDE DEF chosen
<1>9. Folds(end, Tally, start, g, text)
  BY <1>3, <1>5, <1>8 DEF Folds
<1>10. Ends(end[DOMAIN text], Tally, 1..n, start, g, text)
  BY <1>2, <1>4, <1>9, FoldRuns
<1>11. PICK acc \in [0..n -> Tally] :
         /\ acc[0] = start /\ end[DOMAIN text] = acc[n]
         /\ \A k \in 1..n : acc[k - 1] \in Tally /\ acc[k] = g[acc[k - 1]][text[k]]
  <2>1. PICK acc \in [0..Len(text) -> Tally] :
          /\ acc[0] = start /\ end[DOMAIN text] = acc[Len(text)]
          /\ \A k \in 1..Len(text) : acc[k - 1] \in Tally /\ acc[k] = g[acc[k - 1]][text[k]]
    BY <1>10 DEF Ends
  <2>2. Len(text) = n
    BY <1>4
  <2> QED
    BY <2>1, <2>2
<1>12. ASSUME NEW k \in 1..n PROVE acc[k] = step(acc[k - 1], k)
  <2>1. PICK t \in Tally : t = acc[k - 1] /\ acc[k] = g[t][k]
    BY <1>4, <1>11
  <2> QED
    BY <1>3, <2>1
<1> QED
  BY <1>1, <1>8, <1>11, <1>12 DEF step, start, BufferByBuffer

(* cmp has compared all of the longer file in the end.                      *)
LEMMA CompareSees ==
  ASSUME NEW one \in Seq(Nat), NEW two \in Seq(Nat), NEW silent \in BOOLEAN, NEW size \in Nat \ {0}
  PROVE  Seen(one, two, silent, Longer(one, two), Compare(one, two, size, silent))
<1>1. PICK L \in Nat : L = Longer(one, two)
  BY LongerIs
<1>2. PICK n \in Nat : n = L \div size + 1 /\ (n - 1) * size <= L /\ L <= n * size
  <2>1. PICK q \in Nat : q = L \div size /\ q * size <= L /\ L <= (q + 1) * size
    BY EnoughBlocks
  <2>2. q + 1 \in Nat /\ (q + 1) - 1 = q
    OBVIOUS
  <2> QED
    BY <2>1, <2>2
<1>3. PICK acc : BufferByBuffer(acc, one, two, size, silent, n)
  BY <1>1, <1>2, BufferFold
<1>4. /\ acc[0] = [compared |-> 0, different |-> 0]
      /\ \A k \in 1..n : acc[k] = CompareBuffer(one, two, size, silent, acc[k - 1], k)
      /\ Compare(one, two, size, silent) = acc[n]
  BY <1>3 DEF BufferByBuffer
<1> DEFINE S == {k \in 0..n : Seen(one, two, silent, Smaller(k * size, L), acc[k])}
<1>5. 0..n \subseteq S
  <2>1. 0 \in S
    <3>1. Smaller(0 * size, L) = 0 /\ 0 \in 0..n
      BY DEF Smaller
    <3>2. DifferTo(one, two, 0) = {}
      BY DEF DifferTo
    <3>3. Cardinality(DifferTo(one, two, 0)) = 0
      BY <3>2, FS_EmptySet
    <3>4. Seen(one, two, silent, 0, acc[0])
      BY <1>4, <3>2, <3>3 DEF Seen, Tally
    <3> QED
      BY <3>1, <3>4
  <2>2. ASSUME NEW k \in 0..(n - 1), k \in S PROVE k + 1 \in S
    <3>1. PICK from \in Nat : from = k * size /\ (k + 1) * size = from + size /\ from <= L
      <4>1. k * size \in Nat /\ (k + 1) * size = k * size + size
        OBVIOUS
      <4>2. k * size <= (n - 1) * size
        OBVIOUS
      <4>3. (n - 1) * size \in Nat
        BY <1>2
      <4> QED
        BY <1>2, <4>1, <4>2, <4>3
    <3>2. k + 1 \in 1..n /\ k + 1 \in 0..n /\ (k + 1) - 1 = k
      OBVIOUS
    <3>3. Smaller(k * size, L) = from
      BY <3>1 DEF Smaller
    <3>4. Seen(one, two, silent, from, acc[k])
      BY <2>2, <3>3
    <3>5. ((k + 1) - 1) * size = from
      BY <3>1, <3>2
    <3>6. Seen(one, two, silent, Smaller(from + size, L), CompareBuffer(one, two, size, silent, acc[k], k + 1))
      BY <1>1, <3>1, <3>4, <3>5, BufferSeen
    <3> QED
      BY <1>4, <3>1, <3>2, <3>6
  <2> HIDE DEF S
  <2> QED
    BY <2>1, <2>2, CountingUp
<1>6. Smaller(n * size, L) = L
  <2>1. n * size \in Nat
    OBVIOUS
  <2> QED
    BY <1>2, <2>1 DEF Smaller
<1>7. Seen(one, two, silent, L, acc[n])
  BY <1>5, <1>6
<1> QED
  BY <1>1, <1>4, <1>7

(* No byte differs only of two files that are the same. *)
LEMMA NoneDiffers ==
  ASSUME NEW one \in Seq(Nat), NEW two \in Seq(Nat)
  PROVE  DifferTo(one, two, Longer(one, two)) = {} <=> one = two
<1>1. PICK x \in Nat, y \in Nat : x = Len(one) /\ y = Len(two)
  OBVIOUS
<1>2. PICK L \in Nat : L = Longer(one, two) /\ L = IF x >= y THEN x ELSE y
  BY <1>1 DEF Longer
<1>3. ASSUME DifferTo(one, two, L) = {} PROVE one = two
  <2>1. \A k \in 1..L : ~ (k > x) /\ ~ (k > y) /\ one[k] = two[k]
    BY <1>1, <1>3 DEF DifferTo, Differ
  <2>2. x = y
    <3>1. L = 0 \/ L \in 1..L
      OBVIOUS
    <3> QED
      BY <1>2, <2>1, <3>1
  <2>3. Len(one) = Len(two) /\ \A k \in 1..Len(one) : one[k] = two[k]
    BY <1>1, <1>2, <2>1, <2>2
  <2> QED
    BY <2>3, SeqEqual
<1>4. ASSUME one = two PROVE DifferTo(one, two, L) = {}
  BY <1>1, <1>2, <1>4 DEF DifferTo, Differ
<1> QED
  BY <1>2, <1>3, <1>4

(* The command line of cmp, argument by argument. *)
CmpState == [exit: 0..2, opts: SUBSET {"-t", "-s"}, size: Nat, names: Seq(Seq(Nat))]
CmpStart == [exit |-> Running, opts |-> {}, size |-> 4 * Kilo, names |-> <<>>]
CmpStep(s, a) == IF s.exit = Running THEN CmpArgument(s, a) ELSE s

LEMMA KiloIs == Kilo \in Nat \ {0}
BY TextAssumption

LEMMA CmpStops ==
  ASSUME NEW s \in CmpState, NEW status \in 0..2
  PROVE  Stop(s, status) \in CmpState
<1>1. Stop(s, status) = [exit |-> status, opts |-> s.opts, size |-> s.size, names |-> s.names]
  BY DEF CmpState, Stop
<1>2. s.opts \in SUBSET {"-t", "-s"} /\ s.size \in Nat /\ s.names \in Seq(Seq(Nat))
  BY DEF CmpState
<1> QED
  BY <1>1, <1>2 DEF CmpState

LEMMA CmpTyped ==
  /\ CmpStart \in CmpState
  /\ \A s \in CmpState, a \in Argument : CmpStep(s, a) \in CmpState
<1>1. CmpStart \in CmpState
  <2>1. 4 * Kilo \in Nat
    BY KiloIs
  <2> QED
    BY <2>1 DEF CmpStart, CmpState, Running
<1>2. ASSUME NEW s \in CmpState, NEW a \in Argument, s.exit = Running PROVE CmpArgument(s, a) \in CmpState
  <2>1. CASE a.o = "-?"
    <3>1. CmpArgument(s, a) = Stop(s, 0)
      BY <2>1 DEF CmpArgument
    <3> QED
      BY <3>1, CmpStops
  <2>2. CASE a.o \in {"-t", "-s"}
    BY <2>2 DEF CmpArgument, CmpState
  <2>3. CASE a.o = "-b"
    <3>1. CmpArgument(s, a) = IF a.n < 1 \/ a.n > 64 THEN Stop(s, 1) ELSE [s EXCEPT !.size = a.n * Kilo]
      BY <2>3 DEF CmpArgument
    <3>2. Stop(s, 1) \in CmpState
      BY CmpStops
    <3>3. ~ (a.n < 1 \/ a.n > 64) => a.n * Kilo \in Nat
      <4>1. a.n \in Int
        BY DEF Argument
      <4>2. PICK n \in Int : n = a.n
        BY <4>1
      <4> QED
        BY <4>2, KiloIs
    <3>4. ~ (a.n < 1 \/ a.n > 64) => [s EXCEPT !.size = a.n * Kilo] \in CmpState
      BY <3>3 DEF CmpState
    <3> QED
      BY <3>1, <3>2, <3>4
  <2>4. CASE a.o = "word"
    <3>1. CmpArgument(s, a) = IF Len(s.names) = 2 THEN Stop(s, 1) ELSE [s EXCEPT !.names = Append(@, a.v)]
      BY <2>4 DEF CmpArgument
    <3>2. Append(s.names, a.v) \in Seq(Seq(Nat))
      BY DEF CmpState, Argument
    <3> QED
      <4>1. [s EXCEPT !.names = Append(@, a.v)] \in CmpState
        BY <3>2 DEF CmpState
      <4> QED
        BY <3>1, <4>1, CmpStops
  <2>5. CASE a.o \notin {"-?", "-t", "-s", "-b", "word"}
    <3>1. CmpArgument(s, a) = Stop(s, 1)
      BY <2>5 DEF CmpArgument
    <3> QED
      BY <3>1, CmpStops
  <2> QED
    BY <2>1, <2>2, <2>3, <2>4, <2>5
<1> QED
  BY <1>1, <1>2 DEF CmpStep

CmpSteps(acc, args) ==
  /\ acc \in [0..Len(args) -> CmpState]
  /\ acc[0] = CmpStart
  /\ \A i \in 1..Len(args) : acc[i] = CmpStep(acc[i - 1], args[i])
  /\ Arguments(CmpArgument, CmpStart, args) = acc[Len(args)]

LEMMA CmpFold ==
  ASSUME NEW args \in Seq(Argument)
  PROVE  \E acc : CmpSteps(acc, args)
<1> DEFINE g == [s \in CmpState |-> [a \in Argument |-> CmpStep(s, a)]]
           fold(it) == [s \in SUBSET DOMAIN args |->
                          IF s = {} THEN CmpStart ELSE CmpStep(it[s \ {Max(s)}], args[Max(s)])]
           chosen == CHOOSE it : it = fold(it)
<1>1. Arguments(CmpArgument, CmpStart, args) = chosen[DOMAIN args]
  BY DEF Arguments, FoldLeft, MapThenFoldSet, CmpStep
<1>2. g \in [CmpState -> [Argument -> CmpState]] /\ CmpStart \in CmpState
  BY CmpTyped
<1>3. \A s \in CmpState, a \in Argument : g[s][a] = CmpStep(s, a)
  OBVIOUS
<1> HIDE DEF g
<1>5. \A s \in SUBSET DOMAIN args : s # {} => args[Max(s)] \in Argument /\ s \ {Max(s)} \in SUBSET DOMAIN args
  BY LastIn
<1>6. PICK it \in [SUBSET DOMAIN args -> CmpState] : Folds(it, CmpState, CmpStart, g, args)
  BY <1>2, FoldExists
<1>7. it = fold(it)
  BY <1>3, <1>5, <1>6 DEF Folds
<1>8. PICK end : end = fold(end) /\ chosen[DOMAIN args] = end[DOMAIN args]
  BY <1>7
<1> HIDE DEF chosen
<1>9. Folds(end, CmpState, CmpStart, g, args)
  BY <1>3, <1>5, <1>8 DEF Folds
<1>10. Ends(end[DOMAIN args], CmpState, Argument, CmpStart, g, args)
  BY <1>2, <1>9, FoldRuns
<1>11. PICK acc \in [0..Len(args) -> CmpState] :
         /\ acc[0] = CmpStart /\ end[DOMAIN args] = acc[Len(args)]
         /\ \A i \in 1..Len(args) : acc[i - 1] \in CmpState /\ args[i] \in Argument
                                    /\ acc[i] = g[acc[i - 1]][args[i]]
  BY <1>10 DEF Ends
<1>12. \A i \in 1..Len(args) : acc[i] = CmpStep(acc[i - 1], args[i])
  BY <1>3, <1>11
<1> QED
  BY <1>1, <1>8, <1>11, <1>12 DEF CmpSteps

(* After k arguments of a command line with words at i and j only.          *)
CmpRead(args, i, j, k, s) ==
  /\ s \in CmpState /\ s.exit = Running /\ s.size # 0
  /\ k < i => s.names = <<>>
  /\ i <= k /\ k < j => s.names = <<args[i].v>>
  /\ j <= k => s.names = <<args[i].v, args[j].v>>
  /\ \A o \in {"-t", "-s"} : o \in s.opts <=> \E m \in 1..k : args[m].o = o

LEMMA CmpReads ==
  ASSUME NEW args \in Seq(Argument), NEW i \in DOMAIN args, NEW j \in DOMAIN args, i < j,
         NEW k \in Nat, k + 1 \in DOMAIN args, args[k + 1].o \in {"-t", "-s", "-b", "word"},
         args[k + 1].o = "-b" => args[k + 1].n \in 1..64,
         args[k + 1].o = "word" <=> k + 1 \in {i, j},
         NEW s, CmpRead(args, i, j, k, s)
  PROVE  CmpRead(args, i, j, k + 1, CmpStep(s, args[k + 1]))
<1> DEFINE a == args[k + 1]
           t == CmpStep(s, a)
<1>1. a \in Argument /\ i \in Nat /\ j \in Nat
  OBVIOUS
<1>2. s \in CmpState /\ s.exit = Running /\ s.size # 0
  BY DEF CmpRead
<1>3. t \in CmpState /\ t = CmpArgument(s, a)
  BY <1>1, <1>2, CmpTyped DEF CmpStep
<1>4. \A o : (\E m \in 1..(k + 1) : args[m].o = o) <=> (\E m \in 1..k : args[m].o = o) \/ a.o = o
  <2>1. \A m : m \in 1..(k + 1) <=> m \in 1..k \/ m = k + 1
    OBVIOUS
  <2> QED
    BY <2>1
<1>5. /\ k < i => s.names = <<>>
      /\ i <= k /\ k < j => s.names = <<args[i].v>>
      /\ j <= k => s.names = <<args[i].v, args[j].v>>
      /\ \A o \in {"-t", "-s"} : o \in s.opts <=> \E m \in 1..k : args[m].o = o
  BY DEF CmpRead
<1> HIDE DEF t
<1>6. CASE a.o \in {"-t", "-s", "-b"}
  <2>1. k + 1 # i /\ k + 1 # j
    BY <1>6
  <2>2. t.names = s.names /\ t.exit = Running /\ t.size # 0
    <3>1. CASE a.o \in {"-t", "-s"}
      <4>1. t = [s EXCEPT !.opts = @ \cup {a.o}]
        BY <1>3, <3>1 DEF CmpArgument
      <4> QED
        BY <1>2, <4>1 DEF CmpState
    <3>2. CASE a.o = "-b"
      <4>1. PICK n \in 1..64 : n = a.n
        BY <3>2
      <4>2. t = IF a.n < 1 \/ a.n > 64 THEN Stop(s, 1) ELSE [s EXCEPT !.size = a.n * Kilo]
        BY <1>3, <3>2 DEF CmpArgument
      <4>3. ~ (n < 1 \/ n > 64) /\ n * Kilo # 0
        BY KiloIs
      <4>4. t = [s EXCEPT !.size = n * Kilo]
        BY <4>1, <4>2, <4>3
      <4> QED
        BY <1>2, <4>3, <4>4 DEF CmpState
    <3> QED
      BY <1>6, <3>1, <3>2
  <2>3. \A o \in {"-t", "-s"} : o \in t.opts <=> o \in s.opts \/ a.o = o
    <3>1. CASE a.o \in {"-t", "-s"}
      <4>1. t = [s EXCEPT !.opts = @ \cup {a.o}]
        BY <1>3, <3>1 DEF CmpArgument
      <4>2. t.opts = s.opts \cup {a.o}
        BY <1>2, <4>1 DEF CmpState
      <4> QED
        BY <4>2
    <3>2. CASE a.o = "-b"
      <4>1. t.opts = s.opts
        BY <1>2, <1>3, <3>2 DEF CmpArgument, CmpState, Stop
      <4> QED
        BY <3>2, <4>1
    <3> QED
      BY <1>6, <3>1, <3>2
  <2>4. /\ k + 1 < i => k < i
        /\ i <= k + 1 /\ k + 1 < j => i <= k /\ k < j
        /\ j <= k + 1 => j <= k
    BY <1>1, <2>1
  <2>5. /\ k + 1 < i => t.names = <<>>
        /\ i <= k + 1 /\ k + 1 < j => t.names = <<args[i].v>>
        /\ j <= k + 1 => t.names = <<args[i].v, args[j].v>>
    BY <1>5, <2>2, <2>4
  <2>6. \A o \in {"-t", "-s"} : o \in t.opts <=> \E m \in 1..(k + 1) : args[m].o = o
    BY <1>4, <1>5, <2>3
  <2>7. CmpRead(args, i, j, k + 1, t)
    BY <1>3, <2>2, <2>5, <2>6 DEF CmpRead
  <2> QED
    BY <2>7 DEF t
<1>7. CASE a.o = "word"
  <2>1. k + 1 = i \/ k + 1 = j
    BY <1>7
  <2>2. t = IF Len(s.names) = 2 THEN Stop(s, 1) ELSE [s EXCEPT !.names = Append(@, a.v)]
    BY <1>3, <1>7 DEF CmpArgument
  <2>3. s.names = IF k + 1 = i THEN <<>> ELSE <<args[i].v>>
    <3>1. k + 1 = i => k < i
      BY <1>1
    <3>2. k + 1 # i => i <= k /\ k < j
      BY <1>1, <2>1
    <3> QED
      BY <1>5, <3>1, <3>2
  <2>4. Len(s.names) # 2
    BY <2>3
  <2>5. t.names = Append(s.names, a.v) /\ t.exit = Running /\ t.size # 0 /\ t.opts = s.opts
    BY <1>2, <2>2, <2>4 DEF CmpState
  <2>6. t.names = IF k + 1 = i THEN <<args[i].v>> ELSE <<args[i].v, args[j].v>>
    BY <2>1, <2>3, <2>5
  <2>7. /\ k + 1 < i => FALSE
        /\ i <= k + 1 /\ k + 1 < j => k + 1 = i
        /\ j <= k + 1 => k + 1 # i
    BY <1>1, <2>1
  <2>8. /\ k + 1 < i => t.names = <<>>
        /\ i <= k + 1 /\ k + 1 < j => t.names = <<args[i].v>>
        /\ j <= k + 1 => t.names = <<args[i].v, args[j].v>>
    BY <2>6, <2>7
  <2>9. \A o \in {"-t", "-s"} : o \in t.opts <=> \E m \in 1..(k + 1) : args[m].o = o
    BY <1>4, <1>5, <1>7, <2>5
  <2>10. CmpRead(args, i, j, k + 1, t)
    BY <1>3, <2>5, <2>8, <2>9 DEF CmpRead
  <2> QED
    BY <2>10 DEF t
<1> QED
  BY <1>6, <1>7

LEMMA CmpReadsAll ==
  ASSUME NEW args \in Seq(Argument), NEW i \in DOMAIN args, NEW j \in DOMAIN args, i < j,
         \A m \in DOMAIN args : /\ args[m].o \in {"-t", "-s", "-b", "word"}
                                /\ args[m].o = "-b" => args[m].n \in 1..64
                                /\ args[m].o = "word" <=> m \in {i, j}
  PROVE  CmpRead(args, i, j, Len(args), Arguments(CmpArgument, CmpStart, args))
<1>1. PICK acc : CmpSteps(acc, args)
  BY CmpFold
<1>2. PICK n \in Nat : n = Len(args) /\ DOMAIN args = 1..n
  OBVIOUS
<1>3. /\ acc[0] = CmpStart /\ Arguments(CmpArgument, CmpStart, args) = acc[n]
      /\ \A k \in 1..n : acc[k] = CmpStep(acc[k - 1], args[k])
  BY <1>1, <1>2 DEF CmpSteps
<1> DEFINE S == {k \in 0..n : CmpRead(args, i, j, k, acc[k])}
<1>4. 0..n \subseteq S
  <2>1. 0 \in S
    <3>1. 0 < i /\ ~ (i <= 0) /\ ~ (j <= 0) /\ 0 \in 0..n
      BY <1>2
    <3>2. 4 * Kilo # 0
      BY KiloIs
    <3>3. \A o \in {"-t", "-s"} : ~ (\E m \in 1..0 : args[m].o = o)
      OBVIOUS
    <3>4. /\ CmpStart.exit = Running /\ CmpStart.size # 0
          /\ CmpStart.names = <<>> /\ CmpStart.opts = {}
      BY <3>2 DEF CmpStart
    <3>5. CmpRead(args, i, j, 0, CmpStart)
      BY <3>1, <3>3, <3>4, CmpTyped DEF CmpRead
    <3> QED
      BY <1>3, <3>1, <3>5
  <2>2. ASSUME NEW k \in 0..(n - 1), k \in S PROVE k + 1 \in S
    <3>1. k \in Nat /\ k + 1 \in DOMAIN args /\ k + 1 \in 0..n /\ k + 1 \in 1..n /\ (k + 1) - 1 = k
      BY <1>2
    <3>2. CmpRead(args, i, j, k, acc[k])
      BY <2>2
    <3>3. CmpRead(args, i, j, k + 1, CmpStep(acc[k], args[k + 1]))
      BY <3>1, <3>2, CmpReads
    <3> QED
      BY <1>3, <3>1, <3>3
  <2> HIDE DEF S
  <2> QED
    BY <1>2, <2>1, <2>2, CountingUp
<1>5. CmpRead(args, i, j, n, acc[n])
  BY <1>4
<1> QED
  BY <1>2, <1>3, <1>5

OnePair(args, disk, i, j) ==
  /\ args \in Seq(Argument) /\ i \in DOMAIN args /\ j \in DOMAIN args /\ i < j
  /\ \A m \in DOMAIN args : /\ args[m].o \in {"-t", "-s", "-b", "word"}
                            /\ args[m].o = "-b" => args[m].n \in 1..64
                            /\ args[m].o = "word" <=> m \in {i, j}
  /\ args[i].v \in DOMAIN disk /\ args[j].v \in DOMAIN disk
  /\ disk[args[i].v] \in Seq(Nat) /\ disk[args[j].v] \in Seq(Nat)
Has(args, o) == \E m \in DOMAIN args : args[m].o = o
Found(one, two) == Result("compared", Longer(one, two))
                     \o Result("different", Cardinality(DifferTo(one, two, Longer(one, two))))

(* Two names and the options are what cmp goes by. *)
LEMMA CmpLine ==
  ASSUME NEW args, NEW disk, NEW i, NEW j, OnePair(args, disk, i, j),
         NEW s, s = Arguments(CmpArgument, CmpStart, args)
  PROVE  /\ s.exit = Running /\ s.size \in Nat \ {0}
         /\ s.names = <<args[i].v, args[j].v>>
         /\ ("-s" \in s.opts) = Has(args, "-s") /\ ("-t" \in s.opts) = Has(args, "-t")
<1>1. /\ args \in Seq(Argument) /\ i \in DOMAIN args /\ j \in DOMAIN args /\ i < j
      /\ \A m \in DOMAIN args : /\ args[m].o \in {"-t", "-s", "-b", "word"}
                                /\ args[m].o = "-b" => args[m].n \in 1..64
                                /\ args[m].o = "word" <=> m \in {i, j}
  BY DEF OnePair
<1>2. PICK n \in Nat : n = Len(args) /\ DOMAIN args = 1..n
  BY <1>1
<1>3. i \in 1..n /\ j \in 1..n /\ i < j /\ j <= n
  BY <1>1, <1>2
<1>4. CmpRead(args, i, j, n, s)
  BY <1>1, <1>2, CmpReadsAll
<1>5. /\ s \in CmpState /\ s.exit = Running /\ s.size # 0
      /\ s.names = <<args[i].v, args[j].v>>
      /\ \A o \in {"-t", "-s"} : o \in s.opts <=> \E m \in 1..n : args[m].o = o
  BY <1>3, <1>4 DEF CmpRead
<1>6. /\ "-s" \in s.opts <=> Has(args, "-s")
      /\ "-t" \in s.opts <=> Has(args, "-t")
  BY <1>2, <1>5 DEF Has
<1>7. Has(args, "-s") \in BOOLEAN /\ Has(args, "-t") \in BOOLEAN
  BY DEF Has
<1>8. ("-s" \in s.opts) = Has(args, "-s")
  BY <1>6, <1>7
<1>9. ("-t" \in s.opts) = Has(args, "-t")
  BY <1>6, <1>7
<1> QED
  BY <1>5, <1>8, <1>9 DEF CmpState

LEMMA TwoNames ==
  ASSUME NEW x, NEW y, NEW names, names = <<x, y>>
  PROVE  /\ names[1] = x /\ names[2] = y /\ ~ (Len(names) < 2)
         /\ \A k \in DOMAIN names : names[k] \in {x, y}
OBVIOUS

LEMMA DifferNumber ==
  ASSUME NEW one, NEW two, NEW n \in Nat
  PROVE  Cardinality(DifferTo(one, two, n)) \in Nat
<1>1. DifferTo(one, two, n) \subseteq 1..n
  BY DEF DifferTo
<1>2. IsFiniteSet(1..n)
  BY FS_Interval
<1> QED
  BY <1>1, <1>2, FS_Subset, FS_CardinalityType

Numbered == [what: {"compared", "different"}, of: Nat]

LEMMA ResultTyped ==
  ASSUME NEW w \in {"compared", "different"}, NEW k \in Nat
  PROVE  Result(w, k) \in Seq(Numbered)
<1>1. [what |-> w, of |-> k] \in Numbered
  BY DEF Numbered
<1>2. \A r \in Numbered : <<r>> \in Seq(Numbered)
  OBVIOUS
<1> QED
  BY <1>1, <1>2 DEF Result

LEMMA FoundTyped ==
  ASSUME NEW one \in Seq(Nat), NEW two \in Seq(Nat)
  PROVE  Found(one, two) \in Seq(Numbered)
<1>1. PICK n \in Nat : n = Longer(one, two)
  BY LongerIs
<1>2. PICK d \in Nat : d = Cardinality(DifferTo(one, two, n))
  BY DifferNumber
<1>3. Result("compared", n) \in Seq(Numbered) /\ Result("different", d) \in Seq(Numbered)
  BY ResultTyped
<1>4. Result("compared", n) \o Result("different", d) \in Seq(Numbered)
  BY <1>3, ConcatProperties
<1> QED
  BY <1>1, <1>2, <1>4 DEF Found

(* What cmp says of two files. *)
CmpVerdict(jb, one, two) ==
  /\ Cmp(jb).exit = IF one = two THEN 0 ELSE 1
  /\ Cmp(jb).out = IF Has(jb.args, "-s") THEN <<>>
                   ELSE IF Has(jb.args, "-t") THEN Found(one, two)
                   ELSE IF one = two THEN <<"the same">> ELSE <<"not the same">> \o Found(one, two)

LEMMA CmpSays ==
  ASSUME NEW jb, NEW i, NEW j, OnePair(jb.args, jb.disk, i, j)
  PROVE  CmpVerdict(jb, jb.disk[jb.args[i].v], jb.disk[jb.args[j].v])
<1>0. PICK one, two : one = jb.disk[jb.args[i].v] /\ two = jb.disk[jb.args[j].v]
  OBVIOUS
<1>1. PICK s : s = Arguments(CmpArgument, CmpStart, jb.args)
  OBVIOUS
<1>2. PICK silent, totals : silent = Has(jb.args, "-s") /\ totals = Has(jb.args, "-t")
  OBVIOUS
<1>3. silent \in BOOLEAN /\ totals \in BOOLEAN
  BY <1>2 DEF Has
<1>4. PICK x, y : x = jb.args[i].v /\ y = jb.args[j].v
  OBVIOUS
<1>5. /\ s.exit = Running /\ s.size \in Nat \ {0} /\ s.names = <<x, y>>
      /\ ("-s" \in s.opts) = silent /\ ("-t" \in s.opts) = totals
  BY <1>1, <1>2, <1>4, CmpLine
<1>6. s.names[1] = x /\ s.names[2] = y /\ ~ (Len(s.names) < 2)
      /\ \A k \in DOMAIN s.names : s.names[k] \in {x, y}
  BY <1>5, TwoNames
<1>7. x \in DOMAIN jb.disk /\ y \in DOMAIN jb.disk /\ one \in Seq(Nat) /\ two \in Seq(Nat)
  BY <1>0, <1>4 DEF OnePair
<1>8. PICK t : t = Compare(one, two, s.size, silent)
  OBVIOUS
<1>9. ~ (Len(s.names) < 2 \/ \E k \in DOMAIN s.names : s.names[k] \notin DOMAIN jb.disk)
  BY <1>6, <1>7
<1> DEFINE verdict == IF totals THEN <<>> ELSE IF t.different = 0 THEN <<"the same">> ELSE <<"not the same">>
           counts == IF totals \/ t.different # 0
                       THEN Result("compared", t.compared) \o Result("different", t.different) ELSE <<>>
<1>10. Cmp(jb) = [exit |-> IF t.different = 0 THEN 0 ELSE 1,
                  out |-> IF silent THEN <<>> ELSE verdict \o counts]
  <2>1. Compare(jb.disk[s.names[1]], jb.disk[s.names[2]], s.size, "-s" \in s.opts) = t
    BY <1>0, <1>4, <1>5, <1>6, <1>8
  <2>2. ~ (s.exit # Running)
    BY <1>5
  <2> QED
    BY <1>1, <1>5, <1>9, <2>1, <2>2 DEF Cmp, CmpStart
<1>11. Seen(one, two, silent, Longer(one, two), t)
  BY <1>3, <1>5, <1>7, <1>8, CompareSees
<1>12. t.different = 0 <=> one = two
  BY <1>7, <1>11, NoneDiffers DEF Seen
<1>13. ~ silent => Result("compared", t.compared) \o Result("different", t.different) = Found(one, two)
  BY <1>11 DEF Seen, Found
<1>14. PICK found : found = Found(one, two) /\ <<>> \o found = found
  BY <1>7, FoundTyped, ConcatEmptySeq
<1>15. ~ silent => verdict \o counts = IF totals THEN found
                                       ELSE IF one = two THEN <<"the same">> ELSE <<"not the same">> \o found
  <2>1. SUFFICES ASSUME ~ silent
                 PROVE  verdict \o counts = IF totals THEN found
                                            ELSE IF one = two THEN <<"the same">> ELSE <<"not the same">> \o found
    OBVIOUS
  <2>2. CASE totals
    <3>1. verdict = <<>> /\ counts = found
      BY <1>13, <1>14, <2>1, <2>2
    <3> QED
      BY <1>14, <2>2, <3>1
  <2>3. CASE ~ totals /\ one = two
    <3>1. verdict = <<"the same">> /\ counts = <<>>
      BY <1>12, <2>3
    <3>2. \A w : <<w>> \in Seq({w})
      OBVIOUS
    <3>3. <<"the same">> \o <<>> = <<"the same">>
      BY <3>2, ConcatEmptySeq
    <3> QED
      BY <2>3, <3>1, <3>3
  <2>4. CASE ~ totals /\ one # two
    <3>1. verdict = <<"not the same">> /\ counts = found
      BY <1>12, <1>13, <1>14, <2>1, <2>4
    <3> QED
      BY <2>4, <3>1
  <2> QED
    BY <2>2, <2>3, <2>4
<1> HIDE DEF verdict, counts
<1>16. Cmp(jb).exit = IF t.different = 0 THEN 0 ELSE 1
  BY <1>10
<1>17. Cmp(jb).out = IF silent THEN <<>> ELSE verdict \o counts
  BY <1>10
<1> QED
  BY <1>0, <1>2, <1>12, <1>14, <1>15, <1>16, <1>17 DEF CmpVerdict

CmpAsked(i, j) ==
  /\ Ran("cmp") /\ Only({"-t", "-s", "-b", "word"})
  /\ \A m \in DOMAIN job.args : job.args[m].o = "-b" => job.args[m].n \in 1..64
  /\ i \in WordsAt /\ j \in WordsAt /\ i < j /\ WordsAt = {i, j}
  /\ job.args[i].v \in DOMAIN job.disk /\ job.args[j].v \in DOMAIN job.disk

LEMMA CmpAsks ==
  ASSUME Outcome, NEW i, NEW j, CmpAsked(i, j)
  PROVE  OnePair(job.args, job.disk, i, j) /\ out = Cmp(job)
<1>1. out = Cmp(job)
  BY DEF CmpAsked, Outcome
<1>2. /\ job.args \in Seq(Argument)
      /\ \A name \in DOMAIN job.disk : job.disk[name] \in Seq(Nat)
  BY ToolsAssumption DEF Outcome, Ran, CmpAsked
<1>3. /\ i \in DOMAIN job.args /\ j \in DOMAIN job.args /\ i < j
      /\ \A m \in DOMAIN job.args : /\ job.args[m].o \in {"-t", "-s", "-b", "word"}
                                    /\ job.args[m].o = "-b" => job.args[m].n \in 1..64
                                    /\ job.args[m].o = "word" <=> m \in {i, j}
      /\ job.args[i].v \in DOMAIN job.disk /\ job.args[j].v \in DOMAIN job.disk
  BY DEF CmpAsked, Only, WordsAt
<1> QED
  BY <1>1, <1>2, <1>3 DEF OnePair

LEMMA DifferentIs ==
  ASSUME NEW a \in Seq(Nat), NEW b \in Seq(Nat)
  PROVE  {k \in 1..Longer(a, b) : ~ (k \in DOMAIN a \cap DOMAIN b /\ a[k] = b[k])}
           = DifferTo(a, b, Longer(a, b))
<1>1. PICK x \in Nat, y \in Nat : x = Len(a) /\ y = Len(b) /\ DOMAIN a = 1..x /\ DOMAIN b = 1..y
  OBVIOUS
<1>2. PICK n \in Nat : n = Longer(a, b)
  BY LongerIs
<1>3. ASSUME NEW k \in 1..n
      PROVE  Differ(a, b, k) <=> ~ (k \in DOMAIN a \cap DOMAIN b /\ a[k] = b[k])
  <2>1. k \in DOMAIN a <=> ~ (k > x)
    BY <1>1
  <2>2. k \in DOMAIN b <=> ~ (k > y)
    BY <1>1
  <2>3. Differ(a, b, k) <=> k > x \/ k > y \/ a[k] # b[k]
    BY <1>1 DEF Differ
  <2> QED
    BY <2>1, <2>2, <2>3
<1> QED
  BY <1>2, <1>3 DEF DifferTo

LEMMA CmpIsRight == Outcome => CmpRight
<1> DEFINE says(i, j) ==
             LET a == job.disk[job.args[i].v]
                 b == job.disk[job.args[j].v]
                 all == 1..Longer(a, b)
                 different == Cardinality({k \in all : ~ (k \in DOMAIN a \cap DOMAIN b /\ a[k] = b[k])})
                 totals == Result("compared", Longer(a, b)) \o Result("different", different)
             IN /\ out.exit = IF a = b THEN 0 ELSE 1
                /\ out.out = IF Given("-s") THEN <<>>
                             ELSE IF Given("-t") THEN totals
                             ELSE IF a = b THEN <<"the same">> ELSE <<"not the same">> \o totals
<1> SUFFICES ASSUME Outcome PROVE CmpRight
  OBVIOUS
<1>1. ASSUME NEW i, NEW j, CmpAsked(i, j) PROVE says(i, j)
  <2>1. OnePair(job.args, job.disk, i, j) /\ out = Cmp(job)
    BY <1>1, CmpAsks
  <2>2. PICK a, b : a = job.disk[job.args[i].v] /\ b = job.disk[job.args[j].v]
    OBVIOUS
  <2>3. a \in Seq(Nat) /\ b \in Seq(Nat)
    BY <2>1, <2>2 DEF OnePair
  <2>4. Given("-s") = Has(job.args, "-s") /\ Given("-t") = Has(job.args, "-t")
    BY DEF Given, Has
  <2>5. /\ Cmp(job).exit = IF a = b THEN 0 ELSE 1
        /\ Cmp(job).out = IF Has(job.args, "-s") THEN <<>>
                          ELSE IF Has(job.args, "-t") THEN Found(a, b)
                          ELSE IF a = b THEN <<"the same">> ELSE <<"not the same">> \o Found(a, b)
    <3>1. CmpVerdict(job, a, b)
      BY <2>1, <2>2, CmpSays
    <3> QED
      BY <3>1 DEF CmpVerdict
  <2>6. Result("compared", Longer(a, b))
          \o Result("different", Cardinality({k \in 1..Longer(a, b) :
                                                ~ (k \in DOMAIN a \cap DOMAIN b /\ a[k] = b[k])}))
        = Found(a, b)
    BY <2>3, DifferentIs DEF Found
  <2> QED
    BY <2>1, <2>2, <2>4, <2>5, <2>6
<1> HIDE DEF says
<1>2. ASSUME Ran("cmp") /\ Only({"-t", "-s", "-b", "word"}),
             \A m \in DOMAIN job.args : job.args[m].o = "-b" => job.args[m].n \in 1..64,
             NEW i \in WordsAt, NEW j \in WordsAt,
             i < j /\ WordsAt = {i, j} /\ {job.args[i].v, job.args[j].v} \subseteq DOMAIN job.disk
      PROVE  says(i, j)
  BY <1>1, <1>2 DEF CmpAsked
<1> QED
  BY <1>2 DEF CmpRight, says

-----------------------------------------------------------------------------
(* tee: what it has given every output when n bytes have come in. *)
Lead(text, n) == SubSeq(text, 1, n)

LEMMA Prefix ==
  ASSUME NEW S, NEW s \in Seq(S), NEW n \in Int, n <= Len(s)
  PROVE  /\ SubSeq(s, 1, n) \in Seq(S)
         /\ Len(SubSeq(s, 1, n)) = IF n < 0 THEN 0 ELSE n
         /\ \A i \in 1..n : SubSeq(s, 1, n)[i] = s[i]
<1>1. PICK l \in Nat : l = Len(s) /\ \A i \in 1..l : s[i] \in S
  OBVIOUS
<1>2. n <= l
  BY <1>1
<1>3. \A i \in 1..n : s[i] \in S
  BY <1>1, <1>2
<1>4. /\ SubSeq(s, 1, n) \in Seq(S)
      /\ Len(SubSeq(s, 1, n)) = IF 1 <= n THEN n - 1 + 1 ELSE 0
      /\ \A i \in 1..(n - 1 + 1) : SubSeq(s, 1, n)[i] = s[1 + i - 1]
  BY <1>3, SubSeqProperties
<1>5. /\ (IF 1 <= n THEN n - 1 + 1 ELSE 0) = (IF n < 0 THEN 0 ELSE n)
      /\ n - 1 + 1 = n /\ \A i \in 1..n : 1 + i - 1 = i
  OBVIOUS
<1> QED
  BY <1>4, <1>5

LEMMA LeadIs ==
  ASSUME NEW S, NEW text \in Seq(S), NEW n \in Nat, n <= Len(text)
  PROVE  /\ Lead(text, n) \in Seq(S) /\ Len(Lead(text, n)) = n
         /\ \A i \in 1..n : Lead(text, n)[i] = text[i]
<1>1. n \in Int /\ ~ (n < 0)
  OBVIOUS
<1> QED
  BY <1>1, Prefix DEF Lead

LEMMA LeadAll ==
  ASSUME NEW text \in Seq(Nat)
  PROVE  Lead(text, Len(text)) = text
<1>1. PICK n \in Nat : n = Len(text)
  OBVIOUS
<1>2. n <= Len(text)
  BY <1>1
<1>3. PICK lead : lead = Lead(text, n)
  OBVIOUS
<1>4. lead \in Seq(Nat) /\ Len(lead) = n /\ \A i \in 1..n : lead[i] = text[i]
  BY <1>2, <1>3, LeadIs
<1>5. Len(lead) = Len(text) /\ \A i \in 1..Len(lead) : lead[i] = text[i]
  BY <1>1, <1>4
<1>6. lead = text
  BY <1>4, <1>5, SeqEqual
<1> QED
  BY <1>1, <1>3, <1>6

Joined(a, b) == a \o b

LEMMA JoinedIs ==
  ASSUME NEW a \in Seq(Nat), NEW b \in Seq(Nat)
  PROVE  /\ Joined(a, b) \in Seq(Nat) /\ Len(Joined(a, b)) = Len(a) + Len(b)
         /\ \A i \in 1..(Len(a) + Len(b)) : Joined(a, b)[i] = IF i <= Len(a) THEN a[i] ELSE b[i - Len(a)]
BY ConcatProperties DEF Joined

(* A block more. *)
LEMMA LeadMore ==
  ASSUME NEW text \in Seq(Nat), NEW from \in Nat, NEW block \in Seq(Nat),
         from + Len(block) <= Len(text), \A i \in 1..Len(block) : block[i] = text[from + i]
  PROVE  Joined(Lead(text, from), block) = Lead(text, from + Len(block))
<1>1. PICK len \in Nat, L \in Nat : len = Len(block) /\ L = Len(text) /\ from + len <= L
  OBVIOUS
<1>2. PICK n \in Nat : n = from + len /\ n <= L /\ from <= L
  BY <1>1
<1>3. PICK old : old = Lead(text, from) /\ old \in Seq(Nat) /\ Len(old) = from
                 /\ \A i \in 1..from : old[i] = text[i]
  BY <1>1, <1>2, LeadIs
<1>4. PICK new : new = Lead(text, n) /\ new \in Seq(Nat) /\ Len(new) = n
                 /\ \A i \in 1..n : new[i] = text[i]
  BY <1>1, <1>2, LeadIs
<1>5. PICK joined : /\ joined = Joined(old, block) /\ joined \in Seq(Nat) /\ Len(joined) = Len(old) + Len(block)
                    /\ \A i \in 1..(Len(old) + Len(block)) :
                         joined[i] = IF i <= Len(old) THEN old[i] ELSE block[i - Len(old)]
  <2>1. old \in Seq(Nat) /\ block \in Seq(Nat)
    BY <1>3
  <2>2. PICK j : j = Joined(old, block)
    OBVIOUS
  <2>3. j \in Seq(Nat) /\ Len(j) = Len(old) + Len(block)
    BY <2>1, <2>2, JoinedIs
  <2>4. \A i \in 1..(Len(old) + Len(block)) : j[i] = IF i <= Len(old) THEN old[i] ELSE block[i - Len(old)]
    BY <2>1, <2>2, JoinedIs
  <2> QED
    BY <2>2, <2>3, <2>4
<1>6. Len(joined) = n /\ \A i \in 1..n : joined[i] = IF i <= from THEN old[i] ELSE block[i - from]
  BY <1>1, <1>2, <1>3, <1>5
<1>7. ASSUME NEW i \in 1..n PROVE joined[i] = new[i]
  <2>1. CASE i <= from
    <3>1. joined[i] = text[i]
      BY <1>3, <1>6, <2>1
    <3> QED
      BY <1>4, <3>1
  <2>2. CASE ~ (i <= from)
    <3>1. i - from \in 1..len /\ from + (i - from) = i
      BY <1>2, <2>2
    <3>2. joined[i] = block[i - from]
      BY <1>6, <2>2
    <3>3. block[i - from] = text[from + (i - from)]
      BY <1>1, <3>1
    <3> QED
      BY <1>4, <3>1, <3>2, <3>3
  <2> QED
    BY <2>1, <2>2
<1>8. joined = new
  BY <1>4, <1>5, <1>6, <1>7, SeqEqual
<1>9. n = from + Len(block)
  BY <1>1, <1>2
<1> QED
  BY <1>3, <1>4, <1>5, <1>8, <1>9

(* What a stream has tried to write: no more than it was given, and all but *)
(* a part of its buffer.                                                    *)
LEMMA EmittedIs ==
  ASSUME NEW n \in Nat, NEW b \in Nat \ {0}
  PROVE  Emitted(n, b) \in Nat /\ Emitted(n, b) <= n /\ n - Emitted(n, b) < b
<1>1. PICK r \in Int : r = n % b /\ 0 <= r /\ r < b /\ r <= n
  <2>1. n % b \in 0..(b - 1)
    OBVIOUS
  <2>2. n = (n \div b) * b + (n % b) /\ n \div b >= 0
    OBVIOUS
  <2>3. PICK q \in Nat, r \in 0..(b - 1) : q = n \div b /\ r = n % b /\ n = q * b + r
    BY <2>1, <2>2
  <2>4. q * b >= 0
    OBVIOUS
  <2>5. r <= n
    BY <2>3, <2>4
  <2> QED
    BY <2>3, <2>5
<1>2. Emitted(n, b) = n - r
  BY <1>1 DEF Emitted
<1>3. n - r \in Nat /\ n - r <= n /\ n - (n - r) < b
  BY <1>1
<1> QED
  BY <1>2, <1>3

TeeOut(P) == [given: [P -> Seq(Nat)], status: 0..1]
TeeNone(P) == [given |-> [p \in P |-> <<>>], status |-> 0]
TeeRooms(jb, P) == \A p \in P : jb.room[p] \in Nat /\ jb.buffer[p] \in Nat \ {0}

TeeGiven(P, s, block) == [p \in P |-> s.given[p] \o block]
TeeFails(P, given, jb) == \E p \in P : Emitted(Len(given[p]), jb.buffer[p]) > jb.room[p]

LEMMA TeeBlockIs ==
  ASSUME NEW P, NEW s \in TeeOut(P), NEW block, NEW jb
  PROVE  TeeBlock(s, block, jb)
           = [given |-> TeeGiven(P, s, block),
              status |-> IF TeeFails(P, TeeGiven(P, s, block), jb) THEN 1 ELSE s.status]
<1>1. DOMAIN s.given = P
  BY DEF TeeOut
<1>2. TeeGiven(P, s, block) = [n \in DOMAIN s.given |-> s.given[n] \o block] /\ DOMAIN TeeGiven(P, s, block) = P
  BY <1>1 DEF TeeGiven
<1> QED
  BY <1>2 DEF TeeBlock, TeeFails

LEMMA TeeTyped ==
  ASSUME NEW P, NEW jb, NEW s \in TeeOut(P), NEW block \in Seq(Nat)
  PROVE  TeeBlock(s, block, jb) \in TeeOut(P)
<1>1. s.status \in 0..1 /\ \A p \in P : s.given[p] \in Seq(Nat)
  BY DEF TeeOut
<1>2. \A p \in P : s.given[p] \o block \in Seq(Nat)
  BY <1>1, JoinedIs DEF Joined
<1>3. TeeGiven(P, s, block) \in [P -> Seq(Nat)]
  BY <1>2 DEF TeeGiven
<1>4. (IF TeeFails(P, TeeGiven(P, s, block), jb) THEN 1 ELSE s.status) \in 0..1
  BY <1>1
<1> QED
  BY <1>3, <1>4, TeeBlockIs DEF TeeOut

(* What tee has done when n bytes have come in: every output was given all  *)
(* of them, and the status tells whether a buffer did not get out.          *)
Come(P, jb, text, n, s) ==
  /\ s \in TeeOut(P)
  /\ \A p \in P : s.given[p] = Lead(text, n)
  /\ s.status = 1 => \E p \in P : n > jb.room[p]
  /\ s.status = 0 => \A p \in P : Emitted(n, jb.buffer[p]) <= jb.room[p]

LEMMA TeeComes ==
  ASSUME NEW P, NEW jb, TeeRooms(jb, P), NEW text \in Seq(Nat), NEW from \in Nat,
         NEW s, Come(P, jb, text, from, s), NEW block \in Seq(Nat),
         from + Len(block) <= Len(text), \A i \in 1..Len(block) : block[i] = text[from + i]
  PROVE  Come(P, jb, text, from + Len(block), TeeBlock(s, block, jb))
<1>1. PICK n \in Nat : n = from + Len(block) /\ from <= n /\ n <= Len(text)
  OBVIOUS
<1>2. s \in TeeOut(P) /\ \A p \in P : s.given[p] = Lead(text, from)
  BY DEF Come
<1> DEFINE given == TeeGiven(P, s, block)
           t == TeeBlock(s, block, jb)
<1>3. \A p \in P : given[p] = Lead(text, n)
  <2>1. Joined(Lead(text, from), block) = Lead(text, n)
    BY <1>1, LeadMore
  <2> QED
    BY <1>2, <2>1 DEF TeeGiven, Joined
<1>4. Len(Lead(text, n)) = n
  BY <1>1, LeadIs
<1>5. t.given = given /\ t.status = IF TeeFails(P, given, jb) THEN 1 ELSE s.status
  BY <1>2, TeeBlockIs
<1>6. t \in TeeOut(P)
  BY <1>2, TeeTyped
<1>7. TeeFails(P, given, jb) <=> \E p \in P : Emitted(n, jb.buffer[p]) > jb.room[p]
  <2>1. \A p \in P : Len(given[p]) = n
    BY <1>3, <1>4
  <2> HIDE DEF given
  <2> QED
    BY <2>1 DEF TeeFails
<1> HIDE DEF given, t
<1>8. ASSUME NEW p \in P, Emitted(n, jb.buffer[p]) > jb.room[p] PROVE n > jb.room[p]
  <2>1. PICK r \in Nat, b \in Nat \ {0} : r = jb.room[p] /\ b = jb.buffer[p]
    BY DEF TeeRooms
  <2>2. PICK e \in Nat : e = Emitted(n, b) /\ e <= n
    BY EmittedIs
  <2>3. e > r
    BY <1>8, <2>1, <2>2
  <2>4. n > r
    BY <2>2, <2>3
  <2> QED
    BY <2>1, <2>4
<1>9. ASSUME t.status = 1 PROVE \E p \in P : n > jb.room[p]
  <2>1. CASE TeeFails(P, given, jb)
    BY <1>7, <1>8, <2>1
  <2>2. CASE ~ TeeFails(P, given, jb)
    <3>1. s.status = 1
      BY <1>5, <1>9, <2>2
    <3>2. PICK p \in P : from > jb.room[p]
      BY <3>1 DEF Come
    <3>3. PICK r \in Nat : r = jb.room[p]
      BY DEF TeeRooms
    <3>4. n > r
      BY <1>1, <3>2, <3>3
    <3> QED
      BY <3>3, <3>4
  <2> QED
    BY <2>1, <2>2
<1>10. ASSUME t.status = 0, NEW p \in P PROVE Emitted(n, jb.buffer[p]) <= jb.room[p]
  <2>1. ~ TeeFails(P, given, jb)
    BY <1>5, <1>10
  <2>2. ~ (Emitted(n, jb.buffer[p]) > jb.room[p])
    BY <1>7, <2>1
  <2>3. PICK r \in Nat, b \in Nat \ {0} : r = jb.room[p] /\ b = jb.buffer[p]
    BY DEF TeeRooms
  <2>4. PICK e \in Nat : e = Emitted(n, b)
    BY EmittedIs
  <2>5. ~ (e > r)
    BY <2>2, <2>3, <2>4
  <2>6. e <= r
    BY <2>5
  <2> QED
    BY <2>3, <2>4, <2>6
<1>11. Come(P, jb, text, n, t)
  BY <1>3, <1>5, <1>6, <1>9, <1>10 DEF Come
<1> QED
  BY <1>1, <1>11 DEF t

TeeAll(jb, P) ==
  FoldLeft(LAMBDA t, k : TeeBlock(t, Buffer(jb.stdin, BlockMax, k), jb), TeeNone(P),
           Upto(Len(jb.stdin) \div BlockMax + 1))

BlockByBlock(acc, jb, P, n) ==
  /\ acc \in [0..n -> TeeOut(P)]
  /\ acc[0] = TeeNone(P)
  /\ \A k \in 1..n : acc[k] = TeeBlock(acc[k - 1], Buffer(jb.stdin, BlockMax, k), jb)
  /\ TeeAll(jb, P) = acc[n]

LEMMA TeeFold ==
  ASSUME NEW P, NEW jb, jb.stdin \in Seq(Nat),
         NEW n \in Nat, n = Len(jb.stdin) \div BlockMax + 1
  PROVE  \E acc : BlockByBlock(acc, jb, P, n)
<1> DEFINE start == TeeNone(P)
           all == Upto(Len(jb.stdin) \div BlockMax + 1)
           step(t, k) == TeeBlock(t, Buffer(jb.stdin, BlockMax, k), jb)
           g == [t \in TeeOut(P) |-> [k \in 1..n |-> step(t, k)]]
           fold(it) == [s \in SUBSET DOMAIN all |->
                          IF s = {} THEN start ELSE step(it[s \ {Max(s)}], all[Max(s)])]
           chosen == CHOOSE it : it = fold(it)
<1>1. TeeAll(jb, P) = chosen[DOMAIN all]
  BY DEF TeeAll, FoldLeft, MapThenFoldSet
<1>2. g \in [TeeOut(P) -> [1..n -> TeeOut(P)]] /\ start \in TeeOut(P)
  <2>1. start \in TeeOut(P)
    BY DEF TeeOut, TeeNone
  <2>2. ASSUME NEW t \in TeeOut(P), NEW k \in 1..n PROVE step(t, k) \in TeeOut(P)
    <3>1. PICK size \in Nat : size = BlockMax
      BY TextAssumption
    <3>2. PICK m \in Nat : m = (k - 1) * size /\ k * size = m + size
      BY Blocks
    <3>3. (k - 1) * size = m
      BY <3>2
    <3>4. Buffer(jb.stdin, size, k) \in Seq(Nat)
      BY <3>2, <3>3, BufferIs
    <3> QED
      BY <3>1, <3>4, TeeTyped
  <2> HIDE DEF step
  <2> QED
    BY <2>1, <2>2
<1> HIDE DEF step
<1>3. \A t \in TeeOut(P), k \in 1..n : g[t][k] = step(t, k)
  OBVIOUS
<1>4. all \in Seq(1..n) /\ Len(all) = n /\ \A k \in 1..n : all[k] = k
  BY UptoIs
<1> HIDE DEF g, all, start
<1>5. \A s \in SUBSET DOMAIN all : s # {} => all[Max(s)] \in 1..n /\ s \ {Max(s)} \in SUBSET DOMAIN all
  BY <1>4, LastIn
<1>6. PICK it \in [SUBSET DOMAIN all -> TeeOut(P)] : Folds(it, TeeOut(P), start, g, all)
  BY <1>2, <1>4, FoldExists
<1>7. it = fold(it)
  BY <1>3, <1>5, <1>6 DEF Folds
<1>8. PICK end : end = fold(end) /\ chosen[DOMAIN all] = end[DOMAIN all]
  BY <1>7
<1> HIDE DEF chosen
<1>9. Folds(end, TeeOut(P), start, g, all)
  BY <1>3, <1>5, <1>8 DEF Folds
<1>10. Ends(end[DOMAIN all], TeeOut(P), 1..n, start, g, all)
  BY <1>2, <1>4, <1>9, FoldRuns
<1>11. PICK acc \in [0..n -> TeeOut(P)] :
         /\ acc[0] = start /\ end[DOMAIN all] = acc[n]
         /\ \A k \in 1..n : acc[k - 1] \in TeeOut(P) /\ acc[k] = g[acc[k - 1]][all[k]]
  <2>1. PICK acc \in [0..Len(all) -> TeeOut(P)] :
          /\ acc[0] = start /\ end[DOMAIN all] = acc[Len(all)]
          /\ \A k \in 1..Len(all) : acc[k - 1] \in TeeOut(P) /\ acc[k] = g[acc[k - 1]][all[k]]
    BY <1>10 DEF Ends
  <2>2. Len(all) = n
    BY <1>4
  <2> QED
    BY <2>1, <2>2
<1>12. ASSUME NEW k \in 1..n PROVE acc[k] = step(acc[k - 1], k)
  <2>1. PICK t \in TeeOut(P) : t = acc[k - 1] /\ acc[k] = g[t][k]
    BY <1>4, <1>11
  <2> QED
    BY <1>3, <2>1
<1> QED
  BY <1>1, <1>8, <1>11, <1>12 DEF step, start, BlockByBlock

(* The block of a text that begins behind its first bytes. *)
NextBlock(block, text, size, from) ==
  /\ block \in Seq(Nat)
  /\ from + Len(block) = Smaller(from + size, Len(text))
  /\ \A i \in 1..Len(block) : block[i] = text[from + i]

LEMMA BlockIsNext ==
  ASSUME NEW text \in Seq(Nat), NEW size \in Nat, NEW k, NEW from \in Nat,
         (k - 1) * size = from, k * size = from + size, from <= Len(text)
  PROVE  NextBlock(Buffer(text, size, k), text, size, from)
<1>1. PICK L \in Nat : L = Len(text)
  OBVIOUS
<1>2. PICK block : block = Buffer(text, size, k)
  OBVIOUS
<1>3. block \in Seq(Nat)
  BY <1>2, BufferIs
<1>4. Len(block) = IF Len(text) <= from THEN 0 ELSE IF Len(text) <= from + size THEN Len(text) - from ELSE size
  BY <1>2, BufferIs
<1>5. \A i \in 1..Len(block) : block[i] = text[from + i]
  BY <1>2, BufferIs
<1>6. PICK len \in Nat : len = Len(block)
  BY <1>3
<1>7. len = IF L <= from THEN 0 ELSE IF L <= from + size THEN L - from ELSE size
  BY <1>1, <1>4, <1>6
<1>8. from + len = IF from + size <= L THEN from + size ELSE L
  BY <1>1, <1>7
<1>9. from + Len(block) = Smaller(from + size, Len(text))
  BY <1>1, <1>6, <1>8 DEF Smaller
<1> QED
  BY <1>2, <1>3, <1>5, <1>9 DEF NextBlock

(* All of standard input has come in when tee is done. *)
LEMMA TeeAllComes ==
  ASSUME NEW P, NEW jb, TeeRooms(jb, P), NEW text \in Seq(Nat), text = jb.stdin
  PROVE  Come(P, jb, text, Len(text), TeeAll(jb, P))
<1>1. PICK L \in Nat, B \in Nat \ {0} : L = Len(text) /\ B = BlockMax
  BY TextAssumption
<1>2. PICK n \in Nat : n = L \div B + 1 /\ (n - 1) * B <= L /\ L <= n * B
  <2>1. PICK q \in Nat : q = L \div B /\ q * B <= L /\ L <= (q + 1) * B
    BY EnoughBlocks
  <2>2. q + 1 \in Nat /\ (q + 1) - 1 = q
    OBVIOUS
  <2> QED
    BY <2>1, <2>2
<1>3. PICK acc : BlockByBlock(acc, jb, P, n)
  BY <1>1, <1>2, TeeFold
<1>4. /\ acc[0] = TeeNone(P)
      /\ \A k \in 1..n : acc[k] = TeeBlock(acc[k - 1], Buffer(text, B, k), jb)
      /\ TeeAll(jb, P) = acc[n]
  BY <1>1, <1>3 DEF BlockByBlock
<1> DEFINE S == {k \in 0..n : Come(P, jb, text, Smaller(k * B, L), acc[k])}
<1>5. 0..n \subseteq S
  <2>1. 0 \in S
    <3>1. Smaller(0 * B, L) = 0 /\ 0 \in 0..n
      BY DEF Smaller
    <3>2. Lead(text, 0) = <<>>
      BY SubSeqEmpty DEF Lead
    <3>3. \A p \in P : Emitted(0, jb.buffer[p]) <= jb.room[p]
      <4> SUFFICES ASSUME NEW p \in P PROVE Emitted(0, jb.buffer[p]) <= jb.room[p]
        OBVIOUS
      <4>1. PICK r \in Nat, b \in Nat \ {0} : r = jb.room[p] /\ b = jb.buffer[p]
        BY DEF TeeRooms
      <4>2. PICK e \in Nat : e = Emitted(0, b) /\ e <= 0
        BY EmittedIs
      <4>3. e <= r
        BY <4>2
      <4> QED
        BY <4>1, <4>2, <4>3
    <3>4. TeeNone(P) \in TeeOut(P) /\ TeeNone(P).status = 0 /\ \A p \in P : TeeNone(P).given[p] = <<>>
      BY DEF TeeNone, TeeOut
    <3>5. Come(P, jb, text, 0, TeeNone(P))
      BY <3>2, <3>3, <3>4 DEF Come
    <3> QED
      BY <1>4, <3>1, <3>5
  <2>2. ASSUME NEW k \in 0..(n - 1), k \in S PROVE k + 1 \in S
    <3>1. PICK from \in Nat : from = k * B /\ (k + 1) * B = from + B /\ from <= L
      <4>1. k * B \in Nat /\ (k + 1) * B = k * B + B
        OBVIOUS
      <4>2. k * B <= (n - 1) * B
        OBVIOUS
      <4>3. (n - 1) * B \in Nat
        BY <1>2
      <4> QED
        BY <1>2, <4>1, <4>2, <4>3
    <3>2. k + 1 \in 1..n /\ k + 1 \in 0..n /\ (k + 1) - 1 = k
      OBVIOUS
    <3>3. Smaller(k * B, L) = from
      BY <3>1 DEF Smaller
    <3>4. Come(P, jb, text, from, acc[k])
      BY <2>2, <3>3
    <3>5. PICK K \in Nat : K = k + 1 /\ (K - 1) * B = from /\ K * B = from + B
      BY <3>1, <3>2
    <3>6. PICK block : block = Buffer(text, B, K)
      OBVIOUS
    <3>7. NextBlock(block, text, B, from)
      BY <1>1, <3>1, <3>5, <3>6, BlockIsNext
    <3>8. PICK len \in Nat : len = Len(block) /\ from + len = Smaller(from + B, L) /\ from + len <= L
      <4>1. PICK len \in Nat : len = Len(block)
        BY <3>7 DEF NextBlock
      <4>2. from + Len(block) = Smaller(from + B, Len(text))
        BY <3>7 DEF NextBlock
      <4>3. from + len = Smaller(from + B, L)
        BY <1>1, <4>1, <4>2
      <4> QED
        BY <4>1, <4>3 DEF Smaller
    <3>9. from + len = Smaller(from + B, L) /\ from + len <= L
      BY <3>8
    <3>10. from + Len(block) <= Len(text)
      BY <1>1, <3>8, <3>9
    <3>11. Come(P, jb, text, from + Len(block), TeeBlock(acc[k], block, jb))
      BY <3>4, <3>7, <3>10, TeeComes DEF NextBlock
    <3>12. Come(P, jb, text, Smaller((k + 1) * B, L), acc[k + 1])
      BY <1>4, <3>1, <3>2, <3>5, <3>6, <3>8, <3>9, <3>11
    <3> QED
      BY <3>2, <3>12
  <2> HIDE DEF S
  <2> QED
    BY <2>1, <2>2, CountingUp
<1>6. Smaller(n * B, L) = L
  <2>1. n * B \in Nat
    OBVIOUS
  <2> QED
    BY <1>2, <2>1 DEF Smaller
<1>7. Come(P, jb, text, L, acc[n])
  BY <1>5, <1>6
<1> QED
  BY <1>1, <1>4, <1>7

(* The command line of tee. *)
TeeState == [exit: 0..2, paths: Seq(Seq(Nat))]
TeeStart == [exit |-> Running, paths |-> <<>>]
TeeStep(jb, s, a) == IF s.exit = Running THEN TeeArgument(jb, s, a) ELSE s

LEMMA TeeStepTyped ==
  ASSUME NEW jb, NEW s \in TeeState, NEW a \in Argument
  PROVE  TeeStep(jb, s, a) \in TeeState
<1>1. \A status \in 0..2 : Stop(s, status) \in TeeState
  BY DEF Stop, TeeState
<1>2. CASE s.exit = Running
  <2>1. TeeStep(jb, s, a) = TeeArgument(jb, s, a)
    BY <1>2 DEF TeeStep
  <2>2. CASE a.o = "-?"
    BY <1>1, <2>1, <2>2 DEF TeeArgument
  <2>3. CASE a.o = "word"
    <3>1. TeeArgument(jb, s, a) = IF Len(s.paths) = 16 \/ a.v \notin DOMAIN jb.room THEN Stop(s, 1)
                                  ELSE [s EXCEPT !.paths = Append(@, a.v)]
      BY <2>3 DEF TeeArgument
    <3>2. Append(s.paths, a.v) \in Seq(Seq(Nat))
      BY DEF TeeState, Argument
    <3>3. [s EXCEPT !.paths = Append(@, a.v)] \in TeeState
      BY <3>2 DEF TeeState
    <3> QED
      BY <1>1, <2>1, <3>1, <3>3
  <2>4. CASE a.o \notin {"-?", "word"}
    <3>1. TeeArgument(jb, s, a) = Stop(s, 1)
      BY <2>4 DEF TeeArgument
    <3> QED
      BY <1>1, <2>1, <3>1
  <2> QED
    BY <2>2, <2>3, <2>4
<1> QED
  BY <1>2 DEF TeeStep

TeeArguments(jb) == Arguments(LAMBDA t, a : TeeArgument(jb, t, a), TeeStart, jb.args)

TeeSteps(acc, jb, args) ==
  /\ acc \in [0..Len(args) -> TeeState]
  /\ acc[0] = TeeStart
  /\ \A i \in 1..Len(args) : acc[i] = TeeStep(jb, acc[i - 1], args[i])
  /\ TeeArguments(jb) = acc[Len(args)]

LEMMA TeeArgsFold ==
  ASSUME NEW jb, NEW args \in Seq(Argument), args = jb.args
  PROVE  \E acc : TeeSteps(acc, jb, args)
<1> DEFINE g == [s \in TeeState |-> [a \in Argument |-> TeeStep(jb, s, a)]]
           fold(it) == [s \in SUBSET DOMAIN args |->
                          IF s = {} THEN TeeStart ELSE TeeStep(jb, it[s \ {Max(s)}], args[Max(s)])]
           chosen == CHOOSE it : it = fold(it)
<1>1. TeeArguments(jb) = chosen[DOMAIN args]
  <2>1. TeeArguments(jb) = (CHOOSE it : it = [s \in SUBSET DOMAIN jb.args |->
           IF s = {} THEN TeeStart ELSE TeeStep(jb, it[s \ {Max(s)}], jb.args[Max(s)])])[DOMAIN jb.args]
    BY DEF TeeArguments, Arguments, FoldLeft, MapThenFoldSet, TeeStep
  <2> QED
    BY <2>1
<1>2. g \in [TeeState -> [Argument -> TeeState]] /\ TeeStart \in TeeState
  <2>1. TeeStart \in TeeState
    BY DEF TeeStart, TeeState, Running
  <2> QED
    BY <2>1, TeeStepTyped
<1>3. \A s \in TeeState, a \in Argument : g[s][a] = TeeStep(jb, s, a)
  OBVIOUS
<1> HIDE DEF g
<1>5. \A s \in SUBSET DOMAIN args : s # {} => args[Max(s)] \in Argument /\ s \ {Max(s)} \in SUBSET DOMAIN args
  BY LastIn
<1>6. PICK it \in [SUBSET DOMAIN args -> TeeState] : Folds(it, TeeState, TeeStart, g, args)
  BY <1>2, FoldExists
<1>7. it = fold(it)
  BY <1>3, <1>5, <1>6 DEF Folds
<1>8. PICK end : end = fold(end) /\ chosen[DOMAIN args] = end[DOMAIN args]
  BY <1>7
<1> HIDE DEF chosen
<1>9. Folds(end, TeeState, TeeStart, g, args)
  BY <1>3, <1>5, <1>8 DEF Folds
<1>10. Ends(end[DOMAIN args], TeeState, Argument, TeeStart, g, args)
  BY <1>2, <1>9, FoldRuns
<1>11. PICK acc \in [0..Len(args) -> TeeState] :
         /\ acc[0] = TeeStart /\ end[DOMAIN args] = acc[Len(args)]
         /\ \A i \in 1..Len(args) : acc[i - 1] \in TeeState /\ args[i] \in Argument
                                    /\ acc[i] = g[acc[i - 1]][args[i]]
  BY <1>10 DEF Ends
<1>12. \A i \in 1..Len(args) : acc[i] = TeeStep(jb, acc[i - 1], args[i])
  BY <1>3, <1>11
<1> QED
  BY <1>1, <1>8, <1>11, <1>12 DEF TeeSteps

TeeRead(args, k, s) ==
  /\ s.exit = Running
  /\ s.paths \in Seq(Seq(Nat)) /\ Len(s.paths) = k /\ \A m \in 1..k : s.paths[m] = args[m].v

AllPaths(jb, args) ==
  /\ args = jb.args /\ Len(args) \in 1..16
  /\ \A i \in DOMAIN args : args[i].o = "word" /\ args[i].v \in DOMAIN jb.room

LEMMA TeeReads ==
  ASSUME NEW jb, NEW args \in Seq(Argument), AllPaths(jb, args)
  PROVE  TeeRead(args, Len(args), TeeArguments(jb))
<1>1. PICK n \in Nat : n = Len(args) /\ DOMAIN args = 1..n
  OBVIOUS
<1>2. PICK acc : TeeSteps(acc, jb, args)
  BY TeeArgsFold DEF AllPaths
<1>3. /\ acc[0] = TeeStart /\ TeeArguments(jb) = acc[n]
      /\ \A i \in 1..n : acc[i] = TeeStep(jb, acc[i - 1], args[i])
  BY <1>1, <1>2 DEF TeeSteps
<1> DEFINE S == {k \in 0..n : TeeRead(args, k, acc[k])}
<1>4. 0..n \subseteq S
  <2>1. 0 \in S
    <3>1. TeeRead(args, 0, TeeStart)
      BY DEF TeeRead, TeeStart
    <3> QED
      BY <1>3, <3>1
  <2>2. ASSUME NEW k \in 0..(n - 1), k \in S PROVE k + 1 \in S
    <3>1. k + 1 \in 1..n /\ k + 1 \in 0..n /\ k + 1 \in DOMAIN args /\ (k + 1) - 1 = k /\ k # 16
      <4>1. n \in 1..16
        BY <1>1 DEF AllPaths
      <4>2. k + 1 \in 1..n /\ k + 1 \in 0..n /\ (k + 1) - 1 = k
        OBVIOUS
      <4>3. k + 1 <= n /\ n <= 16
        BY <4>1
      <4>4. k # 16
        BY <4>3
      <4> QED
        BY <1>1, <4>2, <4>4
    <3>2. TeeRead(args, k, acc[k])
      BY <2>2
    <3>3. PICK s, a : s = acc[k] /\ a = args[k + 1] /\ a.o = "word" /\ a.v \in DOMAIN jb.room /\ a.v \in Seq(Nat)
      <4>1. args[k + 1] \in Argument
        BY <3>1
      <4>2. args[k + 1].o = "word" /\ args[k + 1].v \in DOMAIN jb.room
        BY <3>1 DEF AllPaths
      <4> QED
        BY <4>1, <4>2 DEF Argument
    <3>4. s.exit = Running /\ s.paths \in Seq(Seq(Nat)) /\ Len(s.paths) = k
           /\ \A m \in 1..k : s.paths[m] = args[m].v
      BY <3>2, <3>3 DEF TeeRead
    <3>5. acc[k + 1] = [s EXCEPT !.paths = Append(@, a.v)]
      <4>1. acc[k + 1] = TeeArgument(jb, s, a)
        BY <1>3, <3>1, <3>3, <3>4 DEF TeeStep
      <4>2. ~ (Len(s.paths) = 16)
        BY <3>1, <3>4
      <4> QED
        BY <3>3, <4>1, <4>2 DEF TeeArgument
    <3>6. s \in TeeState
      BY <1>2, <3>1, <3>3 DEF TeeSteps
    <3>7. acc[k + 1].paths = Append(s.paths, a.v) /\ acc[k + 1].exit = Running
      BY <3>4, <3>5, <3>6 DEF TeeState
    <3>8. PICK old, new : old \in Seq(Seq(Nat)) /\ old = s.paths /\ new = Append(old, a.v)
      BY <3>4
    <3>9. /\ new \in Seq(Seq(Nat)) /\ Len(new) = k + 1
          /\ \A m \in 1..k : new[m] = old[m]
          /\ new[k + 1] = a.v
      BY <3>3, <3>4, <3>8, AppendProperties
    <3>10. \A m \in 1..(k + 1) : new[m] = args[m].v
      <4>1. \A m \in 1..(k + 1) : m \in 1..k \/ m = k + 1
        OBVIOUS
      <4> QED
        BY <3>3, <3>4, <3>8, <3>9, <4>1
    <3>11. TeeRead(args, k + 1, acc[k + 1])
      BY <3>7, <3>8, <3>9, <3>10 DEF TeeRead
    <3> QED
      BY <3>1, <3>11
  <2>3. n \in Nat
    OBVIOUS
  <2> HIDE DEF S
  <2> QED
    BY <2>1, <2>2, <2>3, CountingUp
<1>5. TeeRead(args, n, acc[n])
  BY <1>4
<1> QED
  BY <1>1, <1>3, <1>5

TeeSays(jb, t) ==
  [exit |-> t.status,
   out |-> [n \in DOMAIN t.given |-> SubSeq(t.given[n], 1, Stored(Len(t.given[n]), jb.room[n]))]]

LEMMA TeeIs ==
  ASSUME NEW jb, NEW s, s = TeeArguments(jb), s.exit = Running, s.paths # <<>>
  PROVE  Tee(jb) = TeeSays(jb, TeeAll(jb, Range(s.paths) \cup {<<>>}))
<1>1. TeeArguments(jb).exit = Running /\ TeeArguments(jb).paths # <<>>
  OBVIOUS
<1>2. Tee(jb) = IF TeeArguments(jb).exit # Running THEN [exit |-> TeeArguments(jb).exit, out |-> <<>>]
                ELSE IF TeeArguments(jb).paths = <<>> THEN [exit |-> 1, out |-> <<>>]
                ELSE TeeSays(jb, TeeAll(jb, Range(TeeArguments(jb).paths) \cup {<<>>}))
  BY Zenon DEF Tee, TeeArguments, TeeStart, TeeAll, TeeNone, TeeSays
<1>3. Tee(jb) = TeeSays(jb, TeeAll(jb, Range(TeeArguments(jb).paths) \cup {<<>>}))
  BY <1>1, <1>2
<1> QED
  BY <1>3

(* What is in a file in the end, when it was given all. *)
LEMMA StoredIs ==
  ASSUME NEW text \in Seq(Nat), NEW room \in Nat
  PROVE  /\ Stored(Len(text), room) \in Nat /\ Stored(Len(text), room) <= Len(text)
         /\ Len(SubSeq(text, 1, Stored(Len(text), room))) = Stored(Len(text), room)
<1>1. PICK l \in Nat : l = Len(text)
  OBVIOUS
<1>2. PICK k \in Nat : k = Stored(Len(text), room) /\ k <= l
  BY <1>1 DEF Stored, Smaller
<1>3. k <= Len(text)
  BY <1>1, <1>2
<1>4. Len(Lead(text, k)) = k
  BY <1>3, LeadIs
<1> QED
  BY <1>2, <1>3, <1>4 DEF Lead

LEMMA TeeIsRight == Outcome => TeeRight
<1> DEFINE paths == {job.args[i].v : i \in DOMAIN job.args} \cup {<<>>}
           missing(n) == Len(job.stdin) - Len(out.out[n])
<1> SUFFICES ASSUME Outcome, Ran("tee"), Only({"word"}), Len(job.args) \in 1..16,
                    \A i \in DOMAIN job.args : job.args[i].v \in DOMAIN job.room
             PROVE  /\ out.out = [n \in paths |-> SubSeq(job.stdin, 1, Smaller(Len(job.stdin), job.room[n]))]
                    /\ out.exit \in {0, 1}
                    /\ out.exit = 1 => \E n \in paths : missing(n) > 0
                    /\ out.exit = 0 => \A n \in paths : missing(n) < job.buffer[n]
  BY DEF TeeRight
<1>1. out = Tee(job)
  BY DEF Outcome
<1>2. /\ job.args \in Seq(Argument) /\ job.stdin \in Seq(Nat) /\ <<>> \in DOMAIN job.room
      /\ \A name \in DOMAIN job.room : job.room[name] \in Nat /\ job.buffer[name] \in Nat \ {0}
  BY ToolsAssumption DEF Outcome, Ran
<1>3. \A i \in DOMAIN job.args : job.args[i].o = "word" /\ job.args[i].v \in DOMAIN job.room
  BY DEF Only
<1>4. PICK args, s, n : args = job.args /\ s = TeeArguments(job) /\ n = Len(args)
  OBVIOUS
<1>5. TeeRead(args, n, s) /\ args \in Seq(Argument) /\ n \in 1..16 /\ DOMAIN args = 1..n
  <2>1. args \in Seq(Argument) /\ n \in 1..16 /\ AllPaths(job, args)
    <3>1. n \in 1..16 /\ n = Len(args)
      BY <1>4
    <3>2. Len(args) \in 1..16
      BY <3>1
    <3> QED
      BY <1>2, <1>3, <1>4, <3>1, <3>2 DEF AllPaths
  <2> QED
    BY <1>4, <2>1, TeeReads
<1>6. s.exit = Running /\ s.paths \in Seq(Seq(Nat)) /\ Len(s.paths) = n /\ \A m \in 1..n : s.paths[m] = args[m].v
  BY <1>5 DEF TeeRead
<1>7. Range(s.paths) \cup {<<>>} = paths
  <2>1. DOMAIN s.paths = 1..n
    BY <1>6
  <2> QED
    BY <1>4, <1>5, <1>6, <2>1 DEF Range
<1>8. s.paths # <<>>
  BY <1>5, <1>6
<1>9. TeeRooms(job, paths)
  BY <1>2 DEF TeeRooms
<1> HIDE DEF paths
<1>10. PICK t : t = TeeAll(job, paths)
  OBVIOUS
<1>11. out = TeeSays(job, t)
  BY <1>1, <1>4, <1>6, <1>7, <1>8, <1>10, TeeIs
<1>12. PICK text \in Seq(Nat), L \in Nat : text = job.stdin /\ L = Len(text)
  BY <1>2
<1>13. Come(paths, job, text, L, t)
  BY <1>9, <1>10, <1>12, TeeAllComes
<1>14. t \in TeeOut(paths) /\ \A p \in paths : t.given[p] = text
  <2>1. Lead(text, L) = text
    BY <1>12, LeadAll
  <2> QED
    BY <1>13, <2>1 DEF Come
<1>15. out.exit = t.status /\ out.out = [p \in paths |-> SubSeq(text, 1, Stored(L, job.room[p]))]
  <2>1. DOMAIN t.given = paths
    BY <1>14 DEF TeeOut
  <2> QED
    BY <1>11, <1>12, <1>14, <2>1 DEF TeeSays
<1>16. ASSUME NEW p \in paths
       PROVE  \E r \in Nat, b \in Nat \ {0}, k \in Nat :
                /\ r = job.room[p] /\ b = job.buffer[p] /\ k = (IF L <= r THEN L ELSE r)
                /\ missing(p) = L - k
  <2>1. PICK r \in Nat, b \in Nat \ {0} : r = job.room[p] /\ b = job.buffer[p]
    BY <1>9 DEF TeeRooms
  <2>2. PICK k \in Nat : k = Stored(L, r) /\ k = (IF L <= r THEN L ELSE r)
    BY DEF Stored, Smaller
  <2>3. out.out[p] = SubSeq(text, 1, Stored(L, r))
    BY <1>15, <2>1
  <2>4. Len(SubSeq(text, 1, Stored(L, r))) = Stored(L, r)
    BY <1>12, StoredIs
  <2>5. Len(out.out[p]) = k
    BY <2>2, <2>3, <2>4
  <2> QED
    BY <1>12, <2>1, <2>2, <2>5
<1> HIDE DEF missing
<1>17. out.exit \in {0, 1}
  BY <1>14, <1>15 DEF TeeOut
<1>18. ASSUME out.exit = 1 PROVE \E p \in paths : missing(p) > 0
  <2>1. PICK p \in paths : L > job.room[p]
    BY <1>13, <1>15, <1>18 DEF Come
  <2>2. PICK r \in Nat, k \in Nat : r = job.room[p] /\ k = (IF L <= r THEN L ELSE r) /\ missing(p) = L - k
    BY <1>16
  <2>3. L - k > 0
    BY <2>1, <2>2
  <2> QED
    BY <2>2, <2>3
<1>19. ASSUME out.exit = 0, NEW p \in paths PROVE missing(p) < job.buffer[p]
  <2>1. PICK r \in Nat, b \in Nat \ {0}, k \in Nat :
          r = job.room[p] /\ b = job.buffer[p] /\ k = (IF L <= r THEN L ELSE r) /\ missing(p) = L - k
    BY <1>16
  <2>2. PICK e \in Nat : e = Emitted(L, b) /\ e <= L /\ L - e < b
    BY EmittedIs
  <2>3. e <= r
    BY <1>13, <1>15, <1>19, <2>1, <2>2 DEF Come
  <2>4. L - k < b
    BY <2>1, <2>2, <2>3
  <2> QED
    BY <2>1, <2>4
<1>20. out.out = [p \in paths |-> SubSeq(job.stdin, 1, Smaller(Len(job.stdin), job.room[p]))]
  BY <1>12, <1>15 DEF Stored
<1> QED
  BY <1>17, <1>18, <1>19, <1>20

-----------------------------------------------------------------------------
(* count: characters, lines and words so far. *)
Counted == [chars: Nat, lines: Nat, words: Nat, inWord: BOOLEAN]
Zero == [chars |-> 0, lines |-> 0, words |-> 0, inWord |-> FALSE]

LEMMA CountFold ==
  ASSUME NEW text \in Seq(Int)
  PROVE  \E acc \in [0..Len(text) -> Counted] :
           /\ acc[0] = Zero
           /\ \A i \in 1..Len(text) : acc[i] = CountChar(acc[i - 1], text[i])
           /\ FoldLeft(CountChar, Zero, text) = acc[Len(text)]
<1> DEFINE g == [v \in Counted |-> [c \in Int |-> CountChar(v, c)]]
           fold(it) == [s \in SUBSET DOMAIN text |->
                          IF s = {} THEN Zero ELSE CountChar(it[s \ {Max(s)}], text[Max(s)])]
           chosen == CHOOSE it : it = fold(it)
<1>1. Zero \in Counted /\ g \in [Counted -> [Int -> Counted]]
  BY DEF Zero, Counted, CountChar
<1>2. \A v \in Counted, c \in Int : g[v][c] = CountChar(v, c)
  OBVIOUS
<1>3. \A s \in SUBSET DOMAIN text : s # {} => text[Max(s)] \in Int /\ s \ {Max(s)} \in SUBSET DOMAIN text
  BY LastIn
<1>4. FoldLeft(CountChar, Zero, text) = chosen[DOMAIN text]
  BY DEF FoldLeft, MapThenFoldSet
<1> HIDE DEF g
<1>5. PICK it \in [SUBSET DOMAIN text -> Counted] : Folds(it, Counted, Zero, g, text)
  BY <1>1, FoldExists
<1>6. it = fold(it)
  BY <1>2, <1>3, <1>5 DEF Folds
<1>7. PICK end : end = fold(end) /\ FoldLeft(CountChar, Zero, text) = end[DOMAIN text]
  BY <1>4, <1>6
<1> HIDE DEF chosen
<1>8. Folds(end, Counted, Zero, g, text)
  BY <1>2, <1>3, <1>7 DEF Folds
<1>9. Ends(end[DOMAIN text], Counted, Int, Zero, g, text)
  BY <1>1, <1>8, FoldRuns
<1>10. PICK acc \in [0..Len(text) -> Counted] :
         /\ acc[0] = Zero /\ end[DOMAIN text] = acc[Len(text)]
         /\ \A i \in 1..Len(text) : acc[i - 1] \in Counted /\ text[i] \in Int /\ acc[i] = g[acc[i - 1]][text[i]]
  BY <1>9 DEF Ends
<1>11. \A i \in 1..Len(text) : acc[i] = CountChar(acc[i - 1], text[i])
  BY <1>2, <1>10
<1> QED
  BY <1>7, <1>10, <1>11

(* Ends of lines and beginnings of words among the first n characters.      *)
Gap(text, k) == k = 0 \/ text[k] \in {Blank, Tab, Newline, LineFeed}
EndsTo(text, n) == {k \in 1..n : text[k] \in {Newline, LineFeed}}
StartsTo(text, n) == {k \in 1..n : ~ Gap(text, k) /\ Gap(text, k - 1)}

CountedTo(text, n, t) ==
  /\ t \in Counted /\ t.chars = n
  /\ t.lines = Cardinality(EndsTo(text, n)) /\ t.words = Cardinality(StartsTo(text, n))
  /\ t.inWord = ~ Gap(text, n)

Grows(n, old, more, new) ==
  old \in SUBSET (1..n) /\ new = IF more THEN old \cup {n + 1} ELSE old

SizeGrows(old, more, new) ==
  Cardinality(new) = IF more THEN Cardinality(old) + 1 ELSE Cardinality(old)

LEMMA OneMore ==
  ASSUME NEW n \in Nat, NEW old, NEW more \in BOOLEAN, NEW new, Grows(n, old, more, new)
  PROVE  SizeGrows(old, more, new)
<1>1. IsFiniteSet(1..n)
  BY FS_Interval
<1>2. IsFiniteSet(old)
  BY <1>1, FS_Subset DEF Grows
<1>3. n + 1 \notin old
  BY DEF Grows
<1>4. new = IF more THEN old \cup {n + 1} ELSE old
  BY DEF Grows
<1> QED
  BY <1>2, <1>3, <1>4, FS_AddElement DEF SizeGrows

LEMMA CharCounted ==
  ASSUME NEW text, NEW n \in Nat, text[n + 1] \in Int, NEW t, CountedTo(text, n, t)
  PROVE  CountedTo(text, n + 1, CountChar(t, text[n + 1]))
<1> DEFINE c == text[n + 1]
           u == CountChar(t, c)
           end == c \in {Newline, LineFeed}
           start == ~ Gap(text, n + 1) /\ Gap(text, n)
<1>1. /\ t \in Counted /\ t.chars = n
      /\ t.lines = Cardinality(EndsTo(text, n)) /\ t.words = Cardinality(StartsTo(text, n))
      /\ t.inWord = ~ Gap(text, n)
  BY DEF CountedTo
<1>2. Gap(text, n + 1) <=> c \in {Blank, Tab, Newline, LineFeed}
  BY DEF Gap
<1>3. /\ u.chars = n + 1
      /\ u.lines = IF end THEN t.lines + 1 ELSE t.lines
      /\ u.words = IF start THEN t.words + 1 ELSE t.words
      /\ u.inWord = ~ Gap(text, n + 1)
  <2>1. u.inWord = (c \notin {Blank, Tab, Newline, LineFeed})
    BY DEF CountChar
  <2>2. u.words = IF c \notin {Blank, Tab, Newline, LineFeed} /\ ~ t.inWord THEN t.words + 1 ELSE t.words
    BY DEF CountChar
  <2>3. Gap(text, n) \in BOOLEAN /\ Gap(text, n + 1) \in BOOLEAN
    BY DEF Gap
  <2>4. u.chars = n + 1 /\ u.lines = IF end THEN t.lines + 1 ELSE t.lines
    BY <1>1 DEF CountChar
  <2> HIDE DEF u, c
  <2> QED
    BY <1>1, <1>2, <2>1, <2>2, <2>3, <2>4
<1>4. EndsTo(text, n + 1) = IF end THEN EndsTo(text, n) \cup {n + 1} ELSE EndsTo(text, n)
  BY DEF EndsTo
<1>5. StartsTo(text, n + 1) = IF start THEN StartsTo(text, n) \cup {n + 1} ELSE StartsTo(text, n)
  <2>1. \A k : k \in 1..(n + 1) <=> k \in 1..n \/ k = n + 1
    OBVIOUS
  <2>2. n + 1 - 1 = n
    OBVIOUS
  <2> QED
    BY <2>1, <2>2 DEF StartsTo
<1>6. Cardinality(EndsTo(text, n + 1)) = IF end THEN Cardinality(EndsTo(text, n)) + 1 ELSE Cardinality(EndsTo(text, n))
  <2>1. EndsTo(text, n) \in SUBSET (1..n)
    BY DEF EndsTo
  <2>2. end \in BOOLEAN
    BY DEF Gap
  <2>3. Grows(n, EndsTo(text, n), end, EndsTo(text, n + 1))
    BY <1>4, <2>1 DEF Grows
  <2> HIDE DEF end
  <2>4. SizeGrows(EndsTo(text, n), end, EndsTo(text, n + 1))
    BY <2>2, <2>3, OneMore
  <2> QED
    BY <2>4 DEF SizeGrows
<1>7. Cardinality(StartsTo(text, n + 1))
        = IF start THEN Cardinality(StartsTo(text, n)) + 1 ELSE Cardinality(StartsTo(text, n))
  <2>1. StartsTo(text, n) \in SUBSET (1..n)
    BY DEF StartsTo
  <2>2. start \in BOOLEAN
    BY DEF Gap
  <2>3. Grows(n, StartsTo(text, n), start, StartsTo(text, n + 1))
    BY <1>5, <2>1 DEF Grows
  <2> HIDE DEF start
  <2>4. SizeGrows(StartsTo(text, n), start, StartsTo(text, n + 1))
    BY <2>2, <2>3, OneMore
  <2> QED
    BY <2>4 DEF SizeGrows
<1>8. u \in Counted
  BY <1>1 DEF CountChar, Counted
<1> HIDE DEF u, end, start
<1>9. /\ u.lines = Cardinality(EndsTo(text, n + 1))
      /\ u.words = Cardinality(StartsTo(text, n + 1))
  BY <1>1, <1>3, <1>6, <1>7
<1>10. CountedTo(text, n + 1, u)
  BY <1>3, <1>8, <1>9 DEF CountedTo
<1> QED
  BY <1>10 DEF u

LinesIn(text) == Cardinality({k \in DOMAIN text : text[k] \in {Newline, LineFeed}})
WordsIn(text) == Cardinality({k \in DOMAIN text : ~ Gap(text, k) /\ Gap(text, k - 1)})

LEMMA TextCounted ==
  ASSUME NEW text \in Seq(Nat), NEW t, t = FoldLeft(CountChar, Zero, text)
  PROVE  /\ t \in Counted
         /\ t.chars = Len(text) /\ t.lines = LinesIn(text) /\ t.words = WordsIn(text)
<1>1. PICK n \in Nat : n = Len(text) /\ DOMAIN text = 1..n /\ \A i \in 1..n : text[i] \in Int
  OBVIOUS
<1>2. PICK acc \in [0..n -> Counted] :
        /\ acc[0] = Zero
        /\ \A i \in 1..n : acc[i] = CountChar(acc[i - 1], text[i])
        /\ t = acc[n]
  <2>1. text \in Seq(Int)
    OBVIOUS
  <2> QED
    BY <1>1, <2>1, CountFold
<1> DEFINE S == {i \in 0..n : CountedTo(text, i, acc[i])}
<1>3. 0..n \subseteq S
  <2>1. 0 \in S
    <3>1. EndsTo(text, 0) = {} /\ StartsTo(text, 0) = {}
      BY DEF EndsTo, StartsTo
    <3>2. Cardinality({}) = 0
      BY FS_EmptySet
    <3>3. Gap(text, 0)
      BY DEF Gap
    <3>4. (~ Gap(text, 0)) = FALSE
      BY <3>3
    <3>5. Zero \in Counted /\ Zero.chars = 0 /\ Zero.lines = 0 /\ Zero.words = 0 /\ Zero.inWord = FALSE
      BY DEF Zero, Counted
    <3>6. CountedTo(text, 0, Zero)
      BY <3>1, <3>2, <3>4, <3>5 DEF CountedTo
    <3> QED
      BY <1>2, <3>6
  <2>2. ASSUME NEW i \in 0..(n - 1), i \in S PROVE i + 1 \in S
    <3>1. i + 1 \in 1..n /\ i + 1 \in 0..n /\ (i + 1) - 1 = i /\ i \in Nat
      OBVIOUS
    <3>2. CountedTo(text, i, acc[i]) /\ text[i + 1] \in Int
      BY <1>1, <2>2, <3>1
    <3>3. CountedTo(text, i + 1, CountChar(acc[i], text[i + 1]))
      BY <3>1, <3>2, CharCounted
    <3> QED
      BY <1>2, <3>1, <3>3
  <2> HIDE DEF S
  <2> QED
    BY <2>1, <2>2, CountingUp
<1>4. CountedTo(text, n, t)
  BY <1>2, <1>3
<1>5. EndsTo(text, n) = {k \in DOMAIN text : text[k] \in {Newline, LineFeed}}
      /\ StartsTo(text, n) = {k \in DOMAIN text : ~ Gap(text, k) /\ Gap(text, k - 1)}
  BY <1>1 DEF EndsTo, StartsTo
<1> QED
  BY <1>1, <1>4, <1>5 DEF CountedTo, LinesIn, WordsIn

(* The command line of count. *)
Told == [what: {"all", "lines", "words", "chars", "groups"},
         of: Nat \cup [lines: Nat, words: Nat, chars: Nat]]

CountState ==
  [exit: {Running}, what: {"lines", "words", "chars"}, breakdown: BOOLEAN, divisor: Nat \ {0},
   list: {NoList}, names: Nat, status: 0..1, out: Seq(Told)]

CountTakes ==
  {a \in Argument : a.o \in {"-l", "-w", "-c", "-b", "word"} \/ (a.o = "-d" /\ a.n > 0)}

AllTexts(jb) == \A name \in DOMAIN jb.disk : jb.disk[name] \in Seq(Nat)

LEMMA Rounded ==
  ASSUME NEW l \in Nat, NEW d \in Nat \ {0}
  PROVE  LET q == (l + d - 1) \div d
         IN q \in Nat /\ (q - 1) * d < l /\ l <= q * d
OBVIOUS

LEMMA ToldTyped ==
  ASSUME NEW k \in {"all", "lines", "words", "chars", "groups"},
         NEW v \in Nat \cup [lines: Nat, words: Nat, chars: Nat]
  PROVE  Result(k, v) \in Seq(Told)
<1>1. PICK x \in Told : x = [what |-> k, of |-> v]
  BY DEF Told
<1>2. Result(k, v) = <<x>>
  BY <1>1 DEF Result
<1>3. <<x>> \in Seq(Told)
  OBVIOUS
<1> QED
  BY <1>2, <1>3

LEMMA CountSaysTyped ==
  ASSUME NEW s \in CountState, NEW t \in Counted
  PROVE  CountSays(s, t) \in Seq(Told)
<1>1. /\ s.breakdown \in BOOLEAN /\ s.what \in {"lines", "words", "chars"} /\ s.divisor \in Nat \ {0}
      /\ t.lines \in Nat /\ t.words \in Nat /\ t.chars \in Nat
  BY DEF CountState, Counted
<1> DEFINE all == [lines |-> t.lines, words |-> t.words, chars |-> t.chars]
           rounded == (t.lines + s.divisor - 1) \div s.divisor
<1>2. all \in [lines: Nat, words: Nat, chars: Nat] /\ all[s.what] \in Nat
  BY <1>1
<1>3. rounded \in Nat
  BY <1>1, Rounded
<1>4. CountSays(s, t) \in {Result("all", all), Result(s.what, all[s.what]), Result("groups", rounded), Result("lines", t.lines)}
  BY <1>1 DEF CountSays, Groups
<1> HIDE DEF all, rounded
<1> DEFINE kinds == {"all", "lines", "words", "chars", "groups"}
           values == Nat \cup [lines: Nat, words: Nat, chars: Nat]
<1>5. "all" \in kinds /\ "groups" \in kinds /\ "lines" \in kinds /\ s.what \in kinds
  BY <1>1
<1>6. all \in values /\ rounded \in values /\ t.lines \in values /\ all[s.what] \in values
  BY <1>1, <1>2, <1>3
<1>7. \A k \in kinds, v \in values : Result(k, v) \in Seq(Told)
  BY ToldTyped
<1> HIDE DEF kinds, values
<1> QED
  BY <1>4, <1>5, <1>6, <1>7

LEMMA CountOneTyped ==
  ASSUME NEW jb, AllTexts(jb), NEW s \in CountState, NEW name
  PROVE  CountOne(jb, s, name) \in CountState
<1>1. CASE name \notin DOMAIN jb.disk
  <2>1. CountOne(jb, s, name) = [[s EXCEPT !.status = 1] EXCEPT !.names = @ + 1]
    BY <1>1 DEF CountOne, CountState
  <2>2. [s EXCEPT !.status = 1] \in CountState
    BY DEF CountState
  <2>3. \A u \in CountState : [u EXCEPT !.names = @ + 1] \in CountState
    BY DEF CountState
  <2> QED
    BY <2>1, <2>2, <2>3
<1>2. CASE name \in DOMAIN jb.disk
  <2>1. PICK t : t = FoldLeft(CountChar, Zero, jb.disk[name])
    OBVIOUS
  <2>2. t \in Counted
    <3>1. jb.disk[name] \in Seq(Nat)
      BY <1>2 DEF AllTexts
    <3> QED
      BY <2>1, <3>1, TextCounted
  <2>3. PICK says \in Seq(Told) : says = CountSays(s, t)
    BY <2>2, CountSaysTyped
  <2>4. CountOne(jb, s, name) = [s EXCEPT !.names = @ + 1, !.out = @ \o says]
    BY <1>2, <2>1, <2>3 DEF CountOne, Zero
  <2>5. [s EXCEPT !.names = @ + 1, !.out = @ \o says] = [[s EXCEPT !.names = @ + 1] EXCEPT !.out = @ \o says]
    BY DEF CountState
  <2>6. [s EXCEPT !.names = @ + 1] \in CountState
    BY DEF CountState
  <2>7. ASSUME NEW u \in CountState PROVE [u EXCEPT !.out = @ \o says] \in CountState
    <3>1. PICK told \in Seq(Told) : told = u.out \o says
      <4>1. u.out \in Seq(Told)
        BY DEF CountState
      <4> QED
        BY <4>1, ConcatProperties
    <3>2. [u EXCEPT !.out = told] \in CountState
      BY DEF CountState
    <3> QED
      BY <3>1, <3>2
  <2> QED
    BY <2>4, <2>5, <2>6, <2>7
<1> QED
  BY <1>1, <1>2

CountBegins ==
  [exit |-> Running, what |-> "lines", breakdown |-> FALSE, divisor |-> 1,
   list |-> NoList, names |-> 0, status |-> 0, out |-> <<>>]

CountStep(jb, s, a) == IF s.exit = Running THEN CountArgument(jb, s, a) ELSE s

LEMMA OptionTaken ==
  ASSUME NEW jb, NEW s \in CountState, NEW a \in CountTakes, a.o # "word"
  PROVE  /\ CountStep(jb, s, a) \in CountState
         /\ CountStep(jb, s, a).out = s.out /\ CountStep(jb, s, a).status = s.status
         /\ CountStep(jb, s, a).breakdown = (s.breakdown \/ a.o = "-b")
         /\ CountStep(jb, s, a).divisor = IF a.o = "-d" THEN a.n ELSE s.divisor
<1>1. CountStep(jb, s, a) = CountArgument(jb, s, a)
  BY DEF CountStep, CountState
<1>2. /\ s.breakdown \in BOOLEAN /\ a.o \in {"-l", "-w", "-c", "-b", "-d"}
      /\ a.o = "-d" => a.n \in Nat \ {0}
  BY DEF CountState, CountTakes, Argument
<1>3. CASE a.o \in {"-l", "-w", "-c"}
  <2>1. PICK what \in {"lines", "words", "chars"} : CountArgument(jb, s, a) = [s EXCEPT !.what = what]
    BY <1>3 DEF CountArgument
  <2>2. PICK u : u = [s EXCEPT !.what = what]
    OBVIOUS
  <2>3. u \in CountState /\ u.out = s.out /\ u.status = s.status /\ u.breakdown = s.breakdown /\ u.divisor = s.divisor
    BY <2>2 DEF CountState
  <2>4. s.breakdown = (s.breakdown \/ a.o = "-b") /\ a.o # "-d"
    BY <1>2, <1>3
  <2> QED
    BY <1>1, <2>1, <2>2, <2>3, <2>4
<1>4. CASE a.o = "-b"
  <2>1. CountArgument(jb, s, a) = [[s EXCEPT !.what = "words"] EXCEPT !.breakdown = TRUE]
    BY <1>4 DEF CountArgument, CountState
  <2>2. PICK v \in CountState : v = [s EXCEPT !.what = "words"]
    BY DEF CountState
  <2>3. v.out = s.out /\ v.status = s.status /\ v.divisor = s.divisor
    BY <2>2 DEF CountState
  <2>4. PICK u : u = [v EXCEPT !.breakdown = TRUE]
    OBVIOUS
  <2>5. u \in CountState /\ u.out = v.out /\ u.status = v.status /\ u.breakdown = TRUE /\ u.divisor = v.divisor
    BY <2>4 DEF CountState
  <2>6. TRUE = (s.breakdown \/ a.o = "-b") /\ a.o # "-d"
    BY <1>4
  <2> QED
    BY <1>1, <2>1, <2>2, <2>3, <2>4, <2>5, <2>6
<1>5. CASE a.o = "-d"
  <2>1. CountArgument(jb, s, a) = [s EXCEPT !.divisor = a.n]
    <3>1. CountArgument(jb, s, a) = IF a.n < 1 THEN Stop(s, 1) ELSE [s EXCEPT !.divisor = a.n]
      BY <1>5 DEF CountArgument
    <3>2. ~ (a.n < 1)
      BY <1>2, <1>5
    <3> QED
      BY <3>1, <3>2
  <2>2. PICK n \in Nat \ {0} : n = a.n
    BY <1>2, <1>5
  <2>3. PICK u : u = [s EXCEPT !.divisor = n]
    OBVIOUS
  <2>4. u \in CountState /\ u.out = s.out /\ u.status = s.status /\ u.breakdown = s.breakdown /\ u.divisor = n
    BY <2>3 DEF CountState
  <2>5. s.breakdown = (s.breakdown \/ a.o = "-b")
    BY <1>2, <1>5
  <2> QED
    BY <1>1, <1>5, <2>1, <2>2, <2>3, <2>4, <2>5
<1> QED
  BY <1>2, <1>3, <1>4, <1>5

LEMMA CountStepTyped ==
  ASSUME NEW jb, AllTexts(jb), NEW s \in CountState, NEW a \in CountTakes
  PROVE  CountStep(jb, s, a) \in CountState
<1>1. CASE a.o = "word"
  <2>1. CountStep(jb, s, a) = CountOne(jb, s, a.v)
    BY <1>1 DEF CountStep, CountState, CountArgument
  <2> QED
    BY <2>1, CountOneTyped
<1> QED
  BY <1>1, OptionTaken

CountArguments(jb) == Arguments(LAMBDA t, a : CountArgument(jb, t, a), CountBegins, jb.args)

CountSteps(acc, jb, args) ==
  /\ acc \in [0..Len(args) -> CountState]
  /\ acc[0] = CountBegins
  /\ \A i \in 1..Len(args) : acc[i] = CountStep(jb, acc[i - 1], args[i])
  /\ CountArguments(jb) = acc[Len(args)]

LEMMA CountArgsFold ==
  ASSUME NEW jb, AllTexts(jb), NEW args \in Seq(CountTakes), args = jb.args
  PROVE  \E acc : CountSteps(acc, jb, args)
<1> DEFINE g == [s \in CountState |-> [a \in CountTakes |-> CountStep(jb, s, a)]]
           fold(it) == [s \in SUBSET DOMAIN args |->
                          IF s = {} THEN CountBegins ELSE CountStep(jb, it[s \ {Max(s)}], args[Max(s)])]
           chosen == CHOOSE it : it = fold(it)
<1>1. CountArguments(jb) = chosen[DOMAIN args]
  <2>1. CountArguments(jb) = (CHOOSE it : it = [s \in SUBSET DOMAIN jb.args |->
           IF s = {} THEN CountBegins ELSE CountStep(jb, it[s \ {Max(s)}], jb.args[Max(s)])])[DOMAIN jb.args]
    BY DEF CountArguments, Arguments, FoldLeft, MapThenFoldSet, CountStep
  <2> QED
    BY <2>1
<1>2. g \in [CountState -> [CountTakes -> CountState]] /\ CountBegins \in CountState
  <2>1. CountBegins \in CountState
    BY DEF CountBegins, CountState
  <2> QED
    BY <2>1, CountStepTyped
<1>3. \A s \in CountState, a \in CountTakes : g[s][a] = CountStep(jb, s, a)
  OBVIOUS
<1> HIDE DEF g
<1>5. \A s \in SUBSET DOMAIN args : s # {} => args[Max(s)] \in CountTakes /\ s \ {Max(s)} \in SUBSET DOMAIN args
  BY LastIn
<1>6. PICK it \in [SUBSET DOMAIN args -> CountState] : Folds(it, CountState, CountBegins, g, args)
  BY <1>2, FoldExists
<1>7. it = fold(it)
  BY <1>3, <1>5, <1>6 DEF Folds
<1>8. PICK end : end = fold(end) /\ chosen[DOMAIN args] = end[DOMAIN args]
  BY <1>7
<1> HIDE DEF chosen
<1>9. Folds(end, CountState, CountBegins, g, args)
  BY <1>3, <1>5, <1>8 DEF Folds
<1>10. Ends(end[DOMAIN args], CountState, CountTakes, CountBegins, g, args)
  BY <1>2, <1>9, FoldRuns
<1>11. PICK acc \in [0..Len(args) -> CountState] :
         /\ acc[0] = CountBegins /\ end[DOMAIN args] = acc[Len(args)]
         /\ \A i \in 1..Len(args) : acc[i - 1] \in CountState /\ args[i] \in CountTakes
                                    /\ acc[i] = g[acc[i - 1]][args[i]]
  BY <1>10 DEF Ends
<1>12. \A i \in 1..Len(args) : acc[i] = CountStep(jb, acc[i - 1], args[i])
  BY <1>3, <1>11
<1> QED
  BY <1>1, <1>8, <1>11, <1>12 DEF CountSteps

(* What the options before the k-th argument have set. *)
DividesBy(args, k, d) ==
  \/ d = 1 /\ \A i \in 1..k : args[i].o # "-d"
  \/ \E m \in 1..k : args[m].o = "-d" /\ d = args[m].n /\ \A i \in 1..k : i > m => args[i].o # "-d"

Opted(args, k, s) ==
  /\ s \in CountState /\ s.out = <<>> /\ s.status = 0
  /\ s.breakdown <=> \E i \in 1..k : args[i].o = "-b"
  /\ DividesBy(args, k, s.divisor)

LEMMA OptionMore ==
  ASSUME NEW jb, NEW args, NEW k \in Nat, NEW s, Opted(args, k, s),
         args[k + 1] \in CountTakes, args[k + 1].o # "word"
  PROVE  Opted(args, k + 1, CountStep(jb, s, args[k + 1]))
<1>1. PICK u, a : u = CountStep(jb, s, a) /\ a = args[k + 1]
  OBVIOUS
<1>2. /\ s \in CountState /\ s.out = <<>> /\ s.status = 0
      /\ s.breakdown <=> \E i \in 1..k : args[i].o = "-b"
      /\ DividesBy(args, k, s.divisor)
  BY DEF Opted
<1>3. /\ u \in CountState /\ u.out = <<>> /\ u.status = 0
      /\ u.breakdown = (s.breakdown \/ a.o = "-b")
      /\ u.divisor = IF a.o = "-d" THEN a.n ELSE s.divisor
  BY <1>1, <1>2, OptionTaken
<1>4. \A i : i \in 1..(k + 1) <=> i \in 1..k \/ i = k + 1
  OBVIOUS
<1>5. u.breakdown <=> \E i \in 1..(k + 1) : args[i].o = "-b"
  <2>1. s.breakdown \in BOOLEAN /\ u.breakdown \in BOOLEAN
    BY <1>2, <1>3 DEF CountState
  <2>2. u.breakdown <=> s.breakdown \/ args[k + 1].o = "-b"
    BY <1>1, <1>3, <2>1
  <2> QED
    BY <1>2, <1>4, <2>1, <2>2
<1>6. DividesBy(args, k + 1, u.divisor)
  <2>1. CASE a.o = "-d"
    <3>1. u.divisor = args[k + 1].n /\ args[k + 1].o = "-d"
      BY <1>1, <1>3, <2>1
    <3>2. k + 1 \in 1..(k + 1) /\ \A i \in 1..(k + 1) : ~ (i > k + 1)
      OBVIOUS
    <3> QED
      BY <3>1, <3>2 DEF DividesBy
  <2>2. CASE a.o # "-d"
    <3>1. u.divisor = s.divisor /\ args[k + 1].o # "-d"
      BY <1>1, <1>3, <2>2
    <3> QED
      BY <1>2, <1>4, <3>1 DEF DividesBy
  <2> QED
    BY <2>1, <2>2
<1> QED
  BY <1>1, <1>3, <1>5, <1>6 DEF Opted

CountLine(jb, args) ==
  /\ args = jb.args /\ args \in Seq(Argument) /\ args # <<>> /\ AllTexts(jb)
  /\ args[Len(args)].o = "word" /\ args[Len(args)].v \in DOMAIN jb.disk
  /\ \A i \in 1..(Len(args) - 1) : /\ args[i].o \in {"-l", "-w", "-c", "-b", "-d"}
                                   /\ args[i].o = "-d" => args[i].n > 0

CountVerdict(jb, args, s) ==
  \E before, t :
    /\ Opted(args, Len(args) - 1, before)
    /\ t = FoldLeft(CountChar, Zero, jb.disk[args[Len(args)].v]) /\ t \in Counted
    /\ s \in CountState /\ s.names # 0 /\ s.status = 0
    /\ s.out = CountSays(before, t)

LEMMA CountReads ==
  ASSUME NEW jb, NEW args, CountLine(jb, args)
  PROVE  CountVerdict(jb, args, CountArguments(jb))
<1>1. PICK n \in Nat : n = Len(args) /\ DOMAIN args = 1..n /\ n > 0
  BY DEF CountLine
<1>2. \A i \in 1..n : args[i] \in Argument
  BY <1>1 DEF CountLine
<1>3. /\ args[n].o = "word" /\ args[n].v \in DOMAIN jb.disk /\ AllTexts(jb)
      /\ \A i \in 1..(n - 1) : args[i].o \in {"-l", "-w", "-c", "-b", "-d"} /\ (args[i].o = "-d" => args[i].n > 0)
  BY <1>1 DEF CountLine
<1>4. \A i \in 1..n : args[i] \in CountTakes /\ (i < n => args[i].o # "word")
  <2>1. \A i \in 1..n : i \in 1..(n - 1) \/ i = n
    OBVIOUS
  <2>2. \A i \in 1..n : i < n => i \in 1..(n - 1)
    OBVIOUS
  <2>3. \A i \in 1..(n - 1) : args[i].o # "word"
    BY <1>3
  <2> QED
    BY <1>2, <1>3, <2>1, <2>2, <2>3 DEF CountTakes
<1>5. args \in Seq(CountTakes)
  <2>1. args \in Seq(Argument)
    BY DEF CountLine
  <2> QED
    BY <1>1, <1>4, <2>1
<1>6. PICK acc : CountSteps(acc, jb, args)
  BY <1>3, <1>5, CountArgsFold DEF CountLine
<1>7. /\ acc \in [0..n -> CountState]
      /\ acc[0] = CountBegins /\ CountArguments(jb) = acc[n]
      /\ \A i \in 1..n : acc[i] = CountStep(jb, acc[i - 1], args[i])
  BY <1>1, <1>6 DEF CountSteps
<1>8. PICK m \in Nat : m = n - 1
  BY <1>1
<1> DEFINE S == {k \in 0..m : Opted(args, k, acc[k])}
<1>9. 0..m \subseteq S
  <2>1. 0 \in S
    <3>1. acc[0] \in CountState
      BY <1>7
    <3>2. CountBegins.out = <<>> /\ CountBegins.status = 0 /\ CountBegins.breakdown = FALSE /\ CountBegins.divisor = 1
      BY DEF CountBegins
    <3>3. DividesBy(args, 0, 1)
      BY DEF DividesBy
    <3>4. ~ \E i \in 1..0 : args[i].o = "-b"
      OBVIOUS
    <3>5. Opted(args, 0, CountBegins)
      BY <1>7, <3>1, <3>2, <3>3, <3>4 DEF Opted
    <3> QED
      BY <1>7, <3>5
  <2>2. ASSUME NEW k \in 0..(m - 1), k \in S PROVE k + 1 \in S
    <3>1. k \in Nat /\ k + 1 \in 1..n /\ k + 1 < n /\ k + 1 \in 0..m /\ (k + 1) - 1 = k
      BY <1>8
    <3>2. Opted(args, k, acc[k]) /\ args[k + 1] \in CountTakes /\ args[k + 1].o # "word"
      BY <1>4, <2>2, <3>1
    <3>3. Opted(args, k + 1, CountStep(jb, acc[k], args[k + 1]))
      BY <3>1, <3>2, OptionMore
    <3>4. acc[k + 1] = CountStep(jb, acc[k], args[k + 1])
      BY <1>7, <3>1
    <3> QED
      BY <3>1, <3>3, <3>4
  <2> HIDE DEF S
  <2> QED
    BY <2>1, <2>2, CountingUp
<1>10. Opted(args, m, acc[m])
  BY <1>9
<1>11. PICK s, t, name : s = acc[m] /\ name = args[n].v /\ t = FoldLeft(CountChar, Zero, jb.disk[name])
  OBVIOUS
<1>12. t \in Counted
  <2>1. jb.disk[name] \in Seq(Nat)
    BY <1>3, <1>11 DEF AllTexts
  <2> QED
    BY <1>11, <2>1, TextCounted
<1>13. /\ s \in CountState /\ s.out = <<>> /\ s.status = 0
  BY <1>10, <1>11 DEF Opted
<1>14. PICK says \in Seq(Told) : says = CountSays(s, t)
  BY <1>12, <1>13, CountSaysTyped
<1>15. acc[n] = [s EXCEPT !.names = @ + 1, !.out = @ \o says]
  <2>1. acc[n] = CountStep(jb, s, args[n])
    <3>1. n \in 1..n
      BY <1>1
    <3> QED
      BY <1>7, <1>8, <1>11, <3>1
  <2>2. CountStep(jb, s, args[n]) = CountOne(jb, s, name)
    BY <1>3, <1>11, <1>13 DEF CountStep, CountState, CountArgument
  <2>3. CountOne(jb, s, name) = [s EXCEPT !.names = @ + 1, !.out = @ \o says]
    BY <1>3, <1>11, <1>14 DEF CountOne, Zero
  <2> QED
    BY <2>1, <2>2, <2>3
<1>16. acc[n].out = says /\ acc[n].status = 0 /\ acc[n].names # 0
  <2>1. s.out \o says = says
    BY <1>13, <1>14
  <2>2. PICK more \in Nat : more = s.names + 1 /\ more # 0
    BY <1>13 DEF CountState
  <2>3. PICK u : u = [s EXCEPT !.names = more, !.out = says]
    OBVIOUS
  <2>4. u.out = says /\ u.names = more /\ u.status = s.status
    BY <1>13, <2>3 DEF CountState
  <2> QED
    BY <1>13, <1>15, <2>1, <2>2, <2>3, <2>4
<1>17. acc[n] \in CountState
  BY <1>1, <1>7
<1>18. /\ Opted(args, Len(args) - 1, s) /\ t = FoldLeft(CountChar, Zero, jb.disk[args[Len(args)].v]) /\ t \in Counted
       /\ acc[n].out = CountSays(s, t)
  BY <1>1, <1>8, <1>10, <1>11, <1>12, <1>14, <1>16
<1> QED
  BY <1>7, <1>16, <1>17, <1>18 DEF CountVerdict

LEMMA CountIs ==
  ASSUME NEW jb, NEW s, s = CountArguments(jb), s \in CountState, s.names # 0
  PROVE  Count(jb) = [exit |-> s.status, out |-> s.out]
<1>1. s.exit = Running /\ s.list = NoList
  BY DEF CountState
<1>2. Count(jb) = LET u == CountArguments(jb)
                      listed == IF u.list = NoList THEN u
                                ELSE FoldLeft(LAMBDA t, n : CountOne(jb, t, n), u, Names(u.list.text))
                  IN IF u.exit # Running THEN [exit |-> u.exit, out |-> u.out]
                     ELSE IF u.list = NoList /\ u.names = 0 THEN [exit |-> 1, out |-> <<>>]
                     ELSE [exit |-> listed.status, out |-> listed.out]
  BY DEF Count, CountArguments, CountBegins
<1> QED
  BY <1>1, <1>2

(* What is printed, and what CountRight says of it. *)
CountTells(jb, args, r, given, d) ==
  LET text == jb.disk[args[Len(args)].v]
  IN /\ r.what = "all" <=> given
     /\ CASE r.what = "lines" -> r.of = LinesIn(text)
          [] r.what = "words" -> r.of = WordsIn(text)
          [] r.what = "chars" -> r.of = Len(text)
          [] r.what = "all" -> r.of = [lines |-> LinesIn(text), words |-> WordsIn(text), chars |-> Len(text)]
          [] r.what = "groups" -> (r.of - 1) * d < LinesIn(text) /\ LinesIn(text) <= r.of * d

LEMMA LineTells ==
  ASSUME NEW jb, NEW args, NEW text \in Seq(Nat), text = jb.disk[args[Len(args)].v],
         NEW s \in CountState, NEW t, t = FoldLeft(CountChar, Zero, text)
  PROVE  \E r : CountSays(s, t) = <<r>> /\ CountTells(jb, args, r, s.breakdown, s.divisor)
<1>1. /\ t \in Counted
      /\ t.chars = Len(text) /\ t.lines = LinesIn(text) /\ t.words = WordsIn(text)
  BY TextCounted
<1>2. PICK l \in Nat, w \in Nat, c \in Nat : l = t.lines /\ w = t.words /\ c = t.chars
  BY <1>1 DEF Counted
<1>3. PICK d \in Nat \ {0} : d = s.divisor
  BY DEF CountState
<1>4. PICK q \in Nat : q = (l + d - 1) \div d /\ (q - 1) * d < l /\ l <= q * d
  BY <1>2, <1>3, Rounded
<1>5. s.breakdown \in BOOLEAN /\ s.what \in {"lines", "words", "chars"}
  BY DEF CountState
<1> DEFINE all == [lines |-> l, words |-> w, chars |-> c]
<1>6. CASE s.breakdown
  <2>1. CountSays(s, t) = <<[what |-> "all", of |-> all]>>
    BY <1>2, <1>6 DEF CountSays, Result
  <2>2. PICK r : r = [what |-> "all", of |-> all]
    OBVIOUS
  <2>3. CountTells(jb, args, r, s.breakdown, s.divisor)
    BY <1>1, <1>2, <1>6, <2>2 DEF CountTells
  <2> QED
    BY <2>1, <2>2, <2>3
<1>7. CASE ~ s.breakdown /\ s.what \in {"words", "chars"}
  <2>1. PICK r : r = [what |-> s.what, of |-> all[s.what]] /\ CountSays(s, t) = <<r>>
    BY <1>2, <1>7 DEF CountSays, Result
  <2>2. CASE s.what = "words"
    <3>1. r.what = "words" /\ r.of = w
      BY <2>1, <2>2
    <3> HIDE DEF all
    <3> QED
      BY <1>1, <1>2, <1>7, <2>1, <3>1 DEF CountTells
  <2>3. CASE s.what = "chars"
    <3>1. r.what = "chars" /\ r.of = c
      BY <2>1, <2>3
    <3> HIDE DEF all
    <3> QED
      BY <1>1, <1>2, <1>7, <2>1, <3>1 DEF CountTells
  <2> QED
    BY <1>7, <2>1, <2>2, <2>3
<1>8. CASE ~ s.breakdown /\ s.what = "lines" /\ d > 1
  <2>1. CountSays(s, t) = Result("groups", q)
    BY <1>2, <1>3, <1>4, <1>8 DEF CountSays, Groups
  <2>2. PICK r : r = [what |-> "groups", of |-> q] /\ CountSays(s, t) = <<r>>
    BY <2>1 DEF Result
  <2>3. r.what = "groups" /\ (r.of - 1) * s.divisor < LinesIn(text) /\ LinesIn(text) <= r.of * s.divisor
    BY <1>1, <1>2, <1>3, <1>4, <2>2
  <2>4. CountTells(jb, args, r, s.breakdown, s.divisor)
    BY <1>5, <1>8, <2>3 DEF CountTells
  <2> QED
    BY <2>2, <2>4
<1>9. CASE ~ s.breakdown /\ s.what = "lines" /\ ~ (d > 1)
  <2>1. CountSays(s, t) = Result("lines", l)
    BY <1>2, <1>3, <1>9 DEF CountSays, Groups
  <2>2. PICK r : r = [what |-> "lines", of |-> l] /\ CountSays(s, t) = <<r>>
    BY <2>1 DEF Result
  <2>3. CountTells(jb, args, r, s.breakdown, s.divisor)
    BY <1>1, <1>2, <1>5, <1>9, <2>2 DEF CountTells
  <2> QED
    BY <2>2, <2>3
<1> QED
  BY <1>5, <1>6, <1>7, <1>8, <1>9

LEMMA CountIsRight == Outcome => CountRight
<1> DEFINE last == Len(job.args)
           text == job.disk[job.args[last].v]
<1> SUFFICES ASSUME Outcome, Ran("count"), job.args # <<>>,
                    job.args[last].o = "word", job.args[last].v \in DOMAIN job.disk,
                    \A i \in 1..(last - 1) : /\ job.args[i].o \in {"-l", "-w", "-c", "-b", "-d"}
                                             /\ job.args[i].o = "-d" => job.args[i].n > 0
             PROVE  /\ out.exit = 0 /\ Len(out.out) = 1
                    /\ CountTells(job, job.args, out.out[1], Given("-b"), ValueOf("-d", 1))
  BY DEF CountRight, CountTells, LinesIn, WordsIn, Gap
<1>1. out = Count(job)
  BY DEF Outcome
<1>2. job.args \in Seq(Argument) /\ AllTexts(job)
  BY ToolsAssumption DEF Outcome, Ran, AllTexts
<1>3. CountLine(job, job.args)
  BY <1>2 DEF CountLine
<1>4. PICK s : s = CountArguments(job) /\ CountVerdict(job, job.args, s)
  BY <1>3, CountReads
<1>5. PICK before, t :
        /\ Opted(job.args, last - 1, before)
        /\ t = FoldLeft(CountChar, Zero, text)
        /\ s \in CountState /\ s.names # 0 /\ s.status = 0
        /\ s.out = CountSays(before, t)
  BY <1>4 DEF CountVerdict
<1>6. out = [exit |-> s.status, out |-> s.out]
  BY <1>1, <1>4, <1>5, CountIs
<1>7. text \in Seq(Nat)
  BY <1>2 DEF AllTexts
<1>8. before \in CountState
  BY <1>5 DEF Opted
<1>9. PICK r : CountSays(before, t) = <<r>> /\ CountTells(job, job.args, r, before.breakdown, before.divisor)
  BY <1>5, <1>7, <1>8, LineTells
<1>10. PICK n \in Nat : n = last /\ DOMAIN job.args = 1..n /\ n > 0
  BY <1>2
<1>11. \A i : i \in 1..n <=> i \in 1..(n - 1) \/ i = n
  BY <1>10
<1>12. Given("-b") <=> before.breakdown
  <2>1. before.breakdown <=> \E i \in 1..(n - 1) : job.args[i].o = "-b"
    BY <1>5, <1>10 DEF Opted
  <2>2. job.args[n].o # "-b"
    BY <1>10
  <2> QED
    BY <1>10, <1>11, <2>1, <2>2 DEF Given
<1>13. ValueOf("-d", 1) = before.divisor
  <2> DEFINE at == {i \in DOMAIN job.args : job.args[i].o = "-d"}
  <2>1. DividesBy(job.args, n - 1, before.divisor)
    BY <1>5, <1>10 DEF Opted
  <2>2. \A i : i \in at <=> i \in 1..(n - 1) /\ job.args[i].o = "-d"
    BY <1>10, <1>11
  <2>3. CASE before.divisor = 1 /\ \A i \in 1..(n - 1) : job.args[i].o # "-d"
    <3>1. at = {}
      BY <2>2, <2>3
    <3> QED
      BY <2>3, <3>1 DEF ValueOf
  <2>4. CASE \E m \in 1..(n - 1) : job.args[m].o = "-d" /\ before.divisor = job.args[m].n
                                   /\ \A i \in 1..(n - 1) : i > m => job.args[i].o # "-d"
    <3>1. PICK m \in 1..(n - 1) : job.args[m].o = "-d" /\ before.divisor = job.args[m].n
                                  /\ \A i \in 1..(n - 1) : i > m => job.args[i].o # "-d"
      BY <2>4
    <3>2. m \in at /\ at \subseteq 1..(n - 1) /\ \A i \in at : i <= m
      BY <2>2, <3>1
    <3>3. ValueOf("-d", 1) = job.args[CHOOSE i \in at : \A j \in at : j <= i].n
      BY <3>2 DEF ValueOf
    <3> HIDE DEF at
    <3>4. PICK p \in at : p = (CHOOSE i \in at : \A j \in at : j <= i) /\ \A j \in at : j <= p
      BY <3>2
    <3>5. p = m
      <4>1. p <= m /\ m <= p
        BY <3>2, <3>4
      <4>2. p \in Int /\ m \in Int
        BY <1>10, <3>2
      <4> QED
        BY <4>1, <4>2
    <3> QED
      BY <3>1, <3>3, <3>4, <3>5
  <2> QED
    BY <2>1, <2>3, <2>4 DEF DividesBy
<1>14. out.exit = 0 /\ out.out = <<r>>
  BY <1>5, <1>6, <1>9
<1>15. CountTells(job, job.args, r, Given("-b"), ValueOf("-d", 1))
  BY <1>9, <1>12, <1>13 DEF CountTells
<1> HIDE DEF last, text
<1>16. Len(out.out) = 1 /\ out.out[1] = r
  BY <1>14
<1> QED
  BY <1>14, <1>15, <1>16

(* Two files of any length are compared as CmpRight says and standard       *)
(* input of any length comes out of tee as TeeRight says, wherever the      *)
(* blocks in which buf[] is filled end: for every -b and every block size   *)
(* of tee, for outputs with any room and buffers of any size.  A status of  *)
(* 0 of tee promises all but the last buffer of each output, no more: the   *)
(* fclose() at tee.c:37 is not asked.  What count prints of a text of any   *)
(* length, after any options that a command line may give, are its          *)
(* characters, its ends of lines, the runs of characters between gaps, or   *)
(* its lines divided by the last -d, rounded up.                            *)
THEOREM BlocksAreRight == Spec => []BlocksRight
<1>1. Outcome => BlocksRight
  BY CmpIsRight, TeeIsRight, CountIsRight DEF BlocksRight
<1> QED
  BY <1>1, OutcomeHolds, PTL

-----------------------------------------------------------------------------
(* fixmod, argument by argument.  Asked holds what -ue may ask for.         *)
Asked(args) == {Number(Value(args[i])) : i \in DOMAIN args}
Sealing(args) == [good: BOOLEAN, sealed: BOOLEAN, edition: Int \cup Asked(args)]

FixState(args, D) ==
  [exit: 0..2, update: BOOLEAN, edition: SUBSET Asked(args), names: Nat, status: 0..1,
   disk: [D -> Sealing(args)], faults: [D -> Fault], out: Seq(D)]

FixTakes(args) == {a \in FixmodOption : Number(Value(a)) \in Asked(args)}

FixBegins(jb) ==
  [exit |-> 2, update |-> FALSE, edition |-> {}, names |-> 0, status |-> 0, disk |-> jb.disk,
   faults |-> jb.faults, out |-> <<>>]

LEMMA EditedTyped ==
  ASSUME NEW args, NEW D, NEW s \in FixState(args, D), NEW m \in Sealing(args)
  PROVE  /\ Edited(m, s) \in Sealing(args) /\ Edited(m, s).good = m.good
         /\ Edited(m, s).sealed = (m.sealed \/ s.update \/ s.edition # {})
         /\ ~ s.update /\ s.edition = {} => Edited(m, s) = m
<1>1. s.update \in BOOLEAN /\ s.edition \in SUBSET Asked(args)
  BY DEF FixState
<1>2. m.good \in BOOLEAN /\ m.sealed \in BOOLEAN /\ m.edition \in Int \cup Asked(args)
      /\ m = [good |-> m.good, sealed |-> m.sealed, edition |-> m.edition]
  BY DEF Sealing
<1>3. s.edition # {} => (CHOOSE n \in s.edition : TRUE) \in Asked(args)
  BY <1>1
<1>4. PICK e \in Int \cup Asked(args) :
        e = (IF s.edition = {} THEN m.edition ELSE CHOOSE n \in s.edition : TRUE)
        /\ (s.edition = {} => e = m.edition)
  BY <1>2, <1>3
<1>5. PICK sealed \in BOOLEAN : sealed = (m.sealed \/ s.update \/ s.edition # {})
  OBVIOUS
<1>6. Edited(m, s) = [good |-> m.good, sealed |-> sealed, edition |-> e]
  BY <1>4, <1>5 DEF Edited
<1>7. ~ s.update /\ s.edition = {} => sealed = m.sealed /\ e = m.edition
  BY <1>1, <1>2, <1>4, <1>5
<1> QED
  BY <1>2, <1>4, <1>5, <1>6, <1>7 DEF Sealing

(* A module that was written over: what is not sealed was cut off. *)
LEMMA WrittenIs ==
  ASSUME NEW args, NEW D, NEW s \in FixState(args, D), NEW m \in Sealing(args), NEW f \in Fault
  PROVE  /\ Written(m, s, f) \in Sealing(args) /\ Written(m, s, f).good = m.good
         /\ ~ Asking(s) => Written(m, s, f) = m
         /\ Written(m, s, f).sealed \/ Written(m, s, f) = m \/ f.at \in {"write", "flush"}
<1>1. PICK new : new = Edited(m, s)
  OBVIOUS
<1>2. /\ new \in Sealing(args) /\ new.good = m.good
      /\ new.sealed = (m.sealed \/ s.update \/ s.edition # {})
      /\ ~ s.update /\ s.edition = {} => new = m
  BY <1>1, EditedTyped
<1>3. PICK torn : torn = [new EXCEPT !.sealed = m.sealed /\ new.edition = m.edition]
  OBVIOUS
<1>4. Written(m, s, f) = IF f.at \notin {"write", "flush"} THEN new ELSE IF f.header THEN torn ELSE m
  BY <1>1, <1>3 DEF Written
<1>5. m.sealed \in BOOLEAN /\ s.update \in BOOLEAN /\ s.edition \in SUBSET Asked(args)
  BY DEF Sealing, FixState
<1>6. torn \in Sealing(args) /\ torn.good = m.good
  <2>1. PICK kept \in BOOLEAN : kept = (m.sealed /\ new.edition = m.edition)
    BY <1>5
  <2>2. torn = [new EXCEPT !.sealed = kept]
    BY <1>3, <2>1
  <2> QED
    BY <1>2, <2>2 DEF Sealing
<1>7. ~ Asking(s) => new = m
  BY <1>2, <1>5 DEF Asking
<1>8. ~ Asking(s) => torn = m
  <2> SUFFICES ASSUME ~ Asking(s) PROVE torn = m
    OBVIOUS
  <2>1. torn = [m EXCEPT !.sealed = m.sealed /\ m.edition = m.edition]
    BY <1>3, <1>7
  <2>2. (m.sealed /\ m.edition = m.edition) = m.sealed
    BY <1>5
  <2>3. torn = [m EXCEPT !.sealed = m.sealed]
    BY <2>1, <2>2
  <2> QED
    BY <2>3 DEF Sealing
<1>9. new.sealed \/ new = m
  <2>1. CASE Asking(s)
    BY <1>2, <1>5, <2>1 DEF Asking
  <2>2. CASE ~ Asking(s)
    BY <1>7, <2>2
  <2> QED
    BY <2>1, <2>2
<1> QED
  BY <1>2, <1>4, <1>6, <1>7, <1>8, <1>9

(* What one argument does. *)
EditDone(args, D, s, name, u) ==
  /\ u \in FixState(args, D)
  /\ u.exit = s.exit /\ u.update = s.update /\ u.edition = {} /\ u.names = s.names /\ u.faults = s.faults
  /\ u.status = IF Failing(s, name) THEN 1 ELSE s.status
  /\ u.disk = IF Refused(s, name) THEN s.disk
              ELSE [s.disk EXCEPT ![name] = Written(s.disk[name], s, s.faults[name])]

LEMMA NotRefused ==
  ASSUME NEW args, NEW D, NEW s \in FixState(args, D), NEW name, ~ Refused(s, name)
  PROVE  /\ name \in D /\ s.disk[name].good /\ s.disk[name] \in Sealing(args) /\ s.faults[name] \in Fault
         /\ Written(s.disk[name], s, s.faults[name]) \in Sealing(args)
<1>1. DOMAIN s.disk = D /\ s.disk \in [D -> Sealing(args)] /\ s.faults \in [D -> Fault]
  BY DEF FixState
<1>2. name \in D /\ s.disk[name].good
  BY <1>1 DEF Refused
<1>3. s.disk[name] \in Sealing(args) /\ s.faults[name] \in Fault
  BY <1>1, <1>2
<1> QED
  BY <1>2, <1>3, WrittenIs

LEMMA EditOneIs ==
  ASSUME NEW args, NEW D, NEW s \in FixState(args, D), NEW name
  PROVE  EditDone(args, D, s, name, EditOne(s, name))
<1>1. PICK status \in 0..1 : status = IF Failing(s, name) THEN 1 ELSE s.status
  <2>1. s.status \in 0..1 /\ 1 \in 0..1
    BY DEF FixState
  <2> QED
    BY <2>1
<1>2. PICK d \in [D -> Sealing(args)] :
        d = IF Refused(s, name) THEN s.disk
            ELSE [s.disk EXCEPT ![name] = Written(s.disk[name], s, s.faults[name])]
  <2>1. s.disk \in [D -> Sealing(args)]
    BY DEF FixState
  <2>2. CASE Refused(s, name)
    BY <2>1, <2>2
  <2>3. CASE ~ Refused(s, name)
    <3>1. PICK w \in Sealing(args) : w = Written(s.disk[name], s, s.faults[name])
      BY <2>3, NotRefused
    <3>2. [s.disk EXCEPT ![name] = w] \in [D -> Sealing(args)]
      BY <2>1
    <3> QED
      BY <2>3, <3>1, <3>2
  <2> QED
    BY <2>2, <2>3
<1>3. PICK o \in Seq(D) : o = IF Asking(s) /\ ~ Failing(s, name) THEN Append(s.out, name) ELSE s.out
  <2>1. s.out \in Seq(D)
    BY DEF FixState
  <2>2. CASE Asking(s) /\ ~ Failing(s, name)
    <3>1. name \in D
      BY <2>2, NotRefused DEF Failing
    <3>2. Append(s.out, name) \in Seq(D)
      BY <2>1, <3>1, AppendProperties
    <3> QED
      BY <2>2, <3>2
  <2>3. CASE ~ (Asking(s) /\ ~ Failing(s, name))
    BY <2>1, <2>3
  <2> QED
    BY <2>2, <2>3
<1>4. EditOne(s, name) = [s EXCEPT !.edition = {}, !.status = status, !.disk = d, !.out = o]
  <2>1. EditOne(s, name) =
          [s EXCEPT !.edition = {},
                    !.status = IF Failing(s, name) THEN 1 ELSE @,
                    !.disk = IF Refused(s, name) THEN s.disk
                             ELSE [s.disk EXCEPT ![name] = Written(s.disk[name], s, s.faults[name])],
                    !.out = IF Asking(s) /\ ~ Failing(s, name) THEN Append(@, name) ELSE @]
    BY DEF EditOne
  <2> QED
    BY <1>1, <1>2, <1>3, <2>1 DEF FixState
<1>5. PICK a : a = [s EXCEPT !.edition = {}]
  OBVIOUS
<1>6. /\ a \in FixState(args, D) /\ a.edition = {} /\ a.exit = s.exit /\ a.update = s.update
      /\ a.names = s.names /\ a.faults = s.faults
  BY <1>5 DEF FixState
<1>7. PICK b : b = [a EXCEPT !.status = status]
  OBVIOUS
<1>8. /\ b \in FixState(args, D) /\ b.edition = {} /\ b.exit = s.exit /\ b.update = s.update
      /\ b.names = s.names /\ b.faults = s.faults /\ b.status = status
  BY <1>6, <1>7 DEF FixState
<1>9. PICK c : c = [b EXCEPT !.disk = d]
  OBVIOUS
<1>10. /\ c \in FixState(args, D) /\ c.edition = {} /\ c.exit = s.exit /\ c.update = s.update
       /\ c.names = s.names /\ c.faults = s.faults /\ c.status = status /\ c.disk = d
  BY <1>8, <1>9 DEF FixState
<1>11. PICK u : u = [c EXCEPT !.out = o]
  OBVIOUS
<1>12. /\ u \in FixState(args, D) /\ u.edition = {} /\ u.exit = s.exit /\ u.update = s.update
       /\ u.names = s.names /\ u.faults = s.faults /\ u.status = status /\ u.disk = d
  BY <1>10, <1>11 DEF FixState
<1>13. EditOne(s, name) = u
  BY <1>4, <1>5, <1>7, <1>9, <1>11 DEF FixState
<1> QED
  BY <1>1, <1>2, <1>12, <1>13 DEF EditDone

(* What is known behind an argument, in terms of the state before it. *)
FileDone(s, m, n, u) ==
  /\ s.disk[n].good /\ m.good = s.disk[n].good
  /\ s.update \/ s.edition # {}
  /\ m.sealed \/ s.faults[n].at \in {"write", "flush"}
  /\ u.status = 0 => m.sealed \/ s.faults[n].at = "flush"

WordDone(s, name, u, D) ==
  /\ u.exit = 2 /\ u.update = s.update /\ u.edition = {} /\ u.names = s.names + 1
  /\ u.status = 0 => s.status = 0 /\ name \in D /\ s.disk[name].good
  /\ \A n \in D : u.disk[n] # s.disk[n] => n = name /\ FileDone(s, u.disk[n], n, u)

FixDone(args, D, s, a, u) ==
  /\ u \in FixState(args, D) /\ u.faults = s.faults
  /\ s.exit # 2 => u = s
  /\ s.exit = 2 =>
       \/ u.exit # 2 /\ (u.exit = 0 => a.o = "-?") /\ u.disk = s.disk
       \/ /\ u.exit = 2 /\ u.names = s.names /\ u.status = s.status /\ u.disk = s.disk
          /\ \/ a.o = "-u" /\ u.edition = s.edition
             \/ a.o = "-u?" /\ u.update = s.update
       \/ a.o = "word" /\ WordDone(s, a.name, u, D)

LEMMA WordIs ==
  ASSUME NEW args, NEW D, NEW s \in FixState(args, D), NEW name, s.exit = 2
  PROVE  LET u == EditOne([s EXCEPT !.names = @ + 1], name)
         IN u \in FixState(args, D) /\ u.faults = s.faults /\ WordDone(s, name, u, D)
<1>1. PICK more \in Nat : more = s.names + 1
  BY DEF FixState
<1>2. PICK v : v = [s EXCEPT !.names = more]
  OBVIOUS
<1>3. /\ v \in FixState(args, D)
      /\ v.exit = 2 /\ v.update = s.update /\ v.edition = s.edition /\ v.status = s.status
      /\ v.disk = s.disk /\ v.names = more /\ v.faults = s.faults
  BY <1>2 DEF FixState
<1>4. PICK u : u = EditOne([s EXCEPT !.names = @ + 1], name)
  OBVIOUS
<1>5. u = EditOne(v, name)
  BY <1>1, <1>2, <1>4
<1>6. EditDone(args, D, v, name, u)
  BY <1>3, <1>5, EditOneIs
<1>7. /\ u \in FixState(args, D) /\ u.exit = 2 /\ u.update = s.update /\ u.edition = {} /\ u.names = more
      /\ u.faults = s.faults /\ u.status = IF Failing(v, name) THEN 1 ELSE v.status
  BY <1>3, <1>6 DEF EditDone
<1>8. u.disk = IF Refused(v, name) THEN s.disk
               ELSE [s.disk EXCEPT ![name] = Written(s.disk[name], v, s.faults[name])]
  BY <1>3, <1>6 DEF EditDone
<1>9. u.status = 0 => s.status = 0 /\ name \in D /\ s.disk[name].good
  <2> SUFFICES ASSUME u.status = 0 PROVE s.status = 0 /\ name \in D /\ s.disk[name].good
    OBVIOUS
  <2>1. ~ Failing(v, name) /\ v.status = 0
    BY <1>7
  <2>2. ~ Refused(v, name)
    BY <2>1 DEF Failing
  <2>3. name \in D /\ v.disk[name].good
    BY <1>3, <2>2, NotRefused
  <2> QED
    BY <1>3, <2>1, <2>3
<1>10. ASSUME NEW n \in D, u.disk[n] # s.disk[n]
       PROVE  n = name /\ FileDone(s, u.disk[n], n, u)
  <2>1. ~ Refused(v, name)
    BY <1>8, <1>10
  <2>2. DOMAIN s.disk = D
    BY DEF FixState
  <2>3. name \in D /\ s.disk[name].good /\ s.disk[name] \in Sealing(args) /\ s.faults[name] \in Fault
    BY <1>3, <2>1, NotRefused
  <2>4. PICK m, f, w : m = s.disk[name] /\ f = s.faults[name] /\ w = Written(m, v, f)
    OBVIOUS
  <2>5. u.disk = [s.disk EXCEPT ![name] = w]
    BY <1>8, <2>1, <2>4
  <2>6. n = name /\ u.disk[n] = w /\ w # m
    BY <1>10, <2>2, <2>4, <2>5
  <2>7. /\ w.good = m.good
        /\ ~ Asking(v) => w = m
        /\ w.sealed \/ w = m \/ f.at \in {"write", "flush"}
    BY <1>3, <2>3, <2>4, WrittenIs
  <2>8. Asking(v) /\ (w.sealed \/ f.at \in {"write", "flush"})
    BY <2>6, <2>7
  <2>9. u.status = 0 => w.sealed \/ f.at = "flush"
    <3> SUFFICES ASSUME u.status = 0 PROVE w.sealed \/ f.at = "flush"
      OBVIOUS
    <3>1. ~ Failing(v, name)
      BY <1>7
    <3>2. v.faults[name].at # "write"
      BY <2>8, <3>1 DEF Failing
    <3> QED
      BY <1>3, <2>4, <2>8, <3>2
  <2>10. s.update \/ s.edition # {}
    BY <1>3, <2>8 DEF Asking
  <2> QED
    BY <2>3, <2>4, <2>6, <2>7, <2>8, <2>9, <2>10 DEF FileDone
<1>11. WordDone(s, name, u, D)
  BY <1>1, <1>7, <1>9, <1>10 DEF WordDone
<1> QED
  BY <1>4, <1>7, <1>11

LEMMA FixStepIs ==
  ASSUME NEW args, NEW D, NEW s \in FixState(args, D), NEW a \in FixTakes(args)
  PROVE  FixDone(args, D, s, a, FixmodArgument(s, a))
<1>1. CASE s.exit # 2
  BY <1>1 DEF FixmodArgument, FixDone
<1>2. CASE s.exit = 2 /\ a.o = "-?"
  <2>1. PICK u : u = [s EXCEPT !.exit = 0]
    OBVIOUS
  <2>2. u \in FixState(args, D) /\ u.exit = 0 /\ u.disk = s.disk /\ u.faults = s.faults
    BY <2>1 DEF FixState
  <2>3. FixmodArgument(s, a) = u
    BY <1>2, <2>1 DEF FixmodArgument
  <2> QED
    BY <1>2, <2>2, <2>3 DEF FixDone
<1>3. CASE s.exit = 2 /\ a.o = "-u"
  <2>1. PICK u : u = [s EXCEPT !.update = TRUE]
    OBVIOUS
  <2>2. /\ u \in FixState(args, D) /\ u.exit = s.exit /\ u.disk = s.disk
        /\ u.names = s.names /\ u.status = s.status /\ u.edition = s.edition /\ u.faults = s.faults
    BY <2>1 DEF FixState
  <2>3. FixmodArgument(s, a) = u
    BY <1>3, <2>1 DEF FixmodArgument
  <2> QED
    BY <1>3, <2>2, <2>3 DEF FixDone
<1>4. CASE s.exit = 2 /\ a.o = "-u?"
  <2>1. PICK u : u = [s EXCEPT !.exit = 1]
    OBVIOUS
  <2>2. u \in FixState(args, D) /\ u.exit = 1 /\ u.disk = s.disk /\ u.faults = s.faults
    BY <2>1 DEF FixState
  <2>3. PICK asked \in SUBSET Asked(args) : asked = {Number(Value(a))}
    BY DEF FixTakes
  <2>4. PICK v : v = [s EXCEPT !.edition = asked]
    OBVIOUS
  <2>5. /\ v \in FixState(args, D) /\ v.exit = s.exit /\ v.disk = s.disk
        /\ v.names = s.names /\ v.status = s.status /\ v.update = s.update /\ v.faults = s.faults
    BY <2>4 DEF FixState
  <2>6. FixmodArgument(s, a) = u \/ FixmodArgument(s, a) = v
    BY <1>4, <2>1, <2>3, <2>4 DEF FixmodArgument
  <2> QED
    BY <1>4, <2>2, <2>5, <2>6 DEF FixDone
<1>5. CASE s.exit = 2 /\ a.o = "word"
  <2>1. FixmodArgument(s, a) = EditOne([s EXCEPT !.names = @ + 1], a.name)
    BY <1>5 DEF FixmodArgument
  <2> QED
    BY <1>5, <2>1, WordIs DEF FixDone
<1>6. CASE s.exit = 2 /\ a.o \notin {"-?", "-u", "-u?", "word"}
  <2>1. PICK u : u = [s EXCEPT !.exit = 1]
    OBVIOUS
  <2>2. u \in FixState(args, D) /\ u.exit = 1 /\ u.disk = s.disk /\ u.faults = s.faults
    BY <2>1 DEF FixState
  <2>3. FixmodArgument(s, a) = u
    BY <1>6, <2>1 DEF FixmodArgument
  <2> QED
    BY <1>6, <2>2, <2>3 DEF FixDone
<1> QED
  BY <1>1, <1>2, <1>3, <1>4, <1>5, <1>6

FixSteps(acc, jb, args, D) ==
  /\ acc \in [0..Len(args) -> FixState(args, D)]
  /\ acc[0] = FixBegins(jb)
  /\ \A i \in 1..Len(args) : args[i] \in FixTakes(args) /\ acc[i] = FixmodArgument(acc[i - 1], args[i])

FixEnds(jb) == FoldLeft(FixmodArgument, FixBegins(jb), jb.args)

FixLine(jb, D) ==
  /\ jb.args \in Seq(FixmodOption) /\ D = DOMAIN jb.disk /\ jb.disk \in [D -> ModuleFile]
  /\ jb.faults \in [D -> Fault]

LEMMA FixArgsFold ==
  ASSUME NEW jb, NEW D, NEW args, args = jb.args, FixLine(jb, D)
  PROVE  \E acc : FixSteps(acc, jb, args, D) /\ FixEnds(jb) = acc[Len(args)]
<1> DEFINE State == FixState(args, D)
           Options == FixTakes(args)
           begins == FixBegins(jb)
           g == [s \in State |-> [a \in Options |-> FixmodArgument(s, a)]]
           fold(it) == [s \in SUBSET DOMAIN args |->
                          IF s = {} THEN begins ELSE FixmodArgument(it[s \ {Max(s)}], args[Max(s)])]
           chosen == CHOOSE it : it = fold(it)
<1>1. FixEnds(jb) = chosen[DOMAIN args]
  <2>1. FixEnds(jb) = (CHOOSE it : it = [s \in SUBSET DOMAIN jb.args |->
           IF s = {} THEN FixBegins(jb) ELSE FixmodArgument(it[s \ {Max(s)}], jb.args[Max(s)])])[DOMAIN jb.args]
    BY DEF FixEnds, FoldLeft, MapThenFoldSet
  <2> QED
    BY <2>1
<1>2. args \in Seq(Options)
  <2>1. args \in Seq(FixmodOption)
    BY DEF FixLine
  <2>2. \A i \in DOMAIN args : args[i] \in Options
    BY <2>1 DEF FixTakes, Asked
  <2> QED
    BY <2>1, <2>2
<1>3. begins \in State
  <2>1. jb.disk \in [D -> Sealing(args)]
    BY DEF FixLine, ModuleFile, Sealing
  <2>3. jb.faults \in [D -> Fault]
    BY DEF FixLine
  <2>2. <<>> \in Seq(D) /\ 2 \in 0..2 /\ 0 \in 0..1 /\ 0 \in Nat
    OBVIOUS
  <2> QED
    BY <2>1, <2>2, <2>3 DEF FixBegins, FixState
<1>4. g \in [State -> [Options -> State]]
  <2>1. \A s \in State, a \in Options : FixmodArgument(s, a) \in State
    BY FixStepIs DEF FixDone
  <2> QED
    BY <2>1
<1>5. \A s \in State, a \in Options : g[s][a] = FixmodArgument(s, a)
  OBVIOUS
<1> HIDE DEF g, State, Options, begins
<1>6. \A s \in SUBSET DOMAIN args : s # {} => args[Max(s)] \in Options /\ s \ {Max(s)} \in SUBSET DOMAIN args
  BY <1>2, LastIn
<1>7. PICK it \in [SUBSET DOMAIN args -> State] : Folds(it, State, begins, g, args)
  BY <1>2, <1>3, <1>4, FoldExists
<1>8. it = fold(it)
  BY <1>5, <1>6, <1>7 DEF Folds
<1>9. PICK end : end = fold(end) /\ chosen[DOMAIN args] = end[DOMAIN args]
  BY <1>8
<1> HIDE DEF chosen
<1>10. Folds(end, State, begins, g, args)
  BY <1>5, <1>6, <1>9 DEF Folds
<1>11. Ends(end[DOMAIN args], State, Options, begins, g, args)
  BY <1>2, <1>3, <1>4, <1>10, FoldRuns
<1>12. PICK acc \in [0..Len(args) -> State] :
         /\ acc[0] = begins /\ end[DOMAIN args] = acc[Len(args)]
         /\ \A i \in 1..Len(args) : acc[i - 1] \in State /\ args[i] \in Options
                                    /\ acc[i] = g[acc[i - 1]][args[i]]
  BY <1>11 DEF Ends
<1>13. \A i \in 1..Len(args) : args[i] \in Options /\ acc[i] = FixmodArgument(acc[i - 1], args[i])
  BY <1>5, <1>12
<1> QED
  BY <1>1, <1>9, <1>12, <1>13 DEF FixSteps, State, Options, begins

(* What holds behind the first k arguments. *)
NamedBy(args, k, n) == \E i \in 1..k : args[i].o = "word" /\ args[i].name = n
NoNumber(args, k) == \A i \in 1..k : args[i].o # "-u?"
UpdateBy(args, k) == \E i \in 1..k : args[i].o = "-u"
UpdatedBy(args, k) == \E i, j \in 1..k : i < j /\ args[i].o = "-u" /\ args[j].o = "word"

ModuleHeld(args, k, m, n, jb) ==
  /\ m.good = jb.disk[n].good
  /\ m # jb.disk[n] => /\ NamedBy(args, k, n) /\ jb.disk[n].good
                       /\ m.sealed \/ jb.faults[n].at \in {"write", "flush"}
                       /\ NoNumber(args, k) => UpdatedBy(args, k)

Honest(m, n, jb) == m # jb.disk[n] => m.sealed \/ jb.faults[n].at = "flush"

Held(args, k, s, jb, D) ==
  /\ s \in FixState(args, D) /\ s.faults = jb.faults
  /\ \A n \in D : ModuleHeld(args, k, s.disk[n], n, jb)
  /\ s.exit = 0 => \E i \in 1..k : args[i].o = "-?"
  /\ s.exit = 2 =>
       /\ s.status = 0 => /\ \A n : NamedBy(args, k, n) => n \in D /\ jb.disk[n].good
                          /\ \A n \in D : Honest(s.disk[n], n, jb)
       /\ s.names # 0 => \E n : NamedBy(args, k, n)
       /\ NoNumber(args, k) => s.edition = {} /\ (s.update => UpdateBy(args, k))

LEMMA NextArgument ==
  ASSUME NEW args, NEW k \in Nat, NEW a, a = args[k + 1]
  PROVE  /\ \A n : NamedBy(args, k + 1, n) <=> NamedBy(args, k, n) \/ (a.o = "word" /\ a.name = n)
         /\ NoNumber(args, k + 1) <=> NoNumber(args, k) /\ a.o # "-u?"
         /\ UpdateBy(args, k + 1) <=> UpdateBy(args, k) \/ a.o = "-u"
         /\ UpdatedBy(args, k) => UpdatedBy(args, k + 1)
         /\ UpdateBy(args, k) /\ a.o = "word" => UpdatedBy(args, k + 1)
         /\ (\E i \in 1..k : args[i].o = "-?") \/ a.o = "-?" => \E i \in 1..(k + 1) : args[i].o = "-?"
<1>1. \A i : i \in 1..(k + 1) <=> i \in 1..k \/ i = k + 1
  OBVIOUS
<1>2. \A i \in 1..k : i < k + 1
  OBVIOUS
<1>3. \A n : NamedBy(args, k + 1, n) <=> NamedBy(args, k, n) \/ (a.o = "word" /\ a.name = n)
  BY <1>1 DEF NamedBy
<1>4. NoNumber(args, k + 1) <=> NoNumber(args, k) /\ a.o # "-u?"
  BY <1>1 DEF NoNumber
<1>5. UpdateBy(args, k + 1) <=> UpdateBy(args, k) \/ a.o = "-u"
  BY <1>1 DEF UpdateBy
<1>6. UpdatedBy(args, k) => UpdatedBy(args, k + 1)
  BY <1>1 DEF UpdatedBy
<1>7. UpdateBy(args, k) /\ a.o = "word" => UpdatedBy(args, k + 1)
  BY <1>1, <1>2 DEF UpdateBy, UpdatedBy
<1>8. (\E i \in 1..k : args[i].o = "-?") \/ a.o = "-?" => \E i \in 1..(k + 1) : args[i].o = "-?"
  BY <1>1
<1> QED
  BY <1>3, <1>4, <1>5, <1>6, <1>7, <1>8

LEMMA HeldMore ==
  ASSUME NEW args, NEW D, NEW jb, NEW k \in Nat, NEW s, NEW a, NEW u,
         a = args[k + 1], Held(args, k, s, jb, D), FixDone(args, D, s, a, u)
  PROVE  Held(args, k + 1, u, jb, D)
<1>1. /\ u \in FixState(args, D) /\ u.faults = jb.faults /\ s.faults = jb.faults
      /\ \A n \in D : ModuleHeld(args, k, s.disk[n], n, jb)
      /\ s.exit = 0 => \E i \in 1..k : args[i].o = "-?"
      /\ s \in FixState(args, D)
  BY DEF Held, FixDone
<1>2. ASSUME NEW n, NEW m, ModuleHeld(args, k, m, n, jb)
      PROVE  ModuleHeld(args, k + 1, m, n, jb)
  BY <1>2, NextArgument DEF ModuleHeld
<1>3. CASE s.exit # 2
  <2>1. u = s
    BY <1>3 DEF FixDone
  <2>2. \A n \in D : ModuleHeld(args, k + 1, u.disk[n], n, jb)
    BY <1>1, <1>2, <2>1
  <2>3. u.exit = 0 => \E i \in 1..(k + 1) : args[i].o = "-?"
    BY <1>1, <2>1, NextArgument
  <2> QED
    BY <1>1, <1>3, <2>1, <2>2, <2>3 DEF Held
<1>4. CASE s.exit = 2 /\ u.exit # 2 /\ (u.exit = 0 => a.o = "-?") /\ u.disk = s.disk
  <2>1. \A n \in D : ModuleHeld(args, k + 1, u.disk[n], n, jb)
    BY <1>1, <1>2, <1>4
  <2>2. u.exit = 0 => \E i \in 1..(k + 1) : args[i].o = "-?"
    BY <1>4, NextArgument
  <2> QED
    BY <1>1, <1>4, <2>1, <2>2 DEF Held
<1>5. s.exit = 2 =>
        /\ s.status = 0 => /\ \A n : NamedBy(args, k, n) => n \in D /\ jb.disk[n].good
                           /\ \A n \in D : Honest(s.disk[n], n, jb)
        /\ s.names # 0 => \E n : NamedBy(args, k, n)
        /\ NoNumber(args, k) => s.edition = {} /\ (s.update => UpdateBy(args, k))
  BY DEF Held
<1>6. CASE /\ s.exit = 2 /\ u.exit = 2 /\ u.names = s.names /\ u.status = s.status /\ u.disk = s.disk
           /\ \/ a.o = "-u" /\ u.edition = s.edition
              \/ a.o = "-u?" /\ u.update = s.update
  <2>1. \A n \in D : ModuleHeld(args, k + 1, u.disk[n], n, jb)
    BY <1>1, <1>2, <1>6
  <2>2. u.status = 0 => /\ \A n : NamedBy(args, k + 1, n) => n \in D /\ jb.disk[n].good
                        /\ \A n \in D : Honest(u.disk[n], n, jb)
    <3>1. a.o # "word"
      BY <1>6
    <3> QED
      BY <1>5, <1>6, <3>1, NextArgument
  <2>3. u.names # 0 => \E n : NamedBy(args, k + 1, n)
    BY <1>5, <1>6, NextArgument
  <2>4. NoNumber(args, k + 1) => u.edition = {} /\ (u.update => UpdateBy(args, k + 1))
    BY <1>5, <1>6, NextArgument
  <2> QED
    BY <1>1, <1>6, <2>1, <2>2, <2>3, <2>4 DEF Held
<1>7. CASE s.exit = 2 /\ a.o = "word" /\ WordDone(s, a.name, u, D)
  <2>1. /\ u.exit = 2 /\ u.update = s.update /\ u.edition = {}
        /\ u.status = 0 => s.status = 0 /\ a.name \in D /\ s.disk[a.name].good
        /\ \A n \in D : u.disk[n] # s.disk[n] => n = a.name /\ FileDone(s, u.disk[n], n, u)
    BY <1>7 DEF WordDone
  <2>2. NamedBy(args, k + 1, a.name) /\ (NoNumber(args, k + 1) => NoNumber(args, k) /\ (s.update => UpdatedBy(args, k + 1)))
    BY <1>5, <1>7, NextArgument
  <2>3. ASSUME NEW n \in D PROVE ModuleHeld(args, k + 1, u.disk[n], n, jb)
    <3>1. CASE u.disk[n] = s.disk[n]
      BY <1>1, <1>2, <3>1
    <3>2. CASE u.disk[n] # s.disk[n]
      <4>1. /\ n = a.name /\ s.disk[n].good /\ u.disk[n].good = s.disk[n].good
            /\ s.update \/ s.edition # {}
            /\ u.disk[n].sealed \/ jb.faults[n].at \in {"write", "flush"}
        BY <1>1, <2>1, <3>2 DEF FileDone
      <4>2. s.disk[n].good = jb.disk[n].good
        BY <1>1 DEF ModuleHeld
      <4>3. NoNumber(args, k + 1) => UpdatedBy(args, k + 1)
        <5>1. NoNumber(args, k + 1) => s.edition = {}
          BY <1>5, <1>7, <2>2
        <5> QED
          BY <2>2, <4>1, <5>1
      <4> QED
        BY <2>2, <4>1, <4>2, <4>3 DEF ModuleHeld
    <3> QED
      BY <3>1, <3>2
  <2>4. u.status = 0 => \A n : NamedBy(args, k + 1, n) => n \in D /\ jb.disk[n].good
    <3>1. a.name \in D => s.disk[a.name].good = jb.disk[a.name].good
      BY <1>1 DEF ModuleHeld
    <3> QED
      BY <1>5, <1>7, <2>1, <3>1, NextArgument
  <2>5. ASSUME u.status = 0, NEW n \in D PROVE Honest(u.disk[n], n, jb)
    <3>1. CASE u.disk[n] = s.disk[n]
      BY <1>5, <1>7, <2>1, <2>5, <3>1
    <3>2. CASE u.disk[n] # s.disk[n]
      BY <1>1, <2>1, <2>5, <3>2 DEF FileDone, Honest
    <3> QED
      BY <3>1, <3>2
  <2>6. NoNumber(args, k + 1) => (u.update => UpdateBy(args, k + 1))
    BY <1>5, <1>7, <2>1, NextArgument
  <2> QED
    BY <1>1, <2>1, <2>2, <2>3, <2>4, <2>5, <2>6 DEF Held
<1>8. s.exit = 2 =>
       \/ u.exit # 2 /\ (u.exit = 0 => a.o = "-?") /\ u.disk = s.disk
       \/ /\ u.exit = 2 /\ u.names = s.names /\ u.status = s.status /\ u.disk = s.disk
          /\ \/ a.o = "-u" /\ u.edition = s.edition
             \/ a.o = "-u?" /\ u.update = s.update
       \/ a.o = "word" /\ WordDone(s, a.name, u, D)
  BY DEF FixDone
<1> QED
  BY <1>3, <1>4, <1>6, <1>7, <1>8

(* The property of the run, as a predicate of a command line and a result.  *)
FixVerdict(jb, r) ==
  LET named == {a.name : a \in {b \in Range(jb.args) : b.o = "word"}}
      changed == {n \in DOMAIN jb.disk : r.disk[n] # jb.disk[n]}
      update == \E i, j \in DOMAIN jb.args : i < j /\ jb.args[i].o = "-u" /\ jb.args[j].o = "word"
      broken(faults) == {n \in changed : ~ r.disk[n].sealed /\ jb.faults[n].at \notin faults}
  IN /\ changed \subseteq named /\ \A n \in changed : jb.disk[n].good
     /\ broken({"write", "flush"}) = {}
     /\ r.exit = 0 /\ ~ (\E a \in Range(jb.args) : a.o = "-?") =>
          /\ named # {} /\ \A n \in named : n \in DOMAIN jb.disk /\ jb.disk[n].good
          /\ broken({"flush"}) = {}
     /\ (\A a \in Range(jb.args) : a.o # "-u?") => \A n \in changed : update

LEMMA FixVerdictHolds ==
  ASSUME NEW jb, NEW D, FixLine(jb, D), NEW args, args = jb.args, NEW s, NEW r,
         Held(args, Len(args), s, jb, D), r = Fixmod(jb), s = FixEnds(jb)
  PROVE  FixVerdict(jb, r)
<1> DEFINE named == {a.name : a \in {b \in Range(jb.args) : b.o = "word"}}
           changed == {n \in DOMAIN jb.disk : r.disk[n] # jb.disk[n]}
           update == \E i, j \in DOMAIN jb.args : i < j /\ jb.args[i].o = "-u" /\ jb.args[j].o = "word"
           broken(faults) == {n \in changed : ~ r.disk[n].sealed /\ jb.faults[n].at \notin faults}
<1>1. r.disk = s.disk /\ r.exit = IF s.exit # 2 THEN s.exit ELSE IF s.names = 0 THEN 1 ELSE s.status
  BY DEF Fixmod, FixEnds, FixBegins
<1>2. DOMAIN args = 1..Len(args) /\ Range(args) = {args[i] : i \in 1..Len(args)} /\ D = DOMAIN jb.disk
  BY DEF FixLine, Range
<1>3. \A n : n \in named <=> NamedBy(args, Len(args), n)
  BY <1>2 DEF NamedBy
<1>4. update <=> UpdatedBy(args, Len(args))
  BY <1>2 DEF UpdatedBy
<1>5. (\A a \in Range(jb.args) : a.o # "-u?") <=> NoNumber(args, Len(args))
  BY <1>2 DEF NoNumber
<1>6. (\E a \in Range(jb.args) : a.o = "-?") <=> \E i \in 1..Len(args) : args[i].o = "-?"
  BY <1>2
<1>7. \A n \in D : s.disk[n] # jb.disk[n] =>
                     /\ NamedBy(args, Len(args), n) /\ jb.disk[n].good
                     /\ s.disk[n].sealed \/ jb.faults[n].at \in {"write", "flush"}
                     /\ NoNumber(args, Len(args)) => UpdatedBy(args, Len(args))
  BY DEF Held, ModuleHeld
<1>8. r.exit = 0 /\ ~ (\E a \in Range(jb.args) : a.o = "-?") => s.exit = 2 /\ s.names # 0 /\ s.status = 0
  BY <1>1, <1>6 DEF Held
<1>9. s.exit = 2 =>
        /\ s.status = 0 => /\ \A n : NamedBy(args, Len(args), n) => n \in D /\ jb.disk[n].good
                           /\ \A n \in D : s.disk[n] # jb.disk[n] =>
                                s.disk[n].sealed \/ jb.faults[n].at = "flush"
        /\ s.names # 0 => \E n : NamedBy(args, Len(args), n)
  BY DEF Held, Honest
<1> HIDE DEF named, update
<1>10. changed \subseteq named /\ \A n \in changed : jb.disk[n].good
  BY <1>1, <1>2, <1>3, <1>7
<1>11. broken({"write", "flush"}) = {}
  BY <1>1, <1>2, <1>7
<1>12. r.exit = 0 /\ ~ (\E a \in Range(jb.args) : a.o = "-?") =>
          named # {} /\ \A n \in named : n \in DOMAIN jb.disk /\ jb.disk[n].good
  BY <1>2, <1>3, <1>8, <1>9
<1>13. r.exit = 0 /\ ~ (\E a \in Range(jb.args) : a.o = "-?") => broken({"flush"}) = {}
  BY <1>1, <1>2, <1>8, <1>9
<1>14. (\A a \in Range(jb.args) : a.o # "-u?") => \A n \in changed : update
  BY <1>1, <1>2, <1>4, <1>5, <1>7
<1> HIDE DEF broken, changed
<1>15. /\ changed \subseteq named /\ \A n \in changed : jb.disk[n].good
       /\ broken({"write", "flush"}) = {}
       /\ r.exit = 0 /\ ~ (\E a \in Range(jb.args) : a.o = "-?") =>
            /\ named # {} /\ \A n \in named : n \in DOMAIN jb.disk /\ jb.disk[n].good
            /\ broken({"flush"}) = {}
       /\ (\A a \in Range(jb.args) : a.o # "-u?") => \A n \in changed : update
  BY <1>10, <1>11, <1>12, <1>13, <1>14
<1> QED
  BY <1>15 DEF FixVerdict, named, update, changed, broken

LEMMA FixmodIs ==
  ASSUME NEW jb, NEW D, FixLine(jb, D)
  PROVE  FixVerdict(jb, Fixmod(jb))
<1> DEFINE args == jb.args
<1>1. PICK acc : FixSteps(acc, jb, args, D) /\ FixEnds(jb) = acc[Len(args)]
  BY FixArgsFold
<1>2. Len(args) \in Nat
  BY DEF FixLine
<1> DEFINE S == {k \in 0..Len(args) : Held(args, k, acc[k], jb, D)}
<1>3. 0 \in S
  <2>1. acc[0] = FixBegins(jb) /\ acc[0] \in FixState(args, D)
    BY <1>1, <1>2 DEF FixSteps
  <2>2. PICK s : s = FixBegins(jb)
    OBVIOUS
  <2>3. s.exit = 2 /\ s.names = 0 /\ s.edition = {} /\ s.update = FALSE /\ s.disk = jb.disk /\ s.faults = jb.faults
    BY <2>2 DEF FixBegins
  <2>4. \A n : ~ NamedBy(args, 0, n)
    BY DEF NamedBy
  <2>5. \A n \in D : ModuleHeld(args, 0, s.disk[n], n, jb)
    BY <2>3 DEF ModuleHeld
  <2>7. \A n \in D : Honest(s.disk[n], n, jb)
    BY <2>3 DEF Honest
  <2>6. Held(args, 0, s, jb, D)
    BY <2>1, <2>2, <2>3, <2>4, <2>5, <2>7 DEF Held
  <2> QED
    BY <1>2, <2>1, <2>2, <2>6
<1>4. ASSUME NEW k \in 0..(Len(args) - 1), k \in S PROVE k + 1 \in S
  <2>1. k \in Nat /\ k + 1 \in 1..Len(args) /\ k + 1 \in 0..Len(args) /\ (k + 1) - 1 = k /\ k \in 0..Len(args)
    BY <1>2, <1>4
  <2>2. /\ acc[k] \in FixState(args, D) /\ args[k + 1] \in FixTakes(args)
        /\ acc[k + 1] = FixmodArgument(acc[k], args[k + 1])
    BY <1>1, <2>1 DEF FixSteps
  <2>3. FixDone(args, D, acc[k], args[k + 1], acc[k + 1])
    BY <2>2, FixStepIs
  <2>4. Held(args, k, acc[k], jb, D)
    BY <1>4
  <2>5. Held(args, k + 1, acc[k + 1], jb, D)
    BY <2>1, <2>3, <2>4, HeldMore
  <2> QED
    BY <2>1, <2>5
<1> HIDE DEF S
<1>5. 0..Len(args) \subseteq S
  BY <1>2, <1>3, <1>4, CountingUp
<1>6. Held(args, Len(args), acc[Len(args)], jb, D)
  BY <1>2, <1>5 DEF S
<1> QED
  BY <1>1, <1>6, FixVerdictHolds

LEMMA FixmodHolds ==
  ASSUME NEW jb \in Jobs, jb.tool = "fixmod"
  PROVE  FixVerdict(jb, Fixmod(jb))
<1>1. FixLine(jb, DOMAIN jb.disk)
  BY ToolsAssumption DEF FixLine
<1> QED
  BY <1>1, FixmodIs

LEMMA FixmodIsRight == Outcome => FixmodRight
<1> SUFFICES ASSUME Outcome, Ran("fixmod") PROVE FixmodRight
  BY DEF FixmodRight
<1>1. out = Fixmod(job) /\ job \in Jobs /\ job.tool = "fixmod"
  BY DEF Outcome, Ran
<1>2. FixVerdict(job, out)
  BY <1>1, FixmodHolds
<1> QED
  BY <1>2 DEF FixVerdict, FixmodRight

-----------------------------------------------------------------------------
(* attr, letter by letter.                                                  *)
LetterState == [mode: SUBSET Attribute, enable: BOOLEAN, p: BOOLEAN, bad: BOOLEAN]

Second(text, k) == k > 1 /\ text[k - 1] = "p"
Fits(text, k) ==
  text[k] \in IF Second(text, k) THEN {"e", "w", "r"} ELSE {"-", "n", "p", "d", "s", "e", "w", "r"}
Known(text, k) == \A j \in 1..k : Fits(text, j)
Means(text, k) == IF Second(text, k) THEN Public(text[k]) ELSE text[k]
Mentions(text, k, x) == {j \in 1..k : x = Means(text, j)}
Signs(text, k) == {j \in 1..k : text[j] \in {"-", "n"}}
LastOf(S) == CHOOSE j \in S : \A i \in S : i <= j
On(text, k) == Signs(text, k) # {} => text[LastOf(Signs(text, k))] = "-"
New(text, k, x, mode) ==
  IF Mentions(text, k, x) = {} THEN x \in mode ELSE On(text, LastOf(Mentions(text, k, x)))

LEMMA LastAdded ==
  ASSUME NEW k \in Nat, NEW S \in SUBSET (1..k)
  PROVE  LastOf(S \cup {k + 1}) = k + 1
<1> DEFINE T == S \cup {k + 1}
<1>1. k + 1 \in T /\ \A i \in T : i <= k + 1 /\ i \in Int
  OBVIOUS
<1>2. PICK j \in T : j = LastOf(T) /\ \A i \in T : i <= j
  BY <1>1 DEF LastOf
<1>3. j \in Int /\ k + 1 <= j /\ j <= k + 1
  BY <1>1, <1>2
<1> QED
  BY <1>2, <1>3

LEMMA OnMore ==
  ASSUME NEW text, NEW k \in Nat
  PROVE  /\ text[k + 1] = "-" => On(text, k + 1)
         /\ text[k + 1] = "n" => ~ On(text, k + 1)
         /\ text[k + 1] \notin {"-", "n"} => (On(text, k + 1) <=> On(text, k))
<1>1. \A i : i \in 1..(k + 1) <=> i \in 1..k \/ i = k + 1
  OBVIOUS
<1>2. CASE text[k + 1] \in {"-", "n"}
  <2>1. Signs(text, k + 1) = Signs(text, k) \cup {k + 1} /\ Signs(text, k) \in SUBSET (1..k)
    BY <1>1, <1>2 DEF Signs
  <2>2. LastOf(Signs(text, k + 1)) = k + 1
    BY <2>1, LastAdded
  <2>3. On(text, k + 1) <=> text[k + 1] = "-"
    BY <2>1, <2>2 DEF On
  <2> QED
    BY <1>2, <2>3
<1>3. CASE text[k + 1] \notin {"-", "n"}
  <2>1. Signs(text, k + 1) = Signs(text, k)
    BY <1>1, <1>3 DEF Signs
  <2>2. On(text, k + 1) <=> On(text, k)
    BY <2>1 DEF On
  <2> QED
    BY <1>3, <2>2
<1> QED
  BY <1>2, <1>3

LEMMA NewMore ==
  ASSUME NEW text, NEW k \in Nat, NEW x, NEW mode
  PROVE  /\ x = Means(text, k + 1) => (New(text, k + 1, x, mode) <=> On(text, k + 1))
         /\ x # Means(text, k + 1) => (New(text, k + 1, x, mode) <=> New(text, k, x, mode))
<1>1. \A i : i \in 1..(k + 1) <=> i \in 1..k \/ i = k + 1
  OBVIOUS
<1>2. CASE x = Means(text, k + 1)
  <2>1. Mentions(text, k + 1, x) = Mentions(text, k, x) \cup {k + 1} /\ Mentions(text, k, x) \in SUBSET (1..k)
    BY <1>1, <1>2 DEF Mentions
  <2>2. LastOf(Mentions(text, k + 1, x)) = k + 1
    BY <2>1, LastAdded
  <2>3. New(text, k + 1, x, mode) <=> On(text, k + 1)
    BY <2>1, <2>2 DEF New
  <2> QED
    BY <1>2, <2>3
<1>3. CASE x # Means(text, k + 1)
  <2>1. Mentions(text, k + 1, x) = Mentions(text, k, x)
    BY <1>1, <1>3 DEF Mentions
  <2>2. New(text, k + 1, x, mode) <=> New(text, k, x, mode)
    BY <2>1 DEF New
  <2> QED
    BY <1>3, <2>2
<1> QED
  BY <1>2, <1>3

(* One letter. *)
Plain(s, u) == ~ u.bad /\ u.mode = s.mode
Switched(s, x, u) ==
  /\ ~ u.bad /\ ~ u.p /\ u.enable = s.enable
  /\ \A y \in Attribute : y \in u.mode <=> IF y = x THEN s.enable ELSE y \in s.mode

LetterDone(s, c, u) ==
  /\ u \in LetterState
  /\ s.bad => u = s
  /\ ~ s.bad /\ s.p => IF c \in {"e", "w", "r"} THEN Switched(s, Public(c), u) ELSE u.bad
  /\ ~ s.bad /\ ~ s.p =>
       /\ c = "-" => Plain(s, u) /\ ~ u.p /\ u.enable = TRUE
       /\ c = "n" => Plain(s, u) /\ ~ u.p /\ u.enable = FALSE
       /\ c = "p" => Plain(s, u) /\ u.p /\ u.enable = s.enable
       /\ c \in {"d", "s", "e", "w", "r"} => Switched(s, c, u)
       /\ c \notin {"-", "n", "p", "d", "s", "e", "w", "r"} => u.bad

LEMMA SwitchIs ==
  ASSUME NEW s \in LetterState, NEW x \in Attribute, ~ s.bad
  PROVE  Switch(s, x) \in LetterState /\ Switched(s, x, Switch(s, x))
<1>1. s.mode \in SUBSET Attribute /\ s.enable \in BOOLEAN
  BY DEF LetterState
<1>2. PICK m \in SUBSET Attribute : m = IF s.enable THEN s.mode \cup {x} ELSE s.mode \ {x}
  BY <1>1
<1>3. PICK u : u = [s EXCEPT !.mode = m, !.p = FALSE]
  OBVIOUS
<1>4. u \in LetterState /\ u.mode = m /\ u.p = FALSE /\ u.bad = s.bad /\ u.enable = s.enable
  BY <1>3 DEF LetterState
<1>5. Switch(s, x) = u
  BY <1>2, <1>3 DEF Switch
<1>6. \A y \in Attribute : y \in u.mode <=> IF y = x THEN s.enable ELSE y \in s.mode
  BY <1>1, <1>2, <1>4
<1> QED
  BY <1>4, <1>5, <1>6 DEF Switched

LEMMA LetterIs ==
  ASSUME NEW s \in LetterState, NEW c \in STRING
  PROVE  LetterDone(s, c, Letter(s, c))
<1>1. PICK u : u = Letter(s, c)
  OBVIOUS
<1>2. s.bad \in BOOLEAN /\ s.p \in BOOLEAN
  BY DEF LetterState
<1>3. PICK v : v = [s EXCEPT !.bad = TRUE]
  OBVIOUS
<1>4. v \in LetterState /\ v.bad
  BY <1>3 DEF LetterState
<1>5. CASE s.bad
  BY <1>5 DEF Letter, LetterDone
<1>6. CASE ~ s.bad /\ s.p
  <2>1. CASE c \in {"e", "w", "r"}
    <3>1. u = Switch(s, Public(c)) /\ Public(c) \in Attribute
      BY <1>1, <1>6, <2>1 DEF Letter, Public, Attribute
    <3> QED
      BY <1>1, <1>6, <2>1, <3>1, SwitchIs DEF LetterDone
  <2>2. CASE c \notin {"e", "w", "r"}
    <3>1. u = v
      BY <1>1, <1>3, <1>6, <2>2 DEF Letter
    <3> QED
      BY <1>1, <1>4, <1>6, <2>2, <3>1 DEF LetterDone
  <2> QED
    BY <2>1, <2>2
<1>7. CASE ~ s.bad /\ ~ s.p
  <2>1. CASE c = "-"
    <3>1. u = [s EXCEPT !.enable = TRUE]
      BY <1>1, <1>7, <2>1 DEF Letter
    <3>2. u \in LetterState /\ Plain(s, u) /\ ~ u.p /\ u.enable = TRUE
      BY <1>7, <3>1 DEF LetterState, Plain
    <3> QED
      BY <1>1, <1>7, <2>1, <3>2 DEF LetterDone
  <2>2. CASE c = "n"
    <3>1. u = [s EXCEPT !.enable = FALSE]
      BY <1>1, <1>7, <2>2 DEF Letter
    <3>2. u \in LetterState /\ Plain(s, u) /\ ~ u.p /\ u.enable = FALSE
      BY <1>7, <3>1 DEF LetterState, Plain
    <3> QED
      BY <1>1, <1>7, <2>2, <3>2 DEF LetterDone
  <2>3. CASE c = "p"
    <3>1. u = [s EXCEPT !.p = TRUE]
      BY <1>1, <1>7, <2>3 DEF Letter
    <3>2. u \in LetterState /\ Plain(s, u) /\ u.p /\ u.enable = s.enable
      BY <1>7, <3>1 DEF LetterState, Plain
    <3> QED
      BY <1>1, <1>7, <2>3, <3>2 DEF LetterDone
  <2>4. CASE c \in {"d", "s", "e", "w", "r"}
    <3>1. u = Switch(s, c) /\ c \in Attribute
      BY <1>1, <1>7, <2>4 DEF Letter, Attribute
    <3>2. u \in LetterState /\ Switched(s, c, u)
      BY <1>7, <3>1, SwitchIs
    <3> QED
      BY <1>1, <1>7, <2>4, <3>2 DEF LetterDone
  <2>5. CASE c \notin {"-", "n", "p", "d", "s", "e", "w", "r"}
    <3>1. u = v
      BY <1>1, <1>3, <1>7, <2>5 DEF Letter
    <3> QED
      BY <1>1, <1>4, <1>7, <2>5, <3>1 DEF LetterDone
  <2> QED
    BY <2>1, <2>2, <2>3, <2>4, <2>5
<1> QED
  BY <1>2, <1>5, <1>6, <1>7

(* What is known behind the k-th letter. *)
Lettered(text, k, s, mode) ==
  /\ s \in LetterState
  /\ s.bad <=> ~ Known(text, k)
  /\ ~ s.bad => /\ s.p <=> k > 0 /\ text[k] = "p"
                /\ s.enable <=> On(text, k)
                /\ \A x \in Attribute : x \in s.mode <=> New(text, k, x, mode)

LEMMA LetteredMore ==
  ASSUME NEW text, NEW mode, NEW k \in Nat, NEW s, NEW c, NEW u,
         c = text[k + 1], Lettered(text, k, s, mode), LetterDone(s, c, u)
  PROVE  Lettered(text, k + 1, u, mode)
<1>1. s \in LetterState /\ u \in LetterState
  BY DEF Lettered, LetterDone
<1>2. /\ s.bad \in BOOLEAN /\ s.p \in BOOLEAN /\ s.enable \in BOOLEAN
      /\ u.bad \in BOOLEAN /\ u.p \in BOOLEAN /\ u.enable \in BOOLEAN
  BY <1>1 DEF LetterState
<1>3. Known(text, k + 1) <=> Known(text, k) /\ Fits(text, k + 1)
  <2>1. \A i : i \in 1..(k + 1) <=> i \in 1..k \/ i = k + 1
    OBVIOUS
  <2> QED
    BY <2>1 DEF Known
<1>4. CASE s.bad
  <2>1. u = s /\ ~ Known(text, k)
    BY <1>4 DEF Lettered, LetterDone
  <2> QED
    BY <1>1, <1>3, <1>4, <2>1 DEF Lettered
<1>5. CASE ~ s.bad
  <2>1. /\ Known(text, k) /\ (s.p <=> k > 0 /\ text[k] = "p") /\ (s.enable <=> On(text, k))
        /\ \A x \in Attribute : x \in s.mode <=> New(text, k, x, mode)
    BY <1>5 DEF Lettered
  <2>2. Second(text, k + 1) <=> s.p
    <3>1. (k + 1) - 1 = k /\ (k + 1 > 1 <=> k > 0)
      OBVIOUS
    <3> QED
      BY <2>1, <3>1 DEF Second
  <2>3. k + 1 > 0
    OBVIOUS
  <2>4. ASSUME NEW x \in Attribute, x = Means(text, k + 1), c \notin {"-", "n", "p"},
               Switched(s, x, u), Fits(text, k + 1)
        PROVE  Lettered(text, k + 1, u, mode)
    <3>1. ~ u.bad /\ ~ u.p /\ u.enable = s.enable
      BY <2>4 DEF Switched
    <3>2. On(text, k + 1) <=> On(text, k)
      BY <2>4, OnMore
    <3>3. ASSUME NEW y \in Attribute PROVE y \in u.mode <=> New(text, k + 1, y, mode)
      <4>1. CASE y = x
        <5>1. y \in u.mode <=> s.enable
          BY <2>4, <4>1 DEF Switched
        <5>2. New(text, k + 1, y, mode) <=> On(text, k + 1)
          BY <2>4, <4>1, NewMore
        <5> QED
          BY <2>1, <3>2, <5>1, <5>2
      <4>2. CASE y # x
        <5>1. y \in u.mode <=> y \in s.mode
          BY <2>4, <4>2 DEF Switched
        <5>2. New(text, k + 1, y, mode) <=> New(text, k, y, mode)
          BY <2>4, <4>2, NewMore
        <5> QED
          BY <2>1, <5>1, <5>2
      <4> QED
        BY <4>1, <4>2
    <3>4. u.enable <=> On(text, k + 1)
      BY <2>1, <3>1, <3>2
    <3>5. u.p <=> k + 1 > 0 /\ text[k + 1] = "p"
      BY <2>4, <3>1
    <3> QED
      BY <1>1, <1>3, <2>1, <2>4, <3>1, <3>3, <3>4, <3>5 DEF Lettered
  <2>5. ASSUME c \in {"-", "n", "p"}, ~ s.p, Plain(s, u), Fits(text, k + 1),
               u.p <=> c = "p", u.enable <=> On(text, k + 1)
        PROVE  Lettered(text, k + 1, u, mode)
    <3>1. ASSUME NEW y \in Attribute PROVE y \in u.mode <=> New(text, k + 1, y, mode)
      <4>1. Means(text, k + 1) = c /\ y # c
        BY <2>2, <2>5 DEF Means, Attribute
      <4>2. New(text, k + 1, y, mode) <=> New(text, k, y, mode)
        BY <4>1, NewMore
      <4> QED
        BY <2>1, <2>5, <4>2 DEF Plain
    <3>2. ~ u.bad
      BY <2>5 DEF Plain
    <3> QED
      BY <1>1, <1>3, <2>1, <2>3, <2>5, <3>1, <3>2 DEF Lettered
  <2>6. ASSUME ~ Fits(text, k + 1), u.bad PROVE Lettered(text, k + 1, u, mode)
    BY <1>1, <1>3, <2>6 DEF Lettered
  <2>7. CASE s.p /\ c \in {"e", "w", "r"}
    <3>1. Switched(s, Public(c), u)
      BY <1>5, <2>7 DEF LetterDone
    <3>2. Public(c) \in Attribute /\ Means(text, k + 1) = Public(c) /\ Fits(text, k + 1)
      BY <2>2, <2>7 DEF Public, Attribute, Means, Fits
    <3>3. c \notin {"-", "n", "p"}
      BY <2>7
    <3> QED
      BY <2>4, <3>1, <3>2, <3>3
  <2>8. CASE s.p /\ c \notin {"e", "w", "r"}
    <3>1. u.bad /\ ~ Fits(text, k + 1)
      BY <1>5, <2>2, <2>8 DEF LetterDone, Fits
    <3> QED
      BY <2>6, <3>1
  <2>9. CASE ~ s.p /\ c \in {"d", "s", "e", "w", "r"}
    <3>1. Switched(s, c, u)
      BY <1>5, <2>9 DEF LetterDone
    <3>2. c \in Attribute /\ Means(text, k + 1) = c /\ Fits(text, k + 1)
      BY <2>2, <2>9 DEF Attribute, Means, Fits
    <3>3. c \notin {"-", "n", "p"}
      BY <2>9
    <3> QED
      BY <2>4, <3>1, <3>2, <3>3
  <2>10. CASE ~ s.p /\ c \in {"-", "n", "p"}
    <3>1. Fits(text, k + 1)
      BY <2>2, <2>10 DEF Fits
    <3>2. Plain(s, u) /\ (u.p <=> c = "p")
      BY <1>5, <2>10 DEF LetterDone
    <3>3. u.enable <=> On(text, k + 1)
      <4>1. CASE c = "-"
        <5>1. u.enable = TRUE
          BY <1>5, <2>10, <4>1 DEF LetterDone
        <5> QED
          BY <4>1, <5>1, OnMore
      <4>2. CASE c = "n"
        <5>1. u.enable = FALSE
          BY <1>5, <2>10, <4>2 DEF LetterDone
        <5> QED
          BY <4>2, <5>1, OnMore
      <4>3. CASE c = "p"
        <5>1. u.enable = s.enable
          BY <1>5, <2>10, <4>3 DEF LetterDone
        <5>2. On(text, k + 1) <=> On(text, k)
          BY <4>3, OnMore
        <5> QED
          BY <2>1, <5>1, <5>2
      <4> QED
        BY <2>10, <4>1, <4>2, <4>3
    <3> QED
      BY <2>5, <2>10, <3>1, <3>2, <3>3
  <2>11. CASE ~ s.p /\ c \notin {"-", "n", "p", "d", "s", "e", "w", "r"}
    <3>1. u.bad /\ ~ Fits(text, k + 1)
      BY <1>5, <2>2, <2>11 DEF LetterDone, Fits
    <3> QED
      BY <2>6, <3>1
  <2> QED
    BY <2>7, <2>8, <2>9, <2>10, <2>11
<1> QED
  BY <1>4, <1>5

LetterBegins(mode) == [mode |-> mode, enable |-> TRUE, p |-> FALSE, bad |-> FALSE]
LetterEnds(mode, text) == FoldLeft(Letter, LetterBegins(mode), text)

LetterSteps(acc, mode, text) ==
  /\ acc \in [0..Len(text) -> LetterState]
  /\ acc[0] = LetterBegins(mode)
  /\ \A i \in 1..Len(text) : acc[i] = Letter(acc[i - 1], text[i])

LEMMA LetterFold ==
  ASSUME NEW mode \in SUBSET Attribute, NEW text \in Seq(STRING)
  PROVE  \E acc : LetterSteps(acc, mode, text) /\ LetterEnds(mode, text) = acc[Len(text)]
<1> DEFINE begins == LetterBegins(mode)
           g == [s \in LetterState |-> [c \in STRING |-> Letter(s, c)]]
           fold(it) == [s \in SUBSET DOMAIN text |->
                          IF s = {} THEN begins ELSE Letter(it[s \ {Max(s)}], text[Max(s)])]
           chosen == CHOOSE it : it = fold(it)
<1>1. LetterEnds(mode, text) = chosen[DOMAIN text]
  BY DEF LetterEnds, FoldLeft, MapThenFoldSet
<1>2. begins \in LetterState
  BY DEF LetterBegins, LetterState
<1>3. g \in [LetterState -> [STRING -> LetterState]]
  BY LetterIs DEF LetterDone
<1>4. \A s \in LetterState, c \in STRING : g[s][c] = Letter(s, c)
  OBVIOUS
<1> HIDE DEF g, begins
<1>5. \A s \in SUBSET DOMAIN text : s # {} => text[Max(s)] \in STRING /\ s \ {Max(s)} \in SUBSET DOMAIN text
  BY LastIn
<1>6. PICK it \in [SUBSET DOMAIN text -> LetterState] : Folds(it, LetterState, begins, g, text)
  BY <1>2, <1>3, FoldExists
<1>7. it = fold(it)
  BY <1>4, <1>5, <1>6 DEF Folds
<1>8. PICK end : end = fold(end) /\ chosen[DOMAIN text] = end[DOMAIN text]
  BY <1>7
<1> HIDE DEF chosen
<1>9. Folds(end, LetterState, begins, g, text)
  BY <1>4, <1>5, <1>8 DEF Folds
<1>10. Ends(end[DOMAIN text], LetterState, STRING, begins, g, text)
  BY <1>2, <1>3, <1>9, FoldRuns
<1>11. PICK acc \in [0..Len(text) -> LetterState] :
         /\ acc[0] = begins /\ end[DOMAIN text] = acc[Len(text)]
         /\ \A i \in 1..Len(text) : acc[i - 1] \in LetterState /\ text[i] \in STRING
                                    /\ acc[i] = g[acc[i - 1]][text[i]]
  BY <1>10 DEF Ends
<1>12. \A i \in 1..Len(text) : acc[i] = Letter(acc[i - 1], text[i])
  BY <1>4, <1>11
<1> QED
  BY <1>1, <1>8, <1>11, <1>12 DEF LetterSteps, begins

LEMMA TextRead ==
  ASSUME NEW mode \in SUBSET Attribute, NEW text \in Seq(STRING)
  PROVE  Lettered(text, Len(text), LetterEnds(mode, text), mode)
<1>1. PICK acc : LetterSteps(acc, mode, text) /\ LetterEnds(mode, text) = acc[Len(text)]
  BY LetterFold
<1>2. Len(text) \in Nat
  OBVIOUS
<1> DEFINE S == {k \in 0..Len(text) : Lettered(text, k, acc[k], mode)}
<1>3. 0 \in S
  <2>1. acc[0] = LetterBegins(mode) /\ acc[0] \in LetterState
    BY <1>1, <1>2 DEF LetterSteps
  <2>2. PICK s : s = LetterBegins(mode)
    OBVIOUS
  <2>3. s.mode = mode /\ s.enable = TRUE /\ s.p = FALSE /\ s.bad = FALSE
    BY <2>2 DEF LetterBegins
  <2>4. Known(text, 0)
    BY DEF Known
  <2>5. On(text, 0)
    BY DEF On, Signs
  <2>6. \A x \in Attribute : New(text, 0, x, mode) <=> x \in mode
    BY DEF New, Mentions
  <2>7. Lettered(text, 0, s, mode)
    BY <2>1, <2>2, <2>3, <2>4, <2>5, <2>6 DEF Lettered
  <2> QED
    BY <1>2, <2>1, <2>2, <2>7
<1>4. ASSUME NEW k \in 0..(Len(text) - 1), k \in S PROVE k + 1 \in S
  <2>1. k \in Nat /\ k + 1 \in 1..Len(text) /\ k + 1 \in 0..Len(text) /\ (k + 1) - 1 = k /\ k \in 0..Len(text)
    BY <1>2, <1>4
  <2>2. acc[k] \in LetterState /\ text[k + 1] \in STRING /\ acc[k + 1] = Letter(acc[k], text[k + 1])
    BY <1>1, <2>1 DEF LetterSteps
  <2>3. LetterDone(acc[k], text[k + 1], acc[k + 1])
    BY <2>2, LetterIs
  <2>4. Lettered(text, k, acc[k], mode)
    BY <1>4
  <2>5. Lettered(text, k + 1, acc[k + 1], mode)
    BY <2>1, <2>3, <2>4, LetteredMore
  <2> QED
    BY <2>1, <2>5
<1> HIDE DEF S
<1>5. 0..Len(text) \subseteq S
  BY <1>2, <1>3, <1>4, CountingUp
<1>6. Lettered(text, Len(text), acc[Len(text)], mode)
  BY <1>2, <1>5 DEF S
<1> QED
  BY <1>1, <1>6

LEMMA PermissionsAre ==
  ASSUME NEW mode \in SUBSET Attribute, NEW text \in Seq(STRING), text # <<>>
  PROVE  LET new == ApplyPermissions(mode, text)
         IN /\ new.bad <=> ~ Known(text, Len(text)) \/ text[Len(text)] = "p"
            /\ ~ new.bad => new.mode = {x \in Attribute : New(text, Len(text), x, mode)}
<1>1. PICK s : s = LetterEnds(mode, text)
  OBVIOUS
<1>2. Lettered(text, Len(text), s, mode)
  BY <1>1, TextRead
<1>3. PICK new : new = ApplyPermissions(mode, text)
  OBVIOUS
<1>4. new.mode = s.mode /\ new.bad = (s.bad \/ s.p)
  BY <1>1, <1>3 DEF ApplyPermissions, LetterEnds, LetterBegins
<1>5. s.mode \in SUBSET Attribute /\ s.bad \in BOOLEAN /\ s.p \in BOOLEAN
  BY <1>2 DEF Lettered, LetterState
<1>6. Len(text) > 0
  OBVIOUS
<1>7. s.bad <=> ~ Known(text, Len(text))
  BY <1>2 DEF Lettered
<1>8. ~ s.bad => /\ s.p <=> text[Len(text)] = "p"
                 /\ \A x \in Attribute : x \in s.mode <=> New(text, Len(text), x, mode)
  BY <1>2, <1>6 DEF Lettered
<1>9. ~ s.bad => s.mode = {x \in Attribute : New(text, Len(text), x, mode)}
  BY <1>5, <1>8
<1> QED
  BY <1>3, <1>4, <1>5, <1>7, <1>8, <1>9

(* The command line: a path and a text. *)
AttrState(jb) ==
  [exit: 0..2, opts: SUBSET {"?", "q", "a", "x", "z"}, path: Seq(STRING), text: Seq(STRING), disk: {jb.disk}, out: {<<>>}]
AttrBegins(jb) == [exit |-> 2, opts |-> {}, path |-> <<>>, text |-> <<>>, disk |-> jb.disk, out |-> <<>>]
AttrEnds(jb) == FoldLeft(AttrArgument, AttrBegins(jb), jb.args)
Spelled == Seq(STRING) \ {<<>>}

LEMMA HelpTaken ==
  ASSUME NEW s, NEW a, s.exit = 2, a = <<"-", "?">>
  PROVE  AttrArgument(s, a) = [s EXCEPT !.exit = 0]
<1> DEFINE help == <<"-", "?">>
<1>1. a = help /\ a \in AttrOption
  BY DEF AttrOption
<1> HIDE DEF help
<1>2. AttrArgument(s, a) =
        CASE s.exit # 2 -> s
          [] s.exit = 2 /\ a = help -> [s EXCEPT !.exit = 0]
          [] s.exit = 2 /\ a \in AttrOption \ {help} -> [s EXCEPT !.opts = @ \cup {a[2]}]
          [] s.exit = 2 /\ Head(a) = "-" /\ a \notin AttrOption ->
               IF s.path # <<>> /\ s.text = <<>> THEN [s EXCEPT !.text = a] ELSE [s EXCEPT !.exit = 1]
          [] OTHER -> IF s.path = <<>> THEN [s EXCEPT !.path = a]
                      ELSE IF s.text = <<>> THEN [s EXCEPT !.text = a]
                      ELSE [s EXCEPT !.exit = 1]
  BY DEF AttrArgument, help
<1>3. s.exit = 2
  OBVIOUS
<1> QED
  BY <1>1, <1>2, <1>3

LEMMA AttrArgumentTyped ==
  ASSUME NEW jb, NEW s \in AttrState(jb), NEW a \in Spelled
  PROVE  AttrArgument(s, a) \in AttrState(jb)
<1>1. a[2] \in {"?", "q", "a", "x", "z"} \/ a \notin AttrOption
  <2>1. SUFFICES ASSUME a \in AttrOption PROVE a[2] \in {"?", "q", "a", "x", "z"}
    OBVIOUS
  <2>2. PICK o \in {"?", "q", "a", "x", "z"} : a = <<"-", o>>
    BY <2>1 DEF AttrOption
  <2>3. a[2] = o
    BY <2>2
  <2> QED
    BY <2>3
<1>2. CASE s.exit # 2
  BY <1>2 DEF AttrArgument
<1>3. CASE s.exit = 2 /\ a = <<"-", "?">>
  <2>1. AttrArgument(s, a) = [s EXCEPT !.exit = 0]
    BY <1>3, HelpTaken
  <2>2. 0 \in 0..2
    OBVIOUS
  <2> QED
    BY <2>1, <2>2 DEF AttrState
<1>4. CASE s.exit = 2 /\ a \in AttrOption \ {<<"-", "?">>}
  <2>1. PICK opts \in SUBSET {"?", "q", "a", "x", "z"} : opts = s.opts \cup {a[2]}
    BY <1>1, <1>4 DEF AttrState
  <2>2. AttrArgument(s, a) = [s EXCEPT !.opts = opts]
    BY <1>4, <2>1 DEF AttrArgument
  <2> QED
    BY <2>1, <2>2 DEF AttrState
<1>5. CASE s.exit = 2 /\ a # <<"-", "?">> /\ a \notin AttrOption
  <2>1. [s EXCEPT !.exit = 1] \in AttrState(jb)
    BY DEF AttrState
  <2>2. [s EXCEPT !.path = a] \in AttrState(jb)
    BY DEF AttrState, Spelled
  <2>3. [s EXCEPT !.text = a] \in AttrState(jb)
    BY DEF AttrState, Spelled
  <2>4. AttrArgument(s, a) \in {[s EXCEPT !.exit = 1], [s EXCEPT !.path = a], [s EXCEPT !.text = a]}
    BY <1>5 DEF AttrArgument
  <2> QED
    BY <2>1, <2>2, <2>3, <2>4
<1>6. <<"-", "?">> \in AttrOption
  BY DEF AttrOption
<1> QED
  BY <1>2, <1>3, <1>4, <1>5, <1>6

LEMMA AttrFold ==
  ASSUME NEW jb, NEW args \in Seq(Spelled), args = jb.args, Len(args) = 2
  PROVE  AttrEnds(jb) = AttrArgument(AttrArgument(AttrBegins(jb), args[1]), args[2])
<1> DEFINE State == AttrState(jb)
           begins == AttrBegins(jb)
           g == [s \in State |-> [a \in Spelled |-> AttrArgument(s, a)]]
           fold(it) == [s \in SUBSET DOMAIN args |->
                          IF s = {} THEN begins ELSE AttrArgument(it[s \ {Max(s)}], args[Max(s)])]
           chosen == CHOOSE it : it = fold(it)
<1>1. AttrEnds(jb) = chosen[DOMAIN args]
  BY DEF AttrEnds, FoldLeft, MapThenFoldSet
<1>2. begins \in State
  <2>1. <<>> \in Seq(STRING) /\ 2 \in 0..2
    OBVIOUS
  <2> QED
    BY <2>1 DEF AttrBegins, AttrState
<1>3. g \in [State -> [Spelled -> State]]
  BY AttrArgumentTyped
<1>4. \A s \in State, c \in Spelled : g[s][c] = AttrArgument(s, c)
  OBVIOUS
<1>20. \A s \in State, c \in Spelled : AttrArgument(s, c) \in State
  BY AttrArgumentTyped
<1> HIDE DEF g, begins, State
<1>5. \A s \in SUBSET DOMAIN args : s # {} => args[Max(s)] \in Spelled /\ s \ {Max(s)} \in SUBSET DOMAIN args
  BY LastIn
<1>6. PICK it \in [SUBSET DOMAIN args -> State] : Folds(it, State, begins, g, args)
  BY <1>2, <1>3, FoldExists
<1>7. it = fold(it)
  BY <1>4, <1>5, <1>6 DEF Folds
<1>8. PICK end : end = fold(end) /\ chosen[DOMAIN args] = end[DOMAIN args]
  BY <1>7
<1> HIDE DEF chosen
<1>9. Folds(end, State, begins, g, args)
  BY <1>4, <1>5, <1>8 DEF Folds
<1>10. Ends(end[DOMAIN args], State, Spelled, begins, g, args)
  BY <1>2, <1>3, <1>9, FoldRuns
<1>11. PICK acc \in [0..Len(args) -> State] :
         /\ acc[0] = begins /\ end[DOMAIN args] = acc[Len(args)]
         /\ \A i \in 1..Len(args) : acc[i - 1] \in State /\ args[i] \in Spelled
                                    /\ acc[i] = g[acc[i - 1]][args[i]]
  BY <1>10 DEF Ends
<1>12. acc[1] = AttrArgument(acc[0], args[1]) /\ acc[2] = AttrArgument(acc[1], args[2])
  BY <1>4, <1>11
<1> QED
  BY <1>1, <1>8, <1>11, <1>12 DEF begins

(* A path and a text behind it that is no option. *)
PathAndText(jb, path, text) ==
  /\ jb.args \in Seq(Spelled) /\ Len(jb.args) = 2 /\ path = jb.args[1] /\ text = jb.args[2]
  /\ path[1] # "-" /\ text \notin AttrOption
  /\ \A name \in DOMAIN jb.disk : jb.disk[name] \subseteq Attribute

LEMMA PathTaken ==
  ASSUME NEW jb, NEW path, NEW text, PathAndText(jb, path, text)
  PROVE  AttrEnds(jb) = [exit |-> 2, opts |-> {}, path |-> path, text |-> text, disk |-> jb.disk, out |-> <<>>]
<1>1. path \in Spelled /\ text \in Spelled /\ path # <<>>
  BY DEF PathAndText, Spelled
<1>2. path \notin AttrOption /\ Head(path) # "-"
  <2>1. Head(path) # "-"
    BY <1>1 DEF PathAndText, Spelled
  <2>2. \A a \in AttrOption : Head(a) = "-"
    BY DEF AttrOption
  <2> QED
    BY <2>1, <2>2
<1>3. <<"-", "?">> \in AttrOption
  BY DEF AttrOption
<1>4. PICK s : s = AttrBegins(jb)
  OBVIOUS
<1>5. s.exit = 2 /\ s.path = <<>> /\ s.text = <<>>
  BY <1>4 DEF AttrBegins
<1>6. AttrArgument(s, path) = [s EXCEPT !.path = path]
  BY <1>2, <1>3, <1>5 DEF AttrArgument
<1>7. PICK t : t = [s EXCEPT !.path = path]
  OBVIOUS
<1>8. t = [exit |-> 2, opts |-> {}, path |-> path, text |-> <<>>, disk |-> jb.disk, out |-> <<>>]
  BY <1>4, <1>7 DEF AttrBegins
<1>9. t.exit = 2 /\ t.path # <<>> /\ t.text = <<>>
  BY <1>1, <1>8
<1>10. text \notin AttrOption
  BY DEF PathAndText
<1>11. AttrArgument(t, text) = [t EXCEPT !.text = text]
  BY <1>3, <1>9, <1>10 DEF AttrArgument
<1>12. AttrEnds(jb) = AttrArgument(AttrArgument(s, path), text)
  BY <1>4, AttrFold DEF PathAndText
<1>13. [t EXCEPT !.text = text] = [exit |-> 2, opts |-> {}, path |-> path, text |-> text, disk |-> jb.disk, out |-> <<>>]
  <2> DEFINE none == <<>>
  <2>1. t = [exit |-> 2, opts |-> {}, path |-> path, text |-> none, disk |-> jb.disk, out |-> none]
    BY <1>8
  <2> HIDE DEF none
  <2>2. [t EXCEPT !.text = text] = [exit |-> 2, opts |-> {}, path |-> path, text |-> text, disk |-> jb.disk, out |-> none]
    BY <2>1
  <2> QED
    BY <2>2 DEF none
<1> QED
  BY <1>6, <1>7, <1>11, <1>12, <1>13

(* What attr does then. *)
AttrDone(jb, path, text, r) ==
  LET n == Len(text)
  IN IF Known(text, n) /\ text[n] # "p" /\ ~ jb.fails /\ path \in DOMAIN jb.disk
     THEN /\ r.exit = 0
          /\ r.disk = [jb.disk EXCEPT ![path] = {x \in Attribute : New(text, n, x, jb.disk[path])}]
          /\ r.out = <<r.disk[path]>>
     ELSE r.exit = 1 /\ r.disk = jb.disk

LEMMA AttrIs ==
  ASSUME NEW jb, NEW path, NEW text, PathAndText(jb, path, text)
  PROVE  AttrDone(jb, path, text, Attr(jb))
<1>1. PICK s : s = AttrEnds(jb)
  OBVIOUS
<1>2. s = [exit |-> 2, opts |-> {}, path |-> path, text |-> text, disk |-> jb.disk, out |-> <<>>]
  BY <1>1, PathTaken
<1>3. path # <<>> /\ text # <<>> /\ text \in Seq(STRING)
  BY DEF PathAndText, Spelled
<1>4. PICK end : end = ProcessPath(s, path, text, jb.disk, jb.fails)
  OBVIOUS
<1>5. Attr(jb) = [exit |-> IF end.exit = 2 THEN 0 ELSE end.exit, disk |-> end.disk, out |-> end.out]
  <2> DEFINE ends == AttrEnds(jb)
             listed == FoldLeft(LAMBDA t, n : ProcessPath(t, n, <<>>, t.disk, jb.fails), ends, jb.list)
             one == ProcessPath(ends, ends.path, ends.text, ends.disk, jb.fails)
             last == IF ends.exit # 2 THEN ends ELSE IF "z" \in ends.opts THEN listed
                     ELSE IF ends.path # <<>> THEN one ELSE [ends EXCEPT !.exit = 1]
  <2>3. Attr(jb) = [exit |-> IF last.exit = 2 THEN 0 ELSE last.exit, disk |-> last.disk, out |-> last.out]
    BY DEF Attr, AttrEnds, AttrBegins
  <2> HIDE DEF listed
  <2>4. s.exit = 2 /\ "z" \notin s.opts /\ s.path = path /\ s.text = text /\ s.disk = jb.disk
    BY <1>2
  <2>5. last = end
    BY <1>1, <1>3, <1>4, <2>4
  <2> QED
    BY <2>3, <2>5
<1>6. CASE path \notin DOMAIN jb.disk
  <2>1. end = [s EXCEPT !.exit = 1]
    BY <1>4, <1>6 DEF ProcessPath
  <2>2. end.exit = 1 /\ end.disk = jb.disk
    BY <1>2, <2>1
  <2> QED
    BY <1>5, <1>6, <2>2 DEF AttrDone
<1>7. CASE path \in DOMAIN jb.disk
  <2>1. jb.disk[path] \in SUBSET Attribute
    BY <1>7 DEF PathAndText
  <2>2. PICK new : new = ApplyPermissions(jb.disk[path], text)
    OBVIOUS
  <2>3. /\ new.bad <=> ~ Known(text, Len(text)) \/ text[Len(text)] = "p"
        /\ ~ new.bad => new.mode = {x \in Attribute : New(text, Len(text), x, jb.disk[path])}
    BY <1>3, <2>1, <2>2, PermissionsAre
  <2>4. CASE new.bad \/ jb.fails
    <3>1. end = [s EXCEPT !.exit = 1]
      BY <1>3, <1>4, <1>7, <2>2, <2>4 DEF ProcessPath
    <3>2. end.exit = 1 /\ end.disk = jb.disk
      BY <1>2, <3>1
    <3> QED
      BY <1>5, <2>3, <2>4, <3>2 DEF AttrDone
  <2>5. CASE ~ (new.bad \/ jb.fails)
    <3>1. PICK disk : disk = [jb.disk EXCEPT ![path] = new.mode]
      OBVIOUS
    <3>2. end = [s EXCEPT !.disk = disk, !.out = IF "a" \in s.opts THEN @ ELSE Append(@, new.mode)]
      BY <1>3, <1>4, <1>7, <2>2, <2>5, <3>1 DEF ProcessPath
    <3>3. end.exit = 2 /\ end.disk = disk /\ end.out = <<new.mode>>
      BY <1>2, <3>2
    <3>4. disk[path] = new.mode
      BY <1>7, <3>1
    <3>5. PICK r : r = Attr(jb)
      OBVIOUS
    <3>6. r.exit = 0 /\ r.disk = disk /\ r.out = <<new.mode>>
      BY <1>5, <3>3, <3>5
    <3>7. new.mode = {x \in Attribute : New(text, Len(text), x, jb.disk[path])}
      BY <2>3, <2>5
    <3>8. Known(text, Len(text)) /\ text[Len(text)] # "p" /\ ~ jb.fails
      BY <2>3, <2>5
    <3>9. r.out = <<r.disk[path]>>
      BY <3>4, <3>6
    <3>10. r.disk = [jb.disk EXCEPT ![path] = {x \in Attribute : New(text, Len(text), x, jb.disk[path])}]
      BY <3>1, <3>6, <3>7
    <3> QED
      BY <1>7, <3>5, <3>6, <3>8, <3>9, <3>10 DEF AttrDone
  <2> QED
    BY <2>4, <2>5
<1> QED
  BY <1>6, <1>7

LEMMA AttrIsRight == Outcome => AttrRight
<1> SUFFICES ASSUME Outcome, Ran("attr"), Len(job.args) = 2, job.args[1][1] # "-", job.args[2] \notin AttrOption
             PROVE  AttrRight
  BY DEF AttrRight
<1>1. out = Attr(job) /\ job \in Jobs /\ job.tool = "attr"
  BY DEF Outcome, Ran
<1> DEFINE path == job.args[1]
           text == job.args[2]
<1>3. PathAndText(job, path, text)
  BY <1>1, ToolsAssumption DEF PathAndText, Spelled
<1>4. AttrDone(job, path, text, out)
  BY <1>1, <1>3, AttrIs
<1>5. DOMAIN text = 1..Len(text) /\ Last(text) = text[Len(text)]
  BY <1>3 DEF PathAndText, Spelled, Last
<1> DEFINE second(k) == k > 1 /\ text[k - 1] = "p"
           known == \A k \in DOMAIN text :
             text[k] \in IF second(k) THEN {"e", "w", "r"} ELSE {"-", "n", "p", "d", "s", "e", "w", "r"}
           mentions(x) == {k \in DOMAIN text : x = IF second(k) THEN Public(text[k]) ELSE text[k]}
           on(k) == LET signs == {j \in 1..k : text[j] \in {"-", "n"}}
                    IN signs # {} => text[CHOOSE j \in signs : \A i \in signs : i <= j] = "-"
           new(x) == IF mentions(x) = {} THEN x \in job.disk[path]
                     ELSE on(CHOOSE k \in mentions(x) : \A j \in mentions(x) : j <= k)
<1>6. known <=> Known(text, Len(text))
  BY <1>5 DEF Known, Fits, Second
<1>7. \A x : new(x) <=> New(text, Len(text), x, job.disk[path])
  BY <1>5 DEF New, Mentions, Means, Second, On, Signs, LastOf
<1>8. IF known /\ Last(text) # "p" /\ ~ job.fails /\ path \in DOMAIN job.disk
      THEN /\ out.exit = 0
           /\ out.disk = [job.disk EXCEPT ![path] = {x \in Attribute : new(x)}]
           /\ out.out = <<out.disk[path]>>
      ELSE out.exit = 1 /\ out.disk = job.disk
  <2> HIDE DEF known, new
  <2>1. {x \in Attribute : new(x)} = {x \in Attribute : New(text, Len(text), x, job.disk[path])}
    BY <1>7
  <2> QED
    BY <1>4, <1>5, <1>6, <2>1 DEF AttrDone
<1> QED
  BY <1>8 DEF AttrRight

-----------------------------------------------------------------------------
LEMMA Divided ==
  ASSUME NEW n \in Nat
  PROVE  /\ n = 256 * (n \div 256) + (n % 256) /\ n % 256 \in Nat /\ n % 256 < 256 /\ n \div 256 \in Nat
         /\ n = 65536 * (n \div 65536) + (n % 65536) /\ n % 65536 \in Nat /\ n % 65536 < 65536 /\ n \div 65536 \in Nat
         /\ n = 16777216 * (n \div 16777216) + (n % 16777216) /\ n % 16777216 \in Nat /\ n % 16777216 < 16777216
         /\ n \div 16777216 \in Nat
<1>1. n = 256 * (n \div 256) + (n % 256) /\ n % 256 \in Nat /\ n % 256 < 256 /\ n \div 256 \in Nat
  OBVIOUS
<1>2. n = 65536 * (n \div 65536) + (n % 65536) /\ n % 65536 \in Nat /\ n % 65536 < 65536 /\ n \div 65536 \in Nat
  OBVIOUS
<1>3. n = 16777216 * (n \div 16777216) + (n % 16777216) /\ n % 16777216 \in Nat /\ n % 16777216 < 16777216
      /\ n \div 16777216 \in Nat
  OBVIOUS
<1> QED
  BY <1>1, <1>2, <1>3

(* The bytes of a number, from the lowest.                                  *)
LEMMA BytesOf ==
  ASSUME NEW n \in Nat, n \div 65536 < 65536
  PROVE  \E b0, b1, b2, b3 \in Nat :
           /\ b0 < 256 /\ b1 < 256 /\ b2 < 256 /\ b3 < 256
           /\ n % 256 = b0 /\ (n \div 256) % 256 = b1 /\ (n \div 65536) % 256 = b2 /\ (n \div 16777216) % 256 = b3
           /\ n = 16777216 * b3 + 65536 * b2 + 256 * b1 + b0
           /\ n % 65536 = 256 * b1 + b0 /\ n % 16777216 = 65536 * b2 + 256 * b1 + b0
<1>1. PICK q1, b0 \in Nat : q1 = n \div 256 /\ b0 = n % 256 /\ n = 256 * q1 + b0 /\ b0 < 256
  BY Divided
<1>2. PICK q2, r2 \in Nat : q2 = n \div 65536 /\ r2 = n % 65536 /\ n = 65536 * q2 + r2 /\ r2 < 65536
  BY Divided
<1>3. PICK q3, r3 \in Nat : q3 = n \div 16777216 /\ r3 = n % 16777216 /\ n = 16777216 * q3 + r3 /\ r3 < 16777216
  BY Divided
<1>4. PICK t1, b1 \in Nat : t1 = q1 \div 256 /\ b1 = q1 % 256 /\ q1 = 256 * t1 + b1 /\ b1 < 256
  BY Divided
<1>5. PICK t2, b2 \in Nat : t2 = q2 \div 256 /\ b2 = q2 % 256 /\ q2 = 256 * t2 + b2 /\ b2 < 256
  BY Divided
<1>6. PICK t3, b3 \in Nat : t3 = q3 \div 256 /\ b3 = q3 % 256 /\ q3 = 256 * t3 + b3 /\ b3 < 256
  BY Divided
<1>21. q2 < 65536
  BY <1>2
<1>22. /\ n = 256 * q1 + b0 /\ b0 < 256 /\ n = 65536 * q2 + r2 /\ r2 < 65536
       /\ n = 16777216 * q3 + r3 /\ r3 < 16777216
  BY <1>1, <1>2, <1>3
<1>23. q1 = 256 * t1 + b1 /\ b1 < 256 /\ q2 = 256 * t2 + b2 /\ b2 < 256 /\ q3 = 256 * t3 + b3 /\ b3 < 256
  BY <1>4, <1>5, <1>6
<1>7. q2 = t1 /\ r2 = 256 * b1 + b0
  BY <1>22, <1>23
<1>8. q3 = t2 /\ r3 = 65536 * b2 + r2
  BY <1>22, <1>23
<1>9. t3 = 0 /\ n = 16777216 * b3 + 65536 * b2 + 256 * b1 + b0
  <2>1. t3 = 0
    BY <1>8, <1>21, <1>23
  <2> QED
    BY <1>7, <1>8, <1>22, <1>23, <2>1
<1>11. n % 65536 = 256 * b1 + b0 /\ n % 16777216 = 65536 * b2 + 256 * b1 + b0
  <2>1. r3 = 65536 * b2 + 256 * b1 + b0
    BY <1>7, <1>8
  <2>2. n % 65536 = r2 /\ n % 16777216 = r3
    BY <1>2, <1>3
  <2> QED
    BY <1>7, <2>1, <2>2
<1>12. n % 256 = b0
  BY <1>1
<1>13. (n \div 256) % 256 = b1
  BY <1>1, <1>4
<1>14. (n \div 65536) % 256 = b2
  BY <1>2, <1>5
<1>15. (n \div 16777216) % 256 = b3
  BY <1>3, <1>6
<1>16. b0 < 256 /\ b1 < 256 /\ b2 < 256 /\ b3 < 256
  BY <1>22, <1>23
<1> QED
  BY <1>9, <1>11, <1>12, <1>13, <1>14, <1>15, <1>16

(* Sums, and numbers read from their bytes.                                 *)
Sums(acc, text) ==
  /\ acc \in [0..Len(text) -> Nat] /\ acc[0] = 0
  /\ \A i \in 1..Len(text) : acc[i] = acc[i - 1] + text[i]

LEMMA SumFold ==
  ASSUME NEW text \in Seq(Nat)
  PROVE  \E acc : Sums(acc, text) /\ SumOf(text) = acc[Len(text)]
<1> DEFINE step(n, b) == n + b
           g == [n \in Nat |-> [b \in Nat |-> step(n, b)]]
           fold(it) == [s \in SUBSET DOMAIN text |->
                          IF s = {} THEN 0 ELSE step(it[s \ {Max(s)}], text[Max(s)])]
           chosen == CHOOSE it : it = fold(it)
<1>1. SumOf(text) = chosen[DOMAIN text]
  BY DEF SumOf, FoldLeft, MapThenFoldSet
<1>2. g \in [Nat -> [Nat -> Nat]] /\ 0 \in Nat
  OBVIOUS
<1>3. \A n \in Nat, b \in Nat : g[n][b] = step(n, b)
  OBVIOUS
<1> HIDE DEF step, g
<1>4. \A s \in SUBSET DOMAIN text : s # {} => text[Max(s)] \in Nat /\ s \ {Max(s)} \in SUBSET DOMAIN text
  BY LastIn
<1>5. PICK it \in [SUBSET DOMAIN text -> Nat] : Folds(it, Nat, 0, g, text)
  BY <1>2, FoldExists
<1>6. it = fold(it)
  BY <1>3, <1>4, <1>5 DEF Folds
<1>7. PICK end : end = fold(end) /\ chosen[DOMAIN text] = end[DOMAIN text]
  BY <1>6
<1> HIDE DEF chosen
<1>8. Folds(end, Nat, 0, g, text)
  BY <1>3, <1>4, <1>7 DEF Folds
<1>9. Ends(end[DOMAIN text], Nat, Nat, 0, g, text)
  BY <1>2, <1>8, FoldRuns
<1>10. PICK acc \in [0..Len(text) -> Nat] :
         /\ acc[0] = 0 /\ end[DOMAIN text] = acc[Len(text)]
         /\ \A i \in 1..Len(text) : acc[i - 1] \in Nat /\ text[i] \in Nat /\ acc[i] = g[acc[i - 1]][text[i]]
  BY <1>9 DEF Ends
<1>11. \A i \in 1..Len(text) : acc[i] = step(acc[i - 1], text[i])
  BY <1>3, <1>10
<1> QED
  BY <1>1, <1>7, <1>10, <1>11 DEF step, Sums

Shifts(acc, text) ==
  /\ acc \in [0..Len(text) -> Nat] /\ acc[0] = 0
  /\ \A i \in 1..Len(text) : acc[i] = 256 * acc[i - 1] + text[i]

LEMMA NumberFold ==
  ASSUME NEW text \in Seq(Nat)
  PROVE  \E acc : Shifts(acc, text) /\ NumberOf(text) = acc[Len(text)]
<1> DEFINE step(n, b) == 256 * n + b
           g == [n \in Nat |-> [b \in Nat |-> step(n, b)]]
           fold(it) == [s \in SUBSET DOMAIN text |->
                          IF s = {} THEN 0 ELSE step(it[s \ {Max(s)}], text[Max(s)])]
           chosen == CHOOSE it : it = fold(it)
<1>1. NumberOf(text) = chosen[DOMAIN text]
  BY DEF NumberOf, FoldLeft, MapThenFoldSet
<1>2. g \in [Nat -> [Nat -> Nat]] /\ 0 \in Nat
  OBVIOUS
<1>3. \A n \in Nat, b \in Nat : g[n][b] = step(n, b)
  OBVIOUS
<1> HIDE DEF step, g
<1>4. \A s \in SUBSET DOMAIN text : s # {} => text[Max(s)] \in Nat /\ s \ {Max(s)} \in SUBSET DOMAIN text
  BY LastIn
<1>5. PICK it \in [SUBSET DOMAIN text -> Nat] : Folds(it, Nat, 0, g, text)
  BY <1>2, FoldExists
<1>6. it = fold(it)
  BY <1>3, <1>4, <1>5 DEF Folds
<1>7. PICK end : end = fold(end) /\ chosen[DOMAIN text] = end[DOMAIN text]
  BY <1>6
<1> HIDE DEF chosen
<1>8. Folds(end, Nat, 0, g, text)
  BY <1>3, <1>4, <1>7 DEF Folds
<1>9. Ends(end[DOMAIN text], Nat, Nat, 0, g, text)
  BY <1>2, <1>8, FoldRuns
<1>10. PICK acc \in [0..Len(text) -> Nat] :
         /\ acc[0] = 0 /\ end[DOMAIN text] = acc[Len(text)]
         /\ \A i \in 1..Len(text) : acc[i - 1] \in Nat /\ text[i] \in Nat /\ acc[i] = g[acc[i - 1]][text[i]]
  BY <1>9 DEF Ends
<1>11. \A i \in 1..Len(text) : acc[i] = step(acc[i - 1], text[i])
  BY <1>3, <1>10
<1> QED
  BY <1>1, <1>7, <1>10, <1>11 DEF step, Shifts

LEMMA SumIs ==
  ASSUME NEW text \in Seq(Nat), NEW acc, acc \in [0..Len(text) -> Nat], acc[0] = 0,
         \A i \in 1..Len(text) : acc[i] = acc[i - 1] + text[i]
  PROVE  SumOf(text) = acc[Len(text)]
<1>1. PICK n \in Nat : n = Len(text)
  OBVIOUS
<1>2. PICK had : Sums(had, text) /\ SumOf(text) = had[n]
  BY <1>1, SumFold
<1> DEFINE S == {k \in 0..n : had[k] = acc[k]}
<1>3. 0 \in S
  BY <1>1, <1>2 DEF Sums
<1>4. ASSUME NEW k \in 0..(n - 1), k \in S PROVE k + 1 \in S
  <2>1. k + 1 \in 1..n /\ (k + 1) - 1 = k /\ k + 1 \in 0..n
    BY <1>1, <1>4
  <2>2. had[k + 1] = had[k] + text[k + 1] /\ acc[k + 1] = acc[k] + text[k + 1]
    BY <1>1, <1>2, <2>1 DEF Sums
  <2> QED
    BY <1>4, <2>1, <2>2
<1> HIDE DEF S
<1>5. 0..n \subseteq S
  BY <1>1, <1>3, <1>4, CountingUp
<1> QED
  BY <1>1, <1>2, <1>5 DEF S

LEMMA SumNat ==
  ASSUME NEW text \in Seq(Nat) PROVE SumOf(text) \in Nat
<1>1. PICK acc : Sums(acc, text) /\ SumOf(text) = acc[Len(text)]
  BY SumFold
<1>2. Len(text) \in 0..Len(text)
  OBVIOUS
<1> QED
  BY <1>1, <1>2 DEF Sums

LEMMA SumMore ==
  ASSUME NEW text \in Seq(Nat), NEW b \in Nat
  PROVE  SumOf(Append(text, b)) = SumOf(text) + b
<1>1. PICK n \in Nat : n = Len(text)
  OBVIOUS
<1>2. PICK acc : Sums(acc, text) /\ SumOf(text) = acc[n]
  BY <1>1, SumFold
<1>3. PICK more \in Seq(Nat) : more = Append(text, b) /\ Len(more) = n + 1 /\ more[n + 1] = b
                               /\ \A i \in 1..n : more[i] = text[i]
  <2>1. \A i \in 1..n : Append(text, b)[i] = text[i]
    BY <1>1, AppendProperties
  <2>2. Append(text, b) \in Seq(Nat) /\ Len(Append(text, b)) = n + 1 /\ Append(text, b)[n + 1] = b
    BY <1>1, AppendProperties
  <2> QED
    BY <2>1, <2>2
<1>4. acc \in [0..n -> Nat] /\ acc[0] = 0 /\ \A i \in 1..n : acc[i] = acc[i - 1] + text[i]
  BY <1>1, <1>2 DEF Sums
<1>5. PICK new : new = [i \in 0..(n + 1) |-> IF i = n + 1 THEN acc[n] + b ELSE acc[i]]
  OBVIOUS
<1>6. new \in [0..(n + 1) -> Nat] /\ new[0] = 0 /\ new[n + 1] = acc[n] + b
  <2>1. acc[n] + b \in Nat /\ 0 \in 0..n /\ n + 1 \in 0..(n + 1)
    <3>1. n \in 0..n /\ 0 \in 0..n /\ n + 1 \in 0..(n + 1)
      BY <1>1
    <3>2. acc[n] \in Nat
      BY <1>4, <3>1
    <3> QED
      BY <3>1, <3>2
  <2>2. \A i \in 0..(n + 1) : i # n + 1 => i \in 0..n
    BY <1>1
  <2>3. \A i \in 0..(n + 1) : new[i] \in Nat
    BY <1>4, <1>5, <2>1, <2>2
  <2>4. new \in [0..(n + 1) -> Nat]
    BY <1>5, <2>3
  <2>5. 0 # n + 1 /\ 0 \in 0..(n + 1)
    BY <1>1
  <2> QED
    BY <1>4, <1>5, <2>1, <2>4, <2>5
<1>7. ASSUME NEW i \in 1..(n + 1) PROVE new[i] = new[i - 1] + more[i]
  <2>1. i - 1 \in 0..n /\ new[i - 1] = acc[i - 1]
    BY <1>1, <1>5
  <2>2. CASE i = n + 1
    BY <1>3, <1>6, <2>1, <2>2
  <2>3. CASE i # n + 1
    <3>1. i \in 1..n
      BY <1>1, <2>3
    <3> QED
      BY <1>3, <1>4, <1>5, <2>1, <3>1
  <2> QED
    BY <2>2, <2>3
<1>8. SumOf(more) = new[n + 1]
  BY <1>3, <1>6, <1>7, SumIs
<1> QED
  BY <1>2, <1>3, <1>6, <1>8

(* The bytes of an address, and the number they are.                        *)
ByteOf(n, place) == (n \div place) % 256
Bytes4(n, b0, b1, b2, b3) ==
  /\ ByteOf(n, 1) = b0 /\ ByteOf(n, 256) = b1 /\ ByteOf(n, 65536) = b2 /\ ByteOf(n, 16777216) = b3
  /\ 16777216 * b3 + 65536 * b2 + 256 * b1 + b0 = Reach(4, n)
  /\ 256 * b1 + b0 = Reach(2, n) /\ 65536 * b2 + 256 * b1 + b0 = Reach(3, n)


Addresses(a, n, ab) ==
  /\ a \in Seq(Nat) /\ Len(a) = ab
  /\ a[ab] = ByteOf(n, 1) /\ a[ab - 1] = ByteOf(n, 256)
  /\ ab > 2 => a[ab - 2] = ByteOf(n, 65536)
  /\ ab > 3 => a[ab - 3] = ByteOf(n, 16777216)

LEMMA AddressTyped ==
  ASSUME NEW n \in Nat, NEW ab \in {2, 3, 4}
  PROVE  Addresses(AddressOf(n, ab), n, ab)
<1>9. PICK a : a = AddressOf(n, ab)
  OBVIOUS
<1>1. a = [i \in 1..ab |-> ByteOf(n, Places[4 - ab + i])]
  BY <1>9 DEF AddressOf, ByteOf
<1>2. /\ Places[4] = 1 /\ Places[3] = 256 /\ Places[2] = 65536 /\ Places[1] = 16777216
  BY DEF Places
<1>3. /\ a[ab] = ByteOf(n, Places[4]) /\ a[ab - 1] = ByteOf(n, Places[3])
      /\ ab > 2 => a[ab - 2] = ByteOf(n, Places[2])
      /\ ab > 3 => a[ab - 3] = ByteOf(n, Places[1])
  <2>1. 4 - ab + ab = 4 /\ 4 - ab + (ab - 1) = 3 /\ 4 - ab + (ab - 2) = 2 /\ 4 - ab + (ab - 3) = 1
    OBVIOUS
  <2>2. ab \in 1..ab /\ ab - 1 \in 1..ab /\ (ab > 2 => ab - 2 \in 1..ab) /\ (ab > 3 => ab - 3 \in 1..ab)
    OBVIOUS
  <2> QED
    BY <1>1, <2>1, <2>2
<1>5. /\ a[ab] = ByteOf(n, 1) /\ a[ab - 1] = ByteOf(n, 256)
      /\ ab > 2 => a[ab - 2] = ByteOf(n, 65536)
      /\ ab > 3 => a[ab - 3] = ByteOf(n, 16777216)
  BY <1>2, <1>3
<1>6. \A i \in 1..ab : a[i] \in Nat
  <2> SUFFICES ASSUME NEW i \in 1..ab PROVE a[i] \in Nat
    OBVIOUS
  <2>1. 4 - ab + i \in 1..4
    OBVIOUS
  <2>2. PICK p \in Nat : p = Places[4 - ab + i] /\ p > 0
    BY <1>2, <2>1
  <2>3. n \div p \in Nat
    BY <2>2
  <2>4. ByteOf(n, p) \in Nat
    BY <2>3 DEF ByteOf
  <2> QED
    BY <1>1, <2>2, <2>4
<1>7. a \in Seq(Nat) /\ Len(a) = ab
  BY <1>1, <1>6
<1>8. Addresses(a, n, ab)
  BY <1>5, <1>7 DEF Addresses
<1> QED
  BY <1>8, <1>9

Fits32(n) == n \div 65536 < 65536

LEMMA BytesAre ==
  ASSUME NEW n \in Nat, Fits32(n)
  PROVE  \E b0, b1, b2, b3 \in Nat : Bytes4(n, b0, b1, b2, b3)
<1>1. PICK b0, b1, b2, b3 \in Nat :
        /\ n % 256 = b0 /\ (n \div 256) % 256 = b1 /\ (n \div 65536) % 256 = b2 /\ (n \div 16777216) % 256 = b3
        /\ n = 16777216 * b3 + 65536 * b2 + 256 * b1 + b0
        /\ n % 65536 = 256 * b1 + b0 /\ n % 16777216 = 65536 * b2 + 256 * b1 + b0
  BY BytesOf DEF Fits32
<1>2. Reach(2, n) = n % 65536 /\ Reach(3, n) = n % 16777216 /\ Reach(4, n) = n
  BY DEF Reach
<1>3. n \div 1 = n
  OBVIOUS
<1>4. ByteOf(n, 1) = b0
  BY <1>1, <1>3 DEF ByteOf
<1>5. ByteOf(n, 256) = b1 /\ ByteOf(n, 65536) = b2 /\ ByteOf(n, 16777216) = b3
  BY <1>1 DEF ByteOf
<1>6. 16777216 * b3 + 65536 * b2 + 256 * b1 + b0 = Reach(4, n)
  BY <1>1, <1>2
<1>7. 256 * b1 + b0 = Reach(2, n) /\ 65536 * b2 + 256 * b1 + b0 = Reach(3, n)
  BY <1>1, <1>2
<1> QED
  BY <1>4, <1>5, <1>6, <1>7 DEF Bytes4

LEMMA AddressRead ==
  ASSUME NEW n \in Nat, Fits32(n), NEW ab \in {2, 3, 4}
  PROVE  NumberOf(AddressOf(n, ab)) = Reach(ab, n)
<1>20. PICK a : a = AddressOf(n, ab) /\ Addresses(a, n, ab)
  BY AddressTyped
<1>1. a \in Seq(Nat) /\ Len(a) = ab
  BY <1>20 DEF Addresses
<1>2. PICK acc : Shifts(acc, a) /\ NumberOf(AddressOf(n, ab)) = acc[ab]
  BY <1>1, <1>20, NumberFold
<1>3. acc[0] = 0 /\ \A i \in 1..ab : acc[i] = 256 * acc[i - 1] + a[i]
  BY <1>1, <1>2 DEF Shifts
<1>4. PICK b0, b1, b2, b3 \in Nat : Bytes4(n, b0, b1, b2, b3)
  BY BytesAre
<1>5. /\ a[ab] = ByteOf(n, 1) /\ a[ab - 1] = ByteOf(n, 256)
      /\ ab > 2 => a[ab - 2] = ByteOf(n, 65536)
      /\ ab > 3 => a[ab - 3] = ByteOf(n, 16777216)
  BY <1>20 DEF Addresses
<1>6. /\ a[ab] = b0 /\ a[ab - 1] = b1 /\ (ab > 2 => a[ab - 2] = b2) /\ (ab > 3 => a[ab - 3] = b3)
  BY <1>4, <1>5 DEF Bytes4
<1>7. /\ 256 * b1 + b0 = Reach(2, n)
      /\ 65536 * b2 + 256 * b1 + b0 = Reach(3, n)
      /\ 16777216 * b3 + 65536 * b2 + 256 * b1 + b0 = Reach(4, n)
  BY <1>4 DEF Bytes4
<1>8. CASE ab = 2
  <2>1. acc[1] = 256 * 0 + b1 /\ acc[2] = 256 * acc[1] + b0
    BY <1>3, <1>6, <1>8
  <2>2. acc[2] = 256 * b1 + b0
    BY <2>1
  <2> QED
    BY <1>20, <1>2, <1>7, <1>8, <2>2
<1>9. CASE ab = 3
  <2>1. acc[1] = 256 * 0 + b2 /\ acc[2] = 256 * acc[1] + b1 /\ acc[3] = 256 * acc[2] + b0
    BY <1>3, <1>6, <1>9
  <2>2. acc[3] = 65536 * b2 + 256 * b1 + b0
    BY <2>1
  <2> QED
    BY <1>20, <1>2, <1>7, <1>9, <2>2
<1>10. CASE ab = 4
  <2>1. acc[1] = 256 * 0 + b3 /\ acc[2] = 256 * acc[1] + b2 /\ acc[3] = 256 * acc[2] + b1 /\ acc[4] = 256 * acc[3] + b0
    <3>1. a[1] = b3 /\ a[2] = b2 /\ a[3] = b1 /\ a[4] = b0
      BY <1>6, <1>10
    <3>2. acc[1] = 256 * acc[0] + a[1] /\ acc[2] = 256 * acc[1] + a[2]
      BY <1>3, <1>10
    <3>3. acc[3] = 256 * acc[2] + a[3] /\ acc[4] = 256 * acc[3] + a[4]
      BY <1>3, <1>10
    <3> QED
      BY <1>3, <3>1, <3>2, <3>3
  <2>2. acc[4] = 16777216 * b3 + 65536 * b2 + 256 * b1 + b0
    BY <2>1
  <2> QED
    BY <1>20, <1>2, <1>7, <1>10, <2>2
<1> QED
  BY <1>8, <1>9, <1>10

(* The bytes of a record.                                                   *)
LEMMA Section ==
  ASSUME NEW S, NEW s \in Seq(S), NEW m \in Nat \ {0}, NEW n \in Nat, m - 1 <= n, n <= Len(s)
  PROVE  /\ SubSeq(s, m, n) \in Seq(S)
         /\ Len(SubSeq(s, m, n)) = n - m + 1
         /\ \A i \in 1..(n - m + 1) : SubSeq(s, m, n)[i] = s[m - 1 + i]
<1>1. PICK l \in Nat : l = Len(s) /\ \A i \in 1..l : s[i] \in S
  OBVIOUS
<1>2. \A i \in m..n : s[i] \in S
  <2>1. \A i \in m..n : i \in 1..l
    BY <1>1
  <2> QED
    BY <1>1, <2>1
<1>3. PICK p : p = SubSeq(s, m, n) /\ p \in Seq(S)
               /\ Len(p) = (IF m <= n THEN n - m + 1 ELSE 0)
               /\ \A i \in 1..(n - m + 1) : p[i] = s[m + i - 1]
  <2>1. m \in Int /\ n \in Int
    OBVIOUS
  <2>2. /\ SubSeq(s, m, n) \in Seq(S)
        /\ Len(SubSeq(s, m, n)) = IF m <= n THEN n - m + 1 ELSE 0
        /\ \A i \in 1..(n - m + 1) : SubSeq(s, m, n)[i] = s[m + i - 1]
    BY <1>2, <2>1, SubSeqProperties
  <2> QED
    BY <2>2
<1>4. Len(p) = n - m + 1
  BY <1>3
<1>5. ASSUME NEW i \in 1..(n - m + 1) PROVE p[i] = s[m - 1 + i]
  <2>1. m + i - 1 = m - 1 + i
    OBVIOUS
  <2> QED
    BY <1>3, <2>1
<1> QED
  BY <1>3, <1>4, <1>5

Glues(S, both, s, t) ==
  /\ both \in Seq(S) /\ Len(both) = Len(s) + Len(t)
  /\ \A i \in 1..Len(s) : both[i] = s[i]
  /\ \A i \in 1..Len(t) : both[Len(s) + i] = t[i]

LEMMA Together ==
  ASSUME NEW S, NEW s \in Seq(S), NEW t \in Seq(S)
  PROVE  Glues(S, s \o t, s, t)
<1>1. PICK m \in Nat, n \in Nat : m = Len(s) /\ n = Len(t)
  OBVIOUS
<1>2. PICK both : both = s \o t
  OBVIOUS
<1>3. /\ both \in Seq(S) /\ Len(both) = m + n
      /\ \A i \in 1..(m + n) : both[i] = IF i <= m THEN s[i] ELSE t[i - m]
  BY <1>1, <1>2, ConcatProperties
<1>4. ASSUME NEW i \in 1..m PROVE both[i] = s[i]
  <2>1. i \in 1..(m + n) /\ i <= m
    OBVIOUS
  <2> QED
    BY <1>3, <2>1
<1>5. ASSUME NEW i \in 1..n PROVE both[m + i] = t[i]
  <2>1. m + i \in 1..(m + n) /\ ~ (m + i <= m) /\ m + i - m = i
    OBVIOUS
  <2> QED
    BY <1>3, <2>1
<1> QED
  BY <1>1, <1>2, <1>3, <1>4, <1>5 DEF Glues

LEMMA Glued ==
  ASSUME NEW s \in Seq(Nat), NEW t \in Seq(Nat)
  PROVE  \E both \in Seq(Nat) :
           /\ both = s \o t /\ Len(both) = Len(s) + Len(t)
           /\ \A i \in 1..Len(s) : both[i] = s[i]
           /\ \A i \in 1..Len(t) : both[Len(s) + i] = t[i]
<1>1. PICK both : both = s \o t /\ Glues(Nat, both, s, t)
  BY Together
<1> QED
  BY <1>1 DEF Glues

LEMMA Completed ==
  ASSUME NEW n \in Nat
  PROVE  (n + ((- (n + 1)) % 256)) % 256 = 255 /\ (- (n + 1)) % 256 \in Nat
<1>1. PICK x \in Int : x = - (n + 1)
  OBVIOUS
<1>2. PICK q \in Int, b \in Nat : x = 256 * q + b /\ b < 256 /\ b = x % 256
  <2>1. x = 256 * (x \div 256) + (x % 256) /\ x % 256 \in Nat /\ x % 256 < 256 /\ x \div 256 \in Int
    OBVIOUS
  <2> QED
    BY <2>1
<1>3. n + b = 256 * (- q - 1) + 255
  BY <1>1, <1>2
<1>4. PICK m \in Nat : m = n + b
  OBVIOUS
<1>5. m % 256 = 255
  <2>1. PICK r \in Int : r = - q - 1 /\ m = 256 * r + 255
    BY <1>3, <1>4
  <2>2. m = 256 * (m \div 256) + (m % 256) /\ m % 256 \in Nat /\ m % 256 < 256 /\ m \div 256 \in Int
    OBVIOUS
  <2> QED
    BY <2>1, <2>2
<1> QED
  BY <1>1, <1>2, <1>4, <1>5

Recorded(r, type, a, d) ==
  /\ r.type = type /\ r.bytes \in Seq(Nat) /\ Len(r.bytes) = Len(a) + Len(d) + 2
  /\ SumOf(r.bytes) % 256 = 255 /\ Head(r.bytes) = Len(r.bytes) - 1
  /\ SubSeq(r.bytes, 2, Len(a) + 1) = a
  /\ SubSeq(r.bytes, Len(a) + 2, Len(r.bytes) - 1) = d

LEMMA RecordIs ==
  ASSUME NEW type, NEW address \in Nat, NEW d \in Seq(Nat), AddressBytes(type) \in {2, 3, 4}
  PROVE  Recorded(Record(type, address, d), type, AddressOf(address, AddressBytes(type)), d)
<1>1. PICK ab \in {2, 3, 4} : ab = AddressBytes(type)
  OBVIOUS
<1>2. PICK a \in Seq(Nat) : a = AddressOf(address, ab) /\ Len(a) = ab
  <2>1. PICK a : a = AddressOf(address, ab)
    OBVIOUS
  <2>2. Addresses(a, address, ab)
    BY <2>1, AddressTyped
  <2>3. a \in Seq(Nat) /\ Len(a) = ab
    BY <2>2 DEF Addresses
  <2> QED
    BY <2>1, <2>3
<1>3. PICK n \in Nat : n = Len(d)
  OBVIOUS
<1>4. PICK one \in Seq(Nat) : one = <<ab + n + 1>> /\ Len(one) = 1 /\ one[1] = ab + n + 1
  <2>1. PICK m \in Nat : m = ab + n + 1
    OBVIOUS
  <2>2. <<m>> \in Seq(Nat) /\ Len(<<m>>) = 1 /\ <<m>>[1] = m
    OBVIOUS
  <2> QED
    BY <2>1, <2>2
<1>5. PICK two \in Seq(Nat) : two = one \o a /\ Len(two) = ab + 1 /\ two[1] = ab + n + 1
        /\ \A i \in 1..ab : two[1 + i] = a[i]
  <2>1. PICK two \in Seq(Nat) :
           /\ two = one \o a /\ Len(two) = Len(one) + Len(a)
           /\ \A i \in 1..Len(one) : two[i] = one[i]
           /\ \A i \in 1..Len(a) : two[Len(one) + i] = a[i]
    BY Glued
  <2>2. two[1] = one[1]
    BY <1>4, <2>1
  <2>3. Len(two) = ab + 1
    BY <1>2, <1>4, <2>1
  <2> QED
    BY <1>2, <1>4, <2>1, <2>2, <2>3
<1>6. PICK body \in Seq(Nat) : body = two \o d /\ Len(body) = ab + 1 + n
        /\ (\A i \in 1..(ab + 1) : body[i] = two[i])
        /\ (\A i \in 1..n : body[ab + 1 + i] = d[i])
  <2>1. PICK body \in Seq(Nat) :
           /\ body = two \o d /\ Len(body) = Len(two) + Len(d)
           /\ \A i \in 1..Len(two) : body[i] = two[i]
           /\ \A i \in 1..Len(d) : body[Len(two) + i] = d[i]
    BY Glued
  <2>2. Len(two) = ab + 1
    BY <1>5
  <2>3. Len(body) = ab + 1 + n
    BY <1>3, <2>1, <2>2
  <2>4. (\A i \in 1..(ab + 1) : body[i] = two[i]) /\ (\A i \in 1..n : body[ab + 1 + i] = d[i])
    BY <1>3, <2>1, <2>2
  <2>5. body = two \o d
    BY <2>1
  <2> QED
    BY <2>3, <2>4, <2>5
<1>7. PICK sum \in Nat : sum = SumOf(body)
  BY SumNat
<1>8. PICK c \in Nat : c = (- (sum + 1)) % 256 /\ (sum + c) % 256 = 255
  BY Completed
<1>9. PICK bytes \in Seq(Nat) : bytes = Append(body, c) /\ Len(bytes) = ab + n + 2
        /\ \A i \in 1..(ab + 1 + n) : bytes[i] = body[i]
  <2>1. Len(body) + 1 = ab + n + 2
    BY <1>6
  <2>2. PICK bytes : bytes = Append(body, c)
    OBVIOUS
  <2>3. /\ bytes \in Seq(Nat) /\ Len(bytes) = Len(body) + 1
        /\ \A i \in 1..Len(body) : bytes[i] = body[i]
    BY <2>2, AppendProperties
  <2> QED
    BY <1>6, <2>1, <2>2, <2>3
<1>10. PICK r : r = Record(type, address, d) /\ r.type = type /\ r.bytes = bytes
  <2>1. Record(type, address, d) = [type |-> type, bytes |-> bytes]
    <3>1. Record(type, address, d)
            = [type |-> type,
               bytes |-> Append(<<ab + n + 1>> \o a \o d, (- (SumOf(<<ab + n + 1>> \o a \o d) + 1)) % 256)]
      BY <1>1, <1>2, <1>3 DEF Record
    <3>2. body = <<ab + n + 1>> \o a \o d
      BY <1>4, <1>5, <1>6
    <3> QED
      BY <1>7, <1>8, <1>9, <3>1, <3>2
  <2>2. [type |-> type, bytes |-> bytes].type = type /\ [type |-> type, bytes |-> bytes].bytes = bytes
    OBVIOUS
  <2> QED
    BY <2>1, <2>2
<1>11. SumOf(bytes) % 256 = 255
  BY <1>7, <1>8, <1>9, SumMore
<1>12. Head(bytes) = Len(bytes) - 1
  <2>1. 1 \in 1..(ab + 1 + n) /\ 1 \in 1..(ab + 1)
    OBVIOUS
  <2>2. bytes[1] = ab + n + 1
    BY <1>4, <1>5, <1>6, <1>9, <2>1
  <2>3. Head(bytes) = bytes[1]
    BY <1>9
  <2> QED
    BY <1>9, <2>2, <2>3
<1>13. SubSeq(bytes, 2, ab + 1) = a
  <2>1. 2 \in Nat \ {0} /\ ab + 1 \in Nat /\ 2 - 1 <= ab + 1 /\ ab + 1 <= Len(bytes)
    BY <1>9
  <2>2. ab + 1 - 2 + 1 = ab
    OBVIOUS
  <2>3. PICK p \in Seq(Nat) : p = SubSeq(bytes, 2, ab + 1) /\ Len(p) = ab
          /\ \A i \in 1..ab : p[i] = bytes[2 - 1 + i]
    <3>1. PICK lo \in Nat \ {0}, hi \in Nat :
            lo = 2 /\ hi = ab + 1 /\ lo - 1 <= hi /\ hi <= Len(bytes) /\ hi - lo + 1 = ab
      BY <2>1, <2>2
    <3>2. /\ SubSeq(bytes, lo, hi) \in Seq(Nat) /\ Len(SubSeq(bytes, lo, hi)) = hi - lo + 1
          /\ \A i \in 1..(hi - lo + 1) : SubSeq(bytes, lo, hi)[i] = bytes[lo - 1 + i]
      BY <3>1, Section
    <3> QED
      BY <3>1, <3>2
  <2>4. ASSUME NEW i \in 1..ab PROVE p[i] = a[i]
    <3>1. 2 - 1 + i = 1 + i /\ 1 + i \in 1..(ab + 1 + n) /\ 1 + i \in 1..(ab + 1)
      OBVIOUS
    <3>2. p[i] = bytes[1 + i]
      BY <2>3, <3>1
    <3>3. bytes[1 + i] = body[1 + i] /\ body[1 + i] = two[1 + i] /\ two[1 + i] = a[i]
      BY <1>5, <1>6, <1>9, <3>1
    <3> QED
      BY <3>2, <3>3
  <2>5. p = a
    BY <1>2, <2>3, <2>4, SeqEqual
  <2> QED
    BY <2>3, <2>5
<1>14. SubSeq(bytes, ab + 2, Len(bytes) - 1) = d
  <2>1. ab + 2 \in Nat \ {0} /\ ab + n + 1 \in Nat /\ ab + 2 - 1 <= ab + n + 1 /\ ab + n + 1 <= Len(bytes)
        /\ Len(bytes) - 1 = ab + n + 1
    BY <1>9
  <2>2. ab + n + 1 - (ab + 2) + 1 = n
    OBVIOUS
  <2>3. PICK p \in Seq(Nat) : p = SubSeq(bytes, ab + 2, ab + n + 1) /\ Len(p) = n
          /\ \A i \in 1..n : p[i] = bytes[ab + 1 + i]
    <3>1. PICK lo \in Nat \ {0}, hi \in Nat :
            lo = ab + 2 /\ hi = ab + n + 1 /\ lo - 1 <= hi /\ hi <= Len(bytes) /\ hi - lo + 1 = n
      BY <2>1, <2>2
    <3>2. /\ SubSeq(bytes, lo, hi) \in Seq(Nat) /\ Len(SubSeq(bytes, lo, hi)) = hi - lo + 1
          /\ \A i \in 1..(hi - lo + 1) : SubSeq(bytes, lo, hi)[i] = bytes[lo - 1 + i]
      BY <3>1, Section
    <3>3. PICK p \in Seq(Nat) : p = SubSeq(bytes, lo, hi) /\ Len(p) = n
            /\ \A i \in 1..n : p[i] = bytes[lo - 1 + i]
      BY <3>1, <3>2
    <3>4. lo - 1 = ab + 1 /\ p = SubSeq(bytes, ab + 2, ab + n + 1)
      <4>1. lo = ab + 2 /\ hi = ab + n + 1
        BY <3>1
      <4>2. lo - 1 = ab + 1
        BY <4>1
      <4>3. p = SubSeq(bytes, ab + 2, ab + n + 1)
        BY <3>3, <4>1, Zenon
      <4> QED
        BY <4>2, <4>3
    <3>5. \A i \in 1..n : p[i] = bytes[ab + 1 + i]
      BY <3>3, <3>4
    <3>6. p \in Seq(Nat) /\ Len(p) = n
      BY <3>3
    <3> QED
      BY <3>4, <3>5, <3>6
  <2>4. ASSUME NEW i \in 1..n PROVE p[i] = d[i]
    <3>1. ab + 1 + i \in 1..(ab + 1 + n)
      OBVIOUS
    <3>2. p[i] = bytes[ab + 1 + i]
      BY <2>3, <3>1
    <3>3. bytes[ab + 1 + i] = body[ab + 1 + i] /\ body[ab + 1 + i] = d[i]
      BY <1>6, <1>9, <3>1
    <3> QED
      BY <3>2, <3>3
  <2>5. p = d
    BY <1>3, <2>3, <2>4, SeqEqual
  <2> QED
    BY <2>1, <2>3, <2>5
<1>15. Recorded(r, type, a, d)
  BY <1>2, <1>3, <1>9, <1>10, <1>11, <1>12, <1>13, <1>14 DEF Recorded
<1> QED
  BY <1>1, <1>2, <1>10, <1>15

(* The pieces of a file, and the records of them.                           *)
EndOf(l, k) == IF 16 * k <= l THEN 16 * k ELSE l

LEMMA PiecesEnd ==
  ASSUME NEW l \in Nat, NEW n, n = (l + 15) \div 16
  PROVE  /\ n \in Nat /\ EndOf(l, 0) = 0 /\ EndOf(l, n) = l
         /\ \A k \in 0..n : EndOf(l, k) \in Nat /\ EndOf(l, k) <= l
         /\ \A k \in 1..n : EndOf(l, k - 1) = 16 * (k - 1) /\ EndOf(l, k - 1) <= EndOf(l, k)
<1>1. n \in Nat /\ 16 * n <= l + 15 /\ l < 16 * n + 1
  <2>1. PICK m \in Nat : m = l + 15
    OBVIOUS
  <2>2. m = 16 * (m \div 16) + (m % 16) /\ m % 16 \in Nat /\ m % 16 < 16 /\ m \div 16 \in Nat
    OBVIOUS
  <2>3. n \in Nat /\ 16 * n <= m /\ m < 16 * n + 16
    BY <2>1, <2>2
  <2> QED
    BY <2>1, <2>3
<1>2. EndOf(l, 0) = 0
  BY DEF EndOf
<1>3. EndOf(l, n) = l
  BY <1>1 DEF EndOf
<1>4. ASSUME NEW k \in Nat PROVE EndOf(l, k) \in Nat /\ EndOf(l, k) <= l
  BY DEF EndOf
<1>5. ASSUME NEW k \in 1..n PROVE EndOf(l, k - 1) = 16 * (k - 1) /\ EndOf(l, k - 1) <= EndOf(l, k)
  <2>1. k \in Nat /\ k <= n /\ 1 <= k
    BY <1>1
  <2>2. 16 * (k - 1) <= l
    BY <1>1, <2>1
  <2>3. EndOf(l, k - 1) = 16 * (k - 1)
    BY <2>2 DEF EndOf
  <2>4. 16 * (k - 1) <= EndOf(l, k)
    BY <2>1, <2>2 DEF EndOf
  <2> QED
    BY <2>3, <2>4
<1>6. \A k \in 0..n : k \in Nat
  BY <1>1
<1> QED
  BY <1>1, <1>2, <1>3, <1>4, <1>5, <1>6

LEMMA PieceIs ==
  ASSUME NEW bytes \in Seq(Nat), NEW n, n = (Len(bytes) + 15) \div 16, NEW k \in 1..n
  PROVE  /\ Piece(bytes, k) \in Seq(Nat)
         /\ Len(Piece(bytes, k)) = EndOf(Len(bytes), k) - EndOf(Len(bytes), k - 1)
         /\ \A i \in 1..(EndOf(Len(bytes), k) - EndOf(Len(bytes), k - 1)) :
              Piece(bytes, k)[i] = bytes[EndOf(Len(bytes), k - 1) + i]
<1>1. PICK l \in Nat : l = Len(bytes)
  OBVIOUS
<1>2. /\ n \in Nat /\ (\A j \in 0..n : EndOf(l, j) \in Nat /\ EndOf(l, j) <= l)
      /\ \A j \in 1..n : EndOf(l, j - 1) = 16 * (j - 1) /\ EndOf(l, j - 1) <= EndOf(l, j)
  BY <1>1, PiecesEnd
<1>3. k \in 0..n /\ k \in Nat /\ 1 <= k
  BY <1>2
<1>4. PICK lo \in Nat \ {0}, hi \in Nat : lo = 16 * k - 15 /\ hi = EndOf(l, k) /\ lo - 1 = EndOf(l, k - 1)
        /\ lo - 1 <= hi /\ hi <= l
  <2>1. EndOf(l, k) \in Nat /\ EndOf(l, k) <= l /\ EndOf(l, k - 1) = 16 * (k - 1) /\ EndOf(l, k - 1) <= EndOf(l, k)
    BY <1>2, <1>3
  <2>2. 16 * k - 15 \in Nat \ {0} /\ 16 * k - 15 - 1 = 16 * (k - 1)
    BY <1>3
  <2> QED
    BY <2>1, <2>2
<1>5. /\ SubSeq(bytes, lo, hi) \in Seq(Nat) /\ Len(SubSeq(bytes, lo, hi)) = hi - lo + 1
      /\ \A i \in 1..(hi - lo + 1) : SubSeq(bytes, lo, hi)[i] = bytes[lo - 1 + i]
  <2>1. lo - 1 <= hi /\ hi <= Len(bytes)
    BY <1>1, <1>4
  <2>2. lo \in Nat \ {0} /\ hi \in Nat
    BY <1>4
  <2> QED
    BY <2>1, <2>2, Section
<1>6. PICK p : p = SubSeq(bytes, lo, hi) /\ p \in Seq(Nat) /\ Len(p) = hi - lo + 1
               /\ \A i \in 1..(hi - lo + 1) : p[i] = bytes[lo - 1 + i]
  BY <1>5
<1>7. Piece(bytes, k) = p
  <2>1. Piece(bytes, k) = SubSeq(bytes, 16 * k - 15, EndOf(l, k))
    BY <1>1 DEF Piece, EndOf
  <2> QED
    BY <1>4, <1>6, <2>1
<1>8. hi - lo + 1 = EndOf(l, k) - EndOf(l, k - 1)
  BY <1>4
<1>9. \A i \in 1..(EndOf(l, k) - EndOf(l, k - 1)) : p[i] = bytes[EndOf(l, k - 1) + i]
  BY <1>4, <1>6, <1>8
<1> QED
  BY <1>1, <1>6, <1>7, <1>8, <1>9

TheRecord(type, start, bytes, k) == Record(type, start + 16 * (k - 1), Piece(bytes, k))

(* What a record of a piece holds.                                          *)
Content(r, ab) == SubSeq(r.bytes, ab + 2, Len(r.bytes) - 1)
Sealed(r) ==
  r.bytes \in Seq(Nat) /\ SumOf(r.bytes) % 256 = 255 /\ Head(r.bytes) = Len(r.bytes) - 1
PieceLength(l, k) == EndOf(l, k) - EndOf(l, k - 1)

Holds(r, ab, bytes, k) ==
  /\ Len(Content(r, ab)) = PieceLength(Len(bytes), k)
  /\ DOMAIN Content(r, ab) = 1..PieceLength(Len(bytes), k)
  /\ \A i \in 1..PieceLength(Len(bytes), k) : Content(r, ab)[i] = bytes[EndOf(Len(bytes), k - 1) + i]

Carries(r, type, start, bytes, k) ==
  /\ r.type = type /\ Sealed(r) /\ Holds(r, AddressBytes(type), bytes, k)
  /\ NumberOf(SubSeq(r.bytes, 2, AddressBytes(type) + 1))
       = Reach(AddressBytes(type), start + EndOf(Len(bytes), k - 1))

LEMMA FitsBelow ==
  ASSUME NEW m \in Nat, NEW n \in Nat, n <= m, Fits32(m) PROVE Fits32(n)
<1>1. PICK p, q \in Nat : p = m \div 65536 /\ q = n \div 65536
  OBVIOUS
<1>2. n = 65536 * q + (n % 65536) /\ n % 65536 \in Nat
  BY <1>1
<1>3. m = 65536 * p + (m % 65536) /\ m % 65536 < 65536
  BY <1>1
<1>4. p < 65536
  BY <1>1 DEF Fits32
<1>5. q <= p
  BY <1>2, <1>3
<1>6. q < 65536
  BY <1>4, <1>5
<1> QED
  BY <1>1, <1>6 DEF Fits32

LEMMA TypeIs ==
  ASSUME NEW type \in 1..3
  PROVE  AddressBytes(type) \in {2, 3, 4}
BY DEF AddressBytes

LEMMA RecordTold ==
  ASSUME NEW type \in 1..3, NEW start \in Nat, NEW bytes \in Seq(Nat), Fits32(start + Len(bytes)),
         NEW n \in Nat, n = (Len(bytes) + 15) \div 16, NEW k \in 1..n
  PROVE  Carries(TheRecord(type, start, bytes, k), type, start, bytes, k)
<1>1. PICK l \in Nat : l = Len(bytes)
  OBVIOUS
<1>2. EndOf(l, k - 1) \in Nat /\ EndOf(l, k - 1) <= l /\ EndOf(l, k - 1) = 16 * (k - 1)
  <2>1. k - 1 \in 0..n
    OBVIOUS
  <2> QED
    BY <1>1, <2>1, PiecesEnd
<1>3. PICK at \in Nat : at = start + EndOf(l, k - 1) /\ at = start + 16 * (k - 1) /\ at <= start + l
  BY <1>2
<1>4. Fits32(at)
  BY <1>1, <1>3, FitsBelow
<1>5. PICK d \in Seq(Nat) : d = Piece(bytes, k) /\ Len(d) = PieceLength(l, k)
        /\ \A i \in 1..PieceLength(l, k) : d[i] = bytes[EndOf(l, k - 1) + i]
  BY <1>1, PieceIs DEF PieceLength
<1>6. PICK ab \in {2, 3, 4} : ab = AddressBytes(type)
  BY TypeIs
<1>7. PICK a : a = AddressOf(at, ab) /\ Len(a) = ab
  <2>1. PICK a : a = AddressOf(at, ab)
    OBVIOUS
  <2>2. Addresses(a, at, ab)
    BY <1>6, <2>1, AddressTyped
  <2> QED
    BY <2>1, <2>2 DEF Addresses
<1>8. PICK r : r = TheRecord(type, start, bytes, k) /\ Recorded(r, type, a, d)
  BY <1>3, <1>5, <1>6, <1>7, RecordIs DEF TheRecord
<1>9. r.type = type /\ Sealed(r)
  BY <1>8 DEF Recorded, Sealed
<1>10. SubSeq(r.bytes, 2, ab + 1) = a /\ Content(r, ab) = d
  BY <1>7, <1>8 DEF Recorded, Content
<1>11. Holds(r, ab, bytes, k)
  BY <1>1, <1>5, <1>10 DEF Holds
<1>12. NumberOf(SubSeq(r.bytes, 2, ab + 1)) = Reach(ab, at)
  BY <1>4, <1>7, <1>10, AddressRead
<1> QED
  BY <1>1, <1>3, <1>6, <1>8, <1>9, <1>11, <1>12 DEF Carries

LEMMA EndTold ==
  ASSUME NEW type \in 1..3, NEW at \in Nat
  PROVE  Sealed(EndRecord(type, at)) /\ EndRecord(type, at).type \in 7..9
<1>1. PICK t \in 7..9 : t = CASE type = 1 -> 9 [] type = 2 -> 8 [] OTHER -> 7
  OBVIOUS
<1>2. PICK r : r = Record(t, at, <<>>) /\ r = EndRecord(type, at)
  BY <1>1 DEF EndRecord
<1>3. AddressBytes(t) \in {2, 3, 4}
  BY DEF AddressBytes
<1>4. <<>> \in Seq(Nat)
  OBVIOUS
<1>5. PICK a : a = AddressOf(at, AddressBytes(t))
  OBVIOUS
<1>6. Recorded(r, t, a, <<>>)
  BY <1>2, <1>3, <1>4, <1>5, RecordIs
<1> QED
  BY <1>1, <1>2, <1>6 DEF Recorded, Sealed

(* The lengths of the pieces in front of one add up to its place.           *)
LEMMA PiecesSum ==
  ASSUME NEW l \in Nat, NEW n, n = (l + 15) \div 16, NEW k \in 0..n
  PROVE  SumOf([j \in 1..k |-> PieceLength(l, j)]) = EndOf(l, k)
<1>1. /\ n \in Nat /\ EndOf(l, 0) = 0 /\ (\A j \in 0..n : EndOf(l, j) \in Nat)
      /\ \A j \in 1..n : EndOf(l, j - 1) <= EndOf(l, j)
  BY PiecesEnd
<1>2. PICK text : text = [j \in 1..k |-> PieceLength(l, j)]
  OBVIOUS
<1>3. k \in Nat /\ \A j \in 1..k : j \in 1..n /\ j \in 0..n /\ j - 1 \in 0..n
  BY <1>1
<1>4. ASSUME NEW j \in 1..k PROVE PieceLength(l, j) \in Nat /\ EndOf(l, j) = EndOf(l, j - 1) + PieceLength(l, j)
  BY <1>1, <1>3 DEF PieceLength
<1>5. text \in Seq(Nat) /\ Len(text) = k /\ \A j \in 1..k : text[j] = PieceLength(l, j)
  BY <1>2, <1>3, <1>4
<1>6. PICK acc : acc = [j \in 0..k |-> EndOf(l, j)]
  OBVIOUS
<1>7. acc \in [0..k -> Nat] /\ acc[0] = 0 /\ acc[k] = EndOf(l, k)
  <2>1. \A j \in 0..k : j \in 0..n
    BY <1>1
  <2>2. 0 \in 0..k /\ k \in 0..k
    BY <1>3
  <2> QED
    BY <1>1, <1>6, <2>1, <2>2
<1>8. ASSUME NEW j \in 1..k PROVE acc[j] = acc[j - 1] + text[j]
  <2>1. j \in 0..k /\ j - 1 \in 0..k
    BY <1>3
  <2> QED
    BY <1>4, <1>5, <1>6, <2>1
<1>9. SumOf(text) = acc[k]
  BY <1>5, <1>7, <1>8, SumIs
<1> QED
  BY <1>2, <1>7, <1>9

(* How many characters records are, and what is missing of them in the end. *)
LEMMA LettersNat ==
  ASSUME NEW n \in Nat, NEW list, DOMAIN list = 1..n, \A k \in 1..n : list[k].bytes \in Seq(Nat)
  PROVE  Letters(list) \in Nat
<1>1. \A k \in 1..n : 2 * Len(list[k].bytes) + 3 \in Nat
  OBVIOUS
<1>2. PICK text : text = [k \in 1..n |-> 2 * Len(list[k].bytes) + 3]
  OBVIOUS
<1>3. text \in Seq(Nat)
  BY <1>1, <1>2
<1>4. SumOf(text) \in Nat
  BY <1>3, SumNat
<1> QED
  BY <1>2, <1>4 DEF Letters

FirstOf(fails, n) == IF fails = {} THEN n + 1 ELSE CHOOSE k \in fails : \A j \in fails : k <= j

FailAt(fails, T, n, room, buffer) == fails = {k \in 1..(n + 1) : Emitted(T[k], buffer) > room}

EndsAt(m, fails, T, n, room, buffer) ==
  /\ m \in 1..(n + 1)
  /\ fails = {} => m = n + 1 /\ T[m] - Stored(T[m], room) < buffer
  /\ fails # {} => T[m] - Stored(T[m], room) > 0

LEMMA RoomEnds ==
  ASSUME NEW n \in Nat, NEW T \in [1..(n + 1) -> Nat], NEW room \in Nat, NEW buffer \in Nat \ {0},
         NEW fails, FailAt(fails, T, n, room, buffer)
  PROVE  EndsAt(FirstOf(fails, n), fails, T, n, room, buffer)
<1>0. fails = {k \in 1..(n + 1) : Emitted(T[k], buffer) > room}
  BY DEF FailAt
<1>1. PICK m : m = FirstOf(fails, n)
  OBVIOUS
<1>2. m \in 1..(n + 1) /\ (fails = {} => m = n + 1) /\ (fails # {} => m \in fails)
  <2>1. CASE fails = {}
    BY <1>1, <2>1 DEF FirstOf
  <2>2. CASE fails # {}
    <3>1. fails \subseteq Nat /\ fails \subseteq 1..(n + 1)
      BY <1>0
    <3>2. \E k \in fails : \A j \in fails : k <= j
      BY <2>2, <3>1, LeastNatural
    <3>3. m \in fails
      BY <1>1, <2>2, <3>2 DEF FirstOf
    <3> QED
      BY <2>2, <3>1, <3>3
  <2> QED
    BY <2>1, <2>2
<1>3. PICK t \in Nat : t = T[m]
  BY <1>2
<1>4. PICK e \in Nat : e = Emitted(t, buffer) /\ e <= t /\ t - e < buffer
  BY EmittedIs
<1>5. Stored(t, room) = IF t <= room THEN t ELSE room
  BY DEF Stored, Smaller
<1>6. ASSUME fails = {} PROVE t - Stored(t, room) < buffer
  <2>1. ~ (e > room)
    BY <1>0, <1>2, <1>3, <1>4, <1>6
  <2> QED
    BY <1>4, <1>5, <2>1
<1>7. ASSUME fails # {} PROVE t - Stored(t, room) > 0
  <2>1. e > room
    BY <1>0, <1>2, <1>3, <1>4, <1>7
  <2> QED
    BY <1>4, <1>5, <2>1
<1> QED
  BY <1>1, <1>2, <1>3, <1>6, <1>7 DEF EndsAt

(* What comes of n records and an end record.                               *)
LettersTold(r, buffer) ==
  /\ r.exit = 0 => Letters(r.out) - r.stored < buffer
  /\ r.exit = 1 /\ r.out # <<>> => Letters(r.out) - r.stored > 0

Listed(r, m, n, type, start, bytes) ==
  /\ r.out = [k \in DOMAIN r.out |-> r.out[k]] /\ DOMAIN r.out = 1..m /\ Len(r.out) = m
  /\ \A k \in 1..m : k <= n => r.out[k] = TheRecord(type, start, bytes, k)
  /\ m = n + 1 => r.out[m] = EndRecord(type, start + Len(bytes))
  /\ r.exit = 0 => m = n + 1

LEMMA RecordsAre ==
  ASSUME NEW type \in 1..3, NEW start \in Nat, NEW bytes \in Seq(Nat), Fits32(start + Len(bytes)),
         NEW room \in Nat, NEW buffer \in Nat \ {0}, NEW n \in Nat, n = (Len(bytes) + 15) \div 16,
         NEW r, r = Records(type, start, bytes, room, buffer)
  PROVE  LettersTold(r, buffer) /\ \E m \in 1..(n + 1) : Listed(r, m, n, type, start, bytes)
<1>1. PICK e : e = EndRecord(type, start + Len(bytes))
  OBVIOUS
<1>2. PICK list : list = [k \in 1..n |-> TheRecord(type, start, bytes, k)]
  OBVIOUS
<1>3. PICK S : S = {list[k] : k \in 1..n} \cup {e}
  OBVIOUS
<1>4. list \in Seq(S) /\ Len(list) = n /\ \A k \in 1..n : list[k] = TheRecord(type, start, bytes, k)
  <2>1. \A k \in 1..n : list[k] \in S
    BY <1>3
  <2>2. list = [k \in 1..n |-> list[k]]
    BY <1>2
  <2>3. list \in Seq(S) /\ Len(list) = n
    BY <2>1, <2>2
  <2> QED
    BY <1>2, <2>3
<1>5. <<e>> \in Seq(S) /\ Len(<<e>>) = 1 /\ <<e>>[1] = e
  BY <1>3
<1>6. PICK all : all = list \o <<e>> /\ Glues(S, all, list, <<e>>)
  BY <1>4, <1>5, Together
<1>7. /\ all \in Seq(S) /\ Len(all) = n + 1 /\ all[n + 1] = e
      /\ \A k \in 1..n : all[k] = TheRecord(type, start, bytes, k)
  <2>1. /\ all \in Seq(S) /\ Len(all) = Len(list) + Len(<<e>>)
        /\ \A i \in 1..Len(list) : all[i] = list[i]
        /\ \A i \in 1..Len(<<e>>) : all[Len(list) + i] = <<e>>[i]
    BY <1>6 DEF Glues
  <2>2. Len(all) = n + 1
    BY <1>4, <1>5, <2>1
  <2>3. all[n + 1] = e
    BY <1>4, <1>5, <2>1
  <2>4. \A k \in 1..n : all[k] = TheRecord(type, start, bytes, k)
    BY <1>4, <2>1
  <2> QED
    BY <2>1, <2>2, <2>3, <2>4
<1>8. \A k \in 1..(n + 1) : all[k].bytes \in Seq(Nat)
  <2>1. ASSUME NEW k \in 1..n PROVE TheRecord(type, start, bytes, k).bytes \in Seq(Nat)
    <3>1. Carries(TheRecord(type, start, bytes, k), type, start, bytes, k)
      BY RecordTold
    <3> QED
      BY <3>1 DEF Carries, Sealed
  <2>2. start + Len(bytes) \in Nat
    OBVIOUS
  <2>3. e.bytes \in Seq(Nat)
    BY <1>1, <2>2, EndTold DEF Sealed
  <2>4. \A k \in 1..(n + 1) : k \in 1..n \/ k = n + 1
    OBVIOUS
  <2> QED
    BY <1>7, <2>1, <2>3, <2>4
<1>9. ASSUME NEW k \in 1..(n + 1)
      PROVE  /\ SubSeq(all, 1, k) \in Seq(S) /\ Len(SubSeq(all, 1, k)) = k
             /\ \A i \in 1..k : SubSeq(all, 1, k)[i] = all[i]
             /\ Letters(SubSeq(all, 1, k)) \in Nat
  <2>1. k \in Int /\ k <= Len(all) /\ ~ (k < 0) /\ k \in Nat
    BY <1>7
  <2>0. all \in Seq(S)
    BY <1>7
  <2>6. /\ SubSeq(all, 1, k) \in Seq(S) /\ Len(SubSeq(all, 1, k)) = (IF k < 0 THEN 0 ELSE k)
        /\ \A i \in 1..k : SubSeq(all, 1, k)[i] = all[i]
    BY <2>0, <2>1, Prefix
  <2>2. PICK some : some = SubSeq(all, 1, k) /\ some \in Seq(S) /\ Len(some) = k /\ \A i \in 1..k : some[i] = all[i]
    BY <2>1, <2>6
  <2>3. DOMAIN some = 1..k /\ \A i \in 1..k : i \in 1..(n + 1)
    BY <2>2
  <2>4. \A i \in 1..k : some[i].bytes \in Seq(Nat)
    BY <1>8, <2>2, <2>3
  <2>5. Letters(some) \in Nat
    BY <2>1, <2>3, <2>4, LettersNat
  <2> QED
    BY <2>2, <2>5
<1>10. PICK T : T = [k \in 1..(n + 1) |-> Letters(SubSeq(all, 1, k))]
  OBVIOUS
<1>11. T \in [1..(n + 1) -> Nat]
  BY <1>9, <1>10
<1>12. PICK fails : fails = {k \in 1..(n + 1) : Emitted(Letters(SubSeq(all, 1, k)), buffer) > room}
  OBVIOUS
<1>13. fails = {k \in 1..(n + 1) : Emitted(T[k], buffer) > room}
  BY <1>10, <1>12
<1>14. PICK m : m = FirstOf(fails, n)
  OBVIOUS
<1>31. FailAt(fails, T, n, room, buffer)
  BY <1>13 DEF FailAt
<1>15. /\ m \in 1..(n + 1)
       /\ fails = {} => m = n + 1 /\ T[m] - Stored(T[m], room) < buffer
       /\ fails # {} => T[m] - Stored(T[m], room) > 0
  <2>1. EndsAt(FirstOf(fails, n), fails, T, n, room, buffer)
    BY <1>11, <1>31, RoomEnds
  <2> QED
    BY <1>14, <2>1 DEF EndsAt
<1>16. PICK some : some = SubSeq(all, 1, m)
  OBVIOUS
<1>17. /\ some \in Seq(S) /\ Len(some) = m /\ \A i \in 1..m : some[i] = all[i]
       /\ T[m] = Letters(some)
  BY <1>9, <1>10, <1>15, <1>16
<1>18. r = [exit |-> IF fails = {} THEN 0 ELSE 1, out |-> some, stored |-> Stored(Letters(some), room)]
  BY <1>1, <1>2, <1>6, <1>12, <1>14, <1>16 DEF Records, TheRecord, FirstOf
<1>19. r.exit = (IF fails = {} THEN 0 ELSE 1) /\ r.out = some /\ r.stored = Stored(Letters(some), room)
  BY <1>18
<1>20. LettersTold(r, buffer)
  <2>1. r.exit = 0 => fails = {}
    BY <1>19
  <2>2. r.exit = 1 => fails # {}
    BY <1>19
  <2> QED
    BY <1>15, <1>17, <1>19, <2>1, <2>2 DEF LettersTold
<1>21. DOMAIN some = 1..m /\ some = [k \in DOMAIN some |-> some[k]]
  BY <1>17
<1>22. ASSUME NEW k \in 1..m, k <= n PROVE some[k] = TheRecord(type, start, bytes, k)
  <2>1. k \in 1..n
    BY <1>15, <1>22
  <2> QED
    BY <1>7, <1>17, <2>1
<1>23. m = n + 1 => some[m] = e
  <2>1. m \in 1..m
    BY <1>15
  <2> QED
    BY <1>7, <1>17, <2>1
<1>24. r.exit = 0 => m = n + 1
  BY <1>15, <1>19
<1>25. Listed(r, m, n, type, start, bytes)
  BY <1>1, <1>17, <1>19, <1>21, <1>22, <1>23, <1>24 DEF Listed
<1> QED
  BY <1>15, <1>20, <1>25

(* The records that came out: those of the pieces, and whether the end      *)
(* record is among them.                                                    *)
Ended(list) == list # <<>> /\ Last(list).type \in 7..9
DataOf(list) == IF Ended(list) THEN Front(list) ELSE list

Shown(r, d, n, type, start, bytes) ==
  /\ r.exit = 0 => Ended(r.out)
  /\ Ended(r.out) => d = n
  /\ DOMAIN DataOf(r.out) = 1..d /\ Len(DataOf(r.out)) = d
  /\ \A k \in 1..d : Carries(DataOf(r.out)[k], type, start, bytes, k)
  /\ \A x \in Range(r.out) : Sealed(x)

LEMMA RecordsShown ==
  ASSUME NEW type \in 1..3, NEW start \in Nat, NEW bytes \in Seq(Nat), Fits32(start + Len(bytes)),
         NEW n \in Nat, n = (Len(bytes) + 15) \div 16, NEW m \in 1..(n + 1),
         NEW r, Listed(r, m, n, type, start, bytes)
  PROVE  \E d \in 0..n : Shown(r, d, n, type, start, bytes)
<1>1. \A k \in 1..n : Carries(TheRecord(type, start, bytes, k), type, start, bytes, k)
  BY RecordTold
<1>2. PICK list : list = r.out /\ list = [k \in DOMAIN list |-> list[k]]
  BY DEF Listed
<1>5. /\ DOMAIN list = 1..m /\ Len(list) = m
      /\ \A k \in 1..m : k <= n => list[k] = TheRecord(type, start, bytes, k)
      /\ m = n + 1 => list[m] = EndRecord(type, start + Len(bytes))
      /\ r.exit = 0 => m = n + 1
  BY <1>2 DEF Listed
<1>3. CASE m <= n
  <2>1. m \in 0..n /\ \A k \in 1..m : k \in 1..n /\ k <= n
    BY <1>3
  <2>2. \A k \in 1..m : Carries(list[k], type, start, bytes, k)
    BY <1>1, <1>5, <2>1
  <2>3. \A k \in 1..m : Sealed(list[k]) /\ list[k].type = type
    BY <2>2 DEF Carries
  <2>4. ~ Ended(list)
    <3> SUFFICES ASSUME list # <<>>, Last(list).type \in 7..9 PROVE FALSE
      BY DEF Ended
    <3>2. Last(list) = list[m] /\ m \in 1..m
      BY <1>5 DEF Last
    <3>3. Last(list).type \in 1..3
      BY <2>3, <3>2
    <3> QED
      BY <3>3
  <2>5. DataOf(list) = list
    BY <2>4 DEF DataOf
  <2>6. \A x \in Range(list) : Sealed(x)
    BY <1>5, <2>3 DEF Range
  <2>7. r.exit # 0
    BY <1>3, <1>5
  <2> QED
    BY <1>2, <1>5, <2>1, <2>2, <2>4, <2>5, <2>6, <2>7 DEF Shown
<1>4. CASE ~ (m <= n)
  <2>9. /\ m = n + 1 /\ DOMAIN list = 1..(n + 1) /\ Len(list) = n + 1
        /\ list[n + 1] = EndRecord(type, start + Len(bytes))
        /\ \A k \in 1..n : list[k] = TheRecord(type, start, bytes, k)
    <3>1. m = n + 1
      BY <1>4
    <3>2. \A k \in 1..n : k \in 1..m /\ k <= n
      BY <3>1
    <3> QED
      BY <1>5, <3>1, <3>2
  <2>1. \A k \in 1..n : Carries(list[k], type, start, bytes, k)
    BY <1>1, <2>9
  <2>2. Sealed(list[n + 1]) /\ list[n + 1].type \in 7..9
    <3>1. start + Len(bytes) \in Nat
      OBVIOUS
    <3> QED
      BY <2>9, <3>1, EndTold
  <2>3. \A k \in 1..(n + 1) : Sealed(list[k])
    <3>1. \A k \in 1..(n + 1) : k \in 1..n \/ k = n + 1
      OBVIOUS
    <3>2. \A k \in 1..n : Sealed(list[k])
      BY <2>1 DEF Carries
    <3> QED
      BY <2>2, <3>1, <3>2
  <2>4. Ended(list)
    <3>1. list # <<>>
      BY <2>9
    <3>2. Last(list) = list[n + 1]
      BY <2>9 DEF Last
    <3> QED
      BY <2>2, <3>1, <3>2 DEF Ended
  <2>5. DataOf(list) = SubSeq(list, 1, n)
    BY <2>9, <2>4 DEF DataOf, Front
  <2>6. DOMAIN DataOf(list) = 1..n /\ Len(DataOf(list)) = n /\ \A k \in 1..n : DataOf(list)[k] = list[k]
    <3>1. PICK S : S = {list[k] : k \in 1..n}
      OBVIOUS
    <3>2. \A k \in 1..n : list[k] \in S
      BY <3>1
    <3>3. /\ SubSeq(list, 1, n) \in Seq(S)
          /\ Len(SubSeq(list, 1, n)) = IF 1 <= n THEN n - 1 + 1 ELSE 0
          /\ \A k \in 1..(n - 1 + 1) : SubSeq(list, 1, n)[k] = list[1 + k - 1]
      BY <3>2, SubSeqProperties
    <3>4. DataOf(list) \in Seq(S) /\ Len(DataOf(list)) = n
      BY <2>5, <3>3
    <3>5. \A k \in 1..n : DataOf(list)[k] = list[k]
      BY <2>5, <3>3
    <3> QED
      BY <3>4, <3>5
  <2>7. \A x \in Range(list) : Sealed(x)
    BY <2>9, <2>3 DEF Range
  <2>8. \A k \in 1..n : Carries(DataOf(list)[k], type, start, bytes, k)
    BY <2>1, <2>6
  <2> QED
    BY <1>2, <2>4, <2>6, <2>7, <2>8 DEF Shown
<1> QED
  BY <1>3, <1>4

LEMMA WiderSeq ==
  ASSUME NEW S, NEW T, S \subseteq T, NEW s \in Seq(S) PROVE s \in Seq(T)
<1>1. s = [i \in 1..Len(s) |-> s[i]] /\ \A i \in 1..Len(s) : s[i] \in T
  OBVIOUS
<1> QED
  BY <1>1

(* What the command is asked for.                                           *)
LEMMA BinexTyped ==
  ASSUME NEW j \in Jobs, j.tool = "binex"
  PROVE  /\ j.address \in Nat /\ j.bytes \in Seq(Nat) /\ j.room \in Nat /\ j.buffer \in Nat \ {0}
         /\ Fits32(j.address + Len(j.bytes))
<1>1. /\ j.address \in Nat /\ j.bytes \in Seq(Byte) /\ j.room \in Nat /\ j.buffer \in Nat \ {0}
      /\ (j.address + Len(j.bytes)) \div 65536 < 65536
  BY ToolsAssumption
<1>2. Byte \subseteq Nat
  BY DEF Byte
<1>3. j.bytes \in Seq(Nat)
  <2>1. PICK s : s = j.bytes /\ s \in Seq(Byte)
    BY <1>1
  <2>2. s \in Seq(Nat)
    BY <1>2, <2>1, WiderSeq, Zenon
  <2> QED
    BY <2>1, <2>2
<1> QED
  BY <1>1, <1>3 DEF Fits32

LEMMA BinexIs ==
  ASSUME NEW j \in Jobs, j.tool = "binex"
  PROVE  \/ Binex(j) = [exit |-> 1, out |-> <<>>, stored |-> 0]
         \/ j.type \in 1..3 /\ Binex(j) = Records(j.type, j.address, j.bytes, j.room, j.buffer)
<1>1. CASE ~ j.hex \/ j.type \notin 1..3 \/ j.paths \notin 1..2 \/ (j.paths = 2 /\ j.exists /\ ~ j.rewrite)
  BY <1>1 DEF Binex
<1>2. CASE ~ (~ j.hex \/ j.type \notin 1..3 \/ j.paths \notin 1..2 \/ (j.paths = 2 /\ j.exists /\ ~ j.rewrite))
  BY <1>2 DEF Binex
<1> QED
  BY <1>1, <1>2

LEMMA ZeroFirst == \A n \in Nat : 0 \in 0..n
OBVIOUS

LEMMA BinexShows ==
  ASSUME NEW j \in Jobs, j.tool = "binex", NEW r, r = Binex(j), NEW n, n = (Len(j.bytes) + 15) \div 16
  PROVE  LettersTold(r, j.buffer) /\ \E d \in 0..n : Shown(r, d, n, j.type, j.address, j.bytes)
<1>1. PICK bytes : bytes = j.bytes
  OBVIOUS
<1>2. bytes \in Seq(Nat) /\ j.address \in Nat /\ j.room \in Nat /\ j.buffer \in Nat \ {0}
      /\ Fits32(j.address + Len(bytes))
  BY <1>1, BinexTyped
<1>3. n \in Nat
  <2>1. PICK l \in Nat : l = Len(bytes)
    BY <1>2
  <2>2. n = (l + 15) \div 16
    BY <1>1, <2>1
  <2> QED
    BY <2>2, PiecesEnd
<1>4. CASE r = [exit |-> 1, out |-> <<>>, stored |-> 0]
  <2>1. r.exit = 1 /\ r.out = <<>>
    BY <1>4
  <2>2. ~ Ended(r.out) /\ DataOf(r.out) = <<>>
    BY <2>1 DEF Ended, DataOf
  <2>3. DOMAIN <<>> = 1..0 /\ Len(<<>>) = 0
    OBVIOUS
  <2>4. Range(r.out) = {}
    BY <2>1 DEF Range
  <2>5. Shown(r, 0, n, j.type, j.address, j.bytes)
    <3>1. DOMAIN DataOf(r.out) = 1..0 /\ Len(DataOf(r.out)) = 0
      BY <2>2, <2>3
    <3>2. \A k \in 1..0 : Carries(DataOf(r.out)[k], j.type, j.address, j.bytes, k)
      OBVIOUS
    <3>3. \A x \in Range(r.out) : Sealed(x)
      BY <2>4
    <3>4. ~ Ended(r.out) /\ r.exit # 0
      BY <2>1, <2>2
    <3> QED
      BY <3>1, <3>2, <3>3, <3>4 DEF Shown
  <2>6. 0 \in 0..n
    BY <1>3, ZeroFirst, Zenon
  <2>7. LettersTold(r, j.buffer)
    BY <2>1 DEF LettersTold
  <2> QED
    BY <2>5, <2>6, <2>7
<1>5. CASE j.type \in 1..3 /\ r = Records(j.type, j.address, j.bytes, j.room, j.buffer)
  <2>1. PICK type \in 1..3, start \in Nat, room \in Nat, buffer \in Nat \ {0} :
          type = j.type /\ start = j.address /\ room = j.room /\ buffer = j.buffer
    BY <1>2, <1>5
  <2>2. r = Records(type, start, bytes, room, buffer) /\ n = (Len(bytes) + 15) \div 16 /\ Fits32(start + Len(bytes))
    BY <1>1, <1>2, <1>5, <2>1
  <2>3. LettersTold(r, buffer) /\ \E m \in 1..(n + 1) : Listed(r, m, n, type, start, bytes)
    BY <1>2, <1>3, <2>2, RecordsAre
  <2>4. PICK m \in 1..(n + 1) : Listed(r, m, n, type, start, bytes)
    BY <2>3
  <2>5. \E d \in 0..n : Shown(r, d, n, type, start, bytes)
    BY <1>2, <1>3, <2>2, <2>4, RecordsShown
  <2> QED
    BY <1>1, <2>1, <2>3, <2>5
<1> QED
  BY <1>4, <1>5, BinexIs

BehindOf(list, ab, i) == SumOf([k \in 1..(i - 1) |-> Len(Content(list[k], ab))])

LEMMA PiecesAdd ==
  ASSUME NEW bytes \in Seq(Nat), NEW n, n = (Len(bytes) + 15) \div 16, NEW d \in 0..n,
         NEW r, NEW type, NEW start, Shown(r, d, n, type, start, bytes), NEW i \in 1..(d + 1)
  PROVE  BehindOf(DataOf(r.out), AddressBytes(type), i) = EndOf(Len(bytes), i - 1)
<1>1. PICK l \in Nat : l = Len(bytes) /\ n = (l + 15) \div 16
  OBVIOUS
<1>2. n \in Nat
  BY <1>1, PiecesEnd
<1>3. PICK j \in 0..n : j = i - 1 /\ \A k \in 1..j : k \in 1..d
  BY <1>2
<1>4. ASSUME NEW k \in 1..j
      PROVE  Len(Content(DataOf(r.out)[k], AddressBytes(type))) = PieceLength(l, k)
  BY <1>1, <1>3 DEF Shown, Carries, Holds
<1>5. [k \in 1..j |-> Len(Content(DataOf(r.out)[k], AddressBytes(type)))] = [k \in 1..j |-> PieceLength(l, k)]
  BY <1>4
<1>6. SumOf([k \in 1..j |-> PieceLength(l, k)]) = EndOf(l, j)
  BY <1>1, PiecesSum
<1> QED
  BY <1>1, <1>3, <1>5, <1>6 DEF BehindOf

LEMMA BinexIsRight == Outcome => BinexRight
<1> SUFFICES ASSUME Outcome, Ran("binex") PROVE BinexRight
  BY DEF BinexRight
<1>1. out = Binex(job) /\ job \in Jobs /\ job.tool = "binex"
  BY DEF Outcome, Ran
<1>2. PICK n : n = (Len(job.bytes) + 15) \div 16
  OBVIOUS
<1>3. PICK d \in 0..n : Shown(out, d, n, job.type, job.address, job.bytes)
  BY <1>1, <1>2, BinexShows
<1>4. job.bytes \in Seq(Nat)
  BY <1>1, BinexTyped
<1> DEFINE ended == out.out # <<>> /\ Last(out.out).type \in 7..9
           data == IF ended THEN Front(out.out) ELSE out.out
           ab == AddressBytes(job.type)
           address(r) == NumberOf(SubSeq(r.bytes, 2, ab + 1))
           content(r) == SubSeq(r.bytes, ab + 2, Len(r.bytes) - 1)
           behind(i) == SumOf([k \in 1..(i - 1) |-> Len(content(data[k]))])
<1>5. ended = Ended(out.out) /\ data = DataOf(out.out)
  BY DEF Ended, DataOf
<1>6. \A r : content(r) = Content(r, ab)
  BY DEF Content
<1>7. ASSUME NEW i \in 1..(d + 1) PROVE behind(i) = EndOf(Len(job.bytes), i - 1)
  <2>1. SumOf([k \in 1..(i - 1) |-> Len(Content(DataOf(out.out)[k], ab))]) = EndOf(Len(job.bytes), i - 1)
    <3>1. PICK bytes \in Seq(Nat) : bytes = job.bytes /\ n = (Len(bytes) + 15) \div 16
      BY <1>2, <1>4
    <3>2. Shown(out, d, n, job.type, job.address, bytes)
      BY <1>3, <3>1
    <3> HIDE DEF ab
    <3>3. BehindOf(DataOf(out.out), AddressBytes(job.type), i) = EndOf(Len(bytes), i - 1)
      <4>1. n = (Len(bytes) + 15) \div 16 /\ d \in 0..n /\ i \in 1..(d + 1)
        BY <1>3, <3>1
      <4>2. PICK r, type, start : r = out /\ type = job.type /\ start = job.address
        OBVIOUS
      <4>3. Shown(r, d, n, type, start, bytes)
        BY <3>2, <4>2
      <4>4. BehindOf(DataOf(r.out), AddressBytes(type), i) = EndOf(Len(bytes), i - 1)
        BY <4>1, <4>3, PiecesAdd
      <4> QED
        BY <4>2, <4>4
    <3> QED
      BY <3>1, <3>3 DEF ab, BehindOf
  <2> QED
    BY <1>5, <1>6, <2>1
<1>8. DOMAIN data = 1..d /\ Len(data) = d /\ \A k \in 1..d : Carries(data[k], job.type, job.address, job.bytes, k)
  BY <1>3, <1>5 DEF Shown
<1>9. n \in Nat /\ EndOf(Len(job.bytes), d) <= Len(job.bytes) /\ EndOf(Len(job.bytes), n) = Len(job.bytes)
  <2>1. PICK l \in Nat : l = Len(job.bytes)
    BY <1>4
  <2>2. n = (l + 15) \div 16
    BY <1>2, <2>1
  <2>3. n \in Nat /\ EndOf(l, n) = l /\ \A k \in 0..n : EndOf(l, k) <= l
    BY <2>2, PiecesEnd
  <2> QED
    BY <1>3, <2>1, <2>3
<1>10. behind(Len(data) + 1) = EndOf(Len(job.bytes), d)
  <2>1. d + 1 \in 1..(d + 1) /\ d + 1 - 1 = d
    BY <1>9
  <2> QED
    <3> HIDE DEF behind, data
    <3>1. behind(d + 1) = EndOf(Len(job.bytes), d + 1 - 1)
      BY <1>7, <2>1
    <3> QED
      BY <1>8, <2>1, <3>1
<1>11. \A r \in Range(out.out) : SumOf(r.bytes) % 256 = 255 /\ Head(r.bytes) = Len(r.bytes) - 1
  BY <1>3 DEF Shown, Sealed
<1>12. ASSUME NEW i \in DOMAIN data
       PROVE  /\ data[i].type = job.type /\ address(data[i]) = Reach(ab, job.address + behind(i))
              /\ \A k \in DOMAIN content(data[i]) : content(data[i])[k] = job.bytes[behind(i) + k]
  <2>1. i \in 1..d /\ i \in 1..(d + 1)
    BY <1>8, <1>9
  <2>2. behind(i) = EndOf(Len(job.bytes), i - 1)
    BY <1>7, <2>1
  <2>3. data[i].type = job.type /\ Holds(data[i], ab, job.bytes, i)
        /\ address(data[i]) = Reach(ab, job.address + EndOf(Len(job.bytes), i - 1))
    BY <1>8, <2>1 DEF Carries
  <2>4. \A k \in DOMAIN content(data[i]) : content(data[i])[k] = job.bytes[EndOf(Len(job.bytes), i - 1) + k]
    <3>1. content(data[i]) = Content(data[i], ab)
      BY <1>6
    <3> HIDE DEF content, data, ab
    <3>2. DOMAIN Content(data[i], ab) = 1..PieceLength(Len(job.bytes), i)
          /\ \A k \in 1..PieceLength(Len(job.bytes), i) :
               Content(data[i], ab)[k] = job.bytes[EndOf(Len(job.bytes), i - 1) + k]
      BY <2>3 DEF Holds
    <3> QED
      BY <3>1, <3>2
  <2> HIDE DEF behind, data, content, ab, address
  <2> QED
    BY <2>2, <2>3, <2>4
<1>13. behind(Len(data) + 1) <= Len(job.bytes)
  BY <1>9, <1>10
<1>14. out.exit = 0 => ended
  BY <1>3, <1>5 DEF Shown
<1>16. LettersTold(out, job.buffer)
  BY <1>1, <1>2, BinexShows
<1>17. /\ out.exit = 0 => Letters(out.out) - out.stored < job.buffer
       /\ out.exit = 1 /\ out.out # <<>> => Letters(out.out) - out.stored > 0
  BY <1>16 DEF LettersTold
<1>15. ended => behind(Len(data) + 1) = Len(job.bytes)
  BY <1>3, <1>5, <1>9, <1>10 DEF Shown
<1> HIDE DEF ended, data, ab, address, content, behind
<1> QED
  BY <1>11, <1>12, <1>13, <1>14, <1>15, <1>17 DEF BinexRight, ended, data, ab, address, content, behind

-----------------------------------------------------------------------------
(* binex, attr and fixmod do what CodeRight says: of a file of any length,  *)
(* of any address below 2^32, with any room for the records and any buffer  *)
(* in front of it; of any text of attributes; of any list of options and    *)
(* names, whatever fails with each module.                                  *)
THEOREM CodeIsRight == Spec => []CodeRight
<1>1. Outcome => CodeRight
  BY AttrIsRight, BinexIsRight, FixmodIsRight DEF CodeRight
<1> QED
  BY <1>1, OutcomeHolds, PTL
=============================================================================
