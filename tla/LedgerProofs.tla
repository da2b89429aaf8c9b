---------------------------- MODULE LedgerProofs ----------------------------
(* Lemmas about the ledger rules and the mempool's operators, for ledgers    *)
(* and transactions of any kind and number.                                  *)
EXTENDS Mempool, TLAPS, FiniteSetTheorems, SequenceTheorems, WellFoundedInduction

-----------------------------------------------------------------------------
(* Recursion over an index.  The sets take the place of the predicate that   *)
(* an induction principle would have for a parameter.                        *)

\* A non-empty set of naturals has the minimum Min picks.
LEMMA MinProperties ==
  ASSUME NEW S \in SUBSET Nat, S # {}
  PROVE  Min(S) \in S /\ \A y \in S : Min(S) <= y
<1> DEFINE R == {p \in Nat \X Nat : p[1] < p[2]}
<1>1. \A y \in Nat, x \in Nat : y < x => <<y, x>> \in R
  OBVIOUS
<1>2. IsWellFoundedOn(R, Nat)
  BY NatLessThanWellFounded DEF OpToRel
<1> HIDE DEF R
<1>3. PICK x \in S : \A y \in S : ~ (<<y, x>> \in R)
  BY <1>2, WFMin
<1>4. \A y \in S : x <= y
  <2> SUFFICES ASSUME NEW y \in S, ~ (x <= y)
               PROVE  FALSE
    OBVIOUS
  <2>1. y \in Nat /\ x \in Nat /\ y < x
    BY <1>3
  <2>2. <<y, x>> \in R
    BY <1>1, <2>1
  <2> QED
    BY <1>3, <2>2
<1> QED
  BY <1>4 DEF Min

\* A non-empty set of naturals below a bound has the maximum Max picks.
LEMMA MaxProperties ==
  ASSUME NEW n \in Nat, NEW S \in SUBSET (0..n), S # {}
  PROVE  Max(S) \in S /\ \A y \in S : y <= Max(S)
<1> DEFINE R == {n - y : y \in S}
           m == Min(R)
<1>1. R \in SUBSET Nat /\ R # {}
  <2>1. \A y \in S : n - y \in Nat
    OBVIOUS
  <2> QED
    BY <2>1
<1>2. m \in R /\ \A y \in R : m <= y
  <2> HIDE DEF R
  <2> QED
    BY <1>1, MinProperties
<1> HIDE DEF m
<1>3. PICK x \in S : m = n - x
  BY <1>2
<1>4. ASSUME NEW y \in S PROVE y <= x
  <2>1. m <= n - y
    BY <1>2
  <2> QED
    BY <1>3, <2>1
<1> QED
  BY <1>4 DEF Max

\* A set that holds 0 and, with each index below n, the next one.
LEMMA UpTo ==
  ASSUME NEW n \in Nat, NEW good, 0 \in good,
         \A i \in 1..n : i - 1 \in good => i \in good
  PROVE  \A i \in 0..n : i \in good
<1> DEFINE bad == {i \in 0..n : i \notin good}
           m == Min(bad)
<1> SUFFICES ASSUME bad # {} PROVE FALSE
  OBVIOUS
<1>1. m \in bad /\ \A i \in bad : m <= i
  BY MinProperties
<1> HIDE DEF m
<1>2. m \in 1..n /\ m - 1 \in 0..n /\ m - 1 < m /\ m \notin good
  BY <1>1
<1>3. m - 1 \in good
  BY <1>1, <1>2
<1> QED
  BY <1>2, <1>3

\* The values of a run: f[0] is the first, step makes each from the last.
IsRunOf(f, a, step, n) == f[0] = a /\ \A i \in 1..n : f[i] = step[<<f[i - 1], i>>]

LEMMA RunOfExists ==
  ASSUME NEW S, NEW a \in S, NEW n \in Nat, NEW step \in [S \X (1..n) -> S]
  PROVE  \E f \in [0..n -> S] : IsRunOf(f, a, step, n)
<1> DEFINE good == {m \in 0..n : \E f \in [0..m -> S] : IsRunOf(f, a, step, m)}
<1>1. 0 \in good
  <2> DEFINE f == [i \in 0..0 |-> a]
  <2>1. f \in [0..0 -> S] /\ f[0] = a
    OBVIOUS
  <2> HIDE DEF f
  <2> QED
    BY <2>1 DEF IsRunOf
<1>2. ASSUME NEW m \in 1..n, m - 1 \in good
      PROVE  m \in good
  <2>1. PICK f \in [0..m - 1 -> S] : IsRunOf(f, a, step, m - 1)
    BY <1>2
  <2> DEFINE v == step[<<f[m - 1], m>>]
             g == [i \in 0..m |-> IF i = m THEN v ELSE f[i]]
  <2>2. f[m - 1] \in S
    OBVIOUS
  <2>3. v \in S
    BY <2>2
  <2> HIDE DEF v
  <2>4. g \in [0..m -> S]
    BY <2>3
  <2>5. g[0] = a /\ \A i \in 1..m : g[i] = step[<<g[i - 1], i>>]
    <3>1. g[0] = a
      BY <2>1 DEF IsRunOf
    <3>2. ASSUME NEW i \in 1..m PROVE g[i] = step[<<g[i - 1], i>>]
      <4>1. g[i - 1] = f[i - 1]
        OBVIOUS
      <4>2. CASE i = m
        <5>1. g[i] = v /\ v = step[<<f[i - 1], i>>]
          BY <4>2 DEF v
        <5> HIDE DEF g
        <5> QED
          BY <4>1, <5>1
      <4>3. CASE i # m
        <5>1. i \in 1..m - 1 /\ g[i] = f[i]
          BY <4>3
        <5>2. f[i] = step[<<f[i - 1], i>>]
          BY <2>1, <5>1 DEF IsRunOf
        <5> QED
          BY <4>1, <5>1, <5>2
      <4> QED
        BY <4>2, <4>3
    <3> QED
      BY <3>1, <3>2
  <2> HIDE DEF g
  <2>6. IsRunOf(g, a, step, m)
    BY <2>5 DEF IsRunOf
  <2> QED
    BY <2>4, <2>6
<1> HIDE DEF good
<1>3. n \in good
  BY <1>1, <1>2, UpTo
<1> QED
  BY <1>3 DEF good

-----------------------------------------------------------------------------
(* Sums over finite sets: that they exist, that they are numbers, and that   *)
(* any term may be taken out.  They pick the elements of the set in an order *)
(* nobody knows, so each fact is shown by looking at a smallest set for      *)
(* which it fails.                                                           *)

Pick(s) == CHOOSE x \in s : TRUE

\* sum maps every subset of S to the sum of f over it.
IsSum(sum, f, S) ==
  sum = [s \in SUBSET S |-> IF s = {} THEN 0 ELSE f[Pick(s)] + sum[s \ {Pick(s)}]]

\* Among finite sets that are bad, one has no bad proper subset.
LEMMA SmallestBad ==
  ASSUME NEW S, IsFiniteSet(S), NEW bad \in SUBSET (SUBSET S), bad # {}
  PROVE  \E s \in bad : \A t \in bad : t \subseteq s => t = s
<1> DEFINE sizes == {Cardinality(s) : s \in bad}
           m == Min(sizes)
<1>1. \A s \in bad : IsFiniteSet(s) /\ Cardinality(s) \in Nat
  BY FS_Subset, FS_CardinalityType
<1>2. m \in sizes /\ \A k \in sizes : m <= k
  BY <1>1, MinProperties
<1>3. PICK s \in bad : Cardinality(s) = m
  BY <1>2
<1> HIDE DEF m
<1>4. \A t \in bad : t \subseteq s => t = s
  <2> SUFFICES ASSUME NEW t \in bad, t \subseteq s, t # s PROVE FALSE
    OBVIOUS
  <2>1. Cardinality(t) < Cardinality(s)
    BY <1>1, FS_Subset
  <2>2. m <= Cardinality(t) /\ m \in Nat
    BY <1>1, <1>2
  <2> QED
    BY <1>1, <1>3, <2>1, <2>2
<1> QED
  BY <1>4

LEMMA PickInSet == ASSUME NEW s, s # {} PROVE Pick(s) \in s
BY DEF Pick

\* Two sums of the same numbers agree where both are defined.
LEMMA SumUnique ==
  ASSUME NEW S, IsFiniteSet(S), NEW T \in SUBSET S, NEW f, NEW a, NEW b,
         IsSum(a, f, S), IsSum(b, f, T)
  PROVE  \A s \in SUBSET T : a[s] = b[s]
<1> DEFINE bad == {s \in SUBSET T : a[s] # b[s]}
<1> SUFFICES ASSUME bad # {} PROVE FALSE
  OBVIOUS
<1>1. IsFiniteSet(T) /\ bad \in SUBSET (SUBSET T)
  BY FS_Subset
<1> HIDE DEF bad
<1>2. PICK s \in bad : \A t \in bad : t \subseteq s => t = s
  BY <1>1, SmallestBad
<1> USE DEF bad
<1>3. /\ a[s] = IF s = {} THEN 0 ELSE f[Pick(s)] + a[s \ {Pick(s)}]
      /\ b[s] = IF s = {} THEN 0 ELSE f[Pick(s)] + b[s \ {Pick(s)}]
  BY <1>2 DEF IsSum
<1>4. s # {}
  BY <1>2, <1>3
<1>5. s \ {Pick(s)} \notin bad /\ s \ {Pick(s)} \in SUBSET T
  BY <1>2, <1>4, PickInSet
<1>6. a[s \ {Pick(s)}] = b[s \ {Pick(s)}]
  BY <1>5
<1> QED
  BY <1>2, <1>3, <1>6

\* A sum of naturals is one.
LEMMA SumIsNat ==
  ASSUME NEW S, IsFiniteSet(S), NEW f, \A x \in S : f[x] \in Nat, NEW sum,
         IsSum(sum, f, S)
  PROVE  \A s \in SUBSET S : sum[s] \in Nat
<1> DEFINE bad == {s \in SUBSET S : sum[s] \notin Nat}
<1> SUFFICES ASSUME bad # {} PROVE FALSE
  OBVIOUS
<1>1. \A s \in SUBSET S : sum[s] = IF s = {} THEN 0 ELSE f[Pick(s)] + sum[s \ {Pick(s)}]
  BY DEF IsSum
<1>2. bad \in SUBSET (SUBSET S)
  OBVIOUS
<1> HIDE DEF bad
<1>3. PICK s \in bad : \A t \in bad : t \subseteq s => t = s
  BY <1>2, SmallestBad
<1> USE DEF bad
<1>4. s \in SUBSET S /\ sum[s] \notin Nat
  BY <1>3
<1>5. s # {}
  <2>1. s = {} => sum[s] = 0
    BY <1>1, <1>4
  <2> QED
    BY <1>4, <2>1
<1>6. Pick(s) \in s /\ s \ {Pick(s)} \notin bad /\ s \ {Pick(s)} \in SUBSET S
  BY <1>3, <1>4, <1>5, PickInSet
<1>7. f[Pick(s)] \in Nat /\ sum[s \ {Pick(s)}] \in Nat
  BY <1>4, <1>6
<1> QED
  BY <1>1, <1>4, <1>5, <1>7

\* Every finite set has a sum over its subsets.
LEMMA SumExists ==
  ASSUME NEW S, IsFiniteSet(S), NEW f
  PROVE  \E sum : IsSum(sum, f, S)
<1> DEFINE bad == {s \in SUBSET S : ~ \E sum : IsSum(sum, f, s)}
<1> SUFFICES ASSUME bad # {} PROVE FALSE
  OBVIOUS
<1>1. bad \in SUBSET (SUBSET S)
  OBVIOUS
<1> HIDE DEF bad
<1>2. PICK T \in bad : \A t \in bad : t \subseteq T => t = T
  BY <1>1, SmallestBad
<1> USE DEF bad
<1>3. T \in SUBSET S /\ IsFiniteSet(T) /\ ~ \E sum : IsSum(sum, f, T)
  BY <1>2, FS_Subset
<1> DEFINE Of(t) == CHOOSE sum : IsSum(sum, f, t)
           Value(t) == Of(t)[t]
           p == Pick(T)
           total == [s \in SUBSET T |->
             IF s = T THEN IF T = {} THEN 0 ELSE f[p] + Value(T \ {p})
             ELSE Value(s)]
           again == [s \in SUBSET T |->
             IF s = {} THEN 0 ELSE f[Pick(s)] + total[s \ {Pick(s)}]]
<1>4. ASSUME NEW t \in SUBSET T, t # T
      PROVE  IsSum(Of(t), f, t) /\ IsFiniteSet(t)
  <2>1. t \notin bad /\ t \in SUBSET S
    BY <1>2, <1>3, <1>4
  <2>2. \E sum : IsSum(sum, f, t)
    BY <2>1
  <2> QED
    BY <1>3, <2>2, FS_Subset
<1>5. ASSUME NEW t \in SUBSET T, t # T
      PROVE  Value(t) = IF t = {} THEN 0 ELSE f[Pick(t)] + Value(t \ {Pick(t)})
  <2>1. Of(t)[t] = IF t = {} THEN 0 ELSE f[Pick(t)] + Of(t)[t \ {Pick(t)}]
    <3> HIDE DEF Of
    <3> QED
      BY <1>4, <1>5 DEF IsSum
  <2>2. CASE t # {}
    <3> DEFINE rest == t \ {Pick(t)}
    <3>1. rest \in SUBSET T /\ rest # T /\ rest \in SUBSET t
      BY <1>5
    <3>2. IsSum(Of(t), f, t) /\ IsFiniteSet(t) /\ IsSum(Of(rest), f, rest)
      BY <1>4, <1>5, <3>1
    <3> HIDE DEF rest, Of
    <3>3. Of(t)[rest] = Of(rest)[rest]
      BY <3>1, <3>2, SumUnique
    <3> QED
      BY <2>1, <2>2, <3>3 DEF rest
  <2> QED
    BY <2>1, <2>2
<1> HIDE DEF Value
<1>6. ASSUME NEW s \in SUBSET T
      PROVE  total[s] = again[s]
  <2>1. s # {} => s \ {Pick(s)} \in SUBSET T /\ s \ {Pick(s)} # T
    BY PickInSet
  <2>2. s # {} => total[s \ {Pick(s)}] = Value(s \ {Pick(s)})
    BY <2>1
  <2>3. CASE s = T
    BY <2>2, <2>3
  <2>4. CASE s # T
    BY <1>5, <2>2, <2>4
  <2> QED
    BY <2>3, <2>4
<1>7. total = again
  <2>1. /\ total = [s \in SUBSET T |-> total[s]]
        /\ again = [s \in SUBSET T |-> again[s]]
    OBVIOUS
  <2> HIDE DEF total, again
  <2> QED
    BY <1>6, <2>1
<1>8. IsSum(total, f, T)
  BY <1>7 DEF IsSum
<1> QED
  BY <1>3, <1>8

SumOf(f, S) == (CHOOSE sum : IsSum(sum, f, S))[S]

LEMMA SumOfIs ==
  ASSUME NEW S, IsFiniteSet(S), NEW f, NEW sum, IsSum(sum, f, S)
  PROVE  \A s \in SUBSET S : SumOf(f, s) = sum[s]
<1> SUFFICES ASSUME NEW s \in SUBSET S PROVE SumOf(f, s) = sum[s]
  OBVIOUS
<1> DEFINE own == CHOOSE a : IsSum(a, f, s)
<1>1. IsFiniteSet(s)
  BY FS_Subset
<1>2. IsSum(own, f, s)
  BY <1>1, SumExists
<1> HIDE DEF own
<1>3. sum[s] = own[s]
  BY <1>2, SumUnique
<1> QED
  BY <1>3 DEF SumOf, own

\* Any element may be taken out of a sum, not only the one picked first.
LEMMA SumTakeOut ==
  ASSUME NEW S, IsFiniteSet(S), NEW f, \A x \in S : f[x] \in Nat, NEW x \in S
  PROVE  /\ SumOf(f, S) \in Nat
         /\ SumOf(f, S \ {x}) \in Nat
         /\ SumOf(f, S) = f[x] + SumOf(f, S \ {x})
<1>1. PICK sum : IsSum(sum, f, S)
  BY SumExists
<1>2. \A s \in SUBSET S : sum[s] \in Nat
  BY <1>1, SumIsNat
<1>3. \A s \in SUBSET S : sum[s] = IF s = {} THEN 0 ELSE f[Pick(s)] + sum[s \ {Pick(s)}]
  BY <1>1 DEF IsSum
<1> DEFINE bad == {s \in SUBSET S : \E y \in s : sum[s] # f[y] + sum[s \ {y}]}
<1>4. bad = {}
  <2> SUFFICES ASSUME bad # {} PROVE FALSE
    OBVIOUS
  <2>1. bad \in SUBSET (SUBSET S)
    OBVIOUS
  <2> HIDE DEF bad
  <2>2. PICK s \in bad : \A t \in bad : t \subseteq s => t = s
    BY <2>1, SmallestBad
  <2>3. s \in SUBSET S /\ \E y \in s : sum[s] # f[y] + sum[s \ {y}]
    BY <2>2 DEF bad
  <2>4. PICK y \in s : sum[s] # f[y] + sum[s \ {y}]
    BY <2>3
  <2> DEFINE p == Pick(s)
             sp == s \ {p}
             sy == s \ {y}
             both == s \ {p, y}
  <2>5. p \in s /\ sum[s] = f[p] + sum[sp]
    <3>1. s # {}
      BY <2>4
    <3> QED
      BY <1>3, <2>3, <3>1, PickInSet
  <2> HIDE DEF p
  <2>6. p # y
    BY <2>4, <2>5
  <2>7. /\ sp \in SUBSET S /\ sy \in SUBSET S /\ both \in SUBSET S
        /\ sp \subseteq s /\ sp # s /\ sy \subseteq s /\ sy # s
        /\ y \in sp /\ p \in sy /\ sp \ {y} = both /\ sy \ {p} = both
    BY <2>3, <2>4, <2>5, <2>6
  <2>8. sp \notin bad /\ sy \notin bad
    BY <2>2, <2>7
  <2> HIDE DEF sp, sy, both
  <2>9. sum[sp] = f[y] + sum[both]
    BY <2>7, <2>8 DEF bad
  <2>10. sum[sy] = f[p] + sum[both]
    BY <2>7, <2>8 DEF bad
  <2>11. f[y] \in Nat /\ f[p] \in Nat /\ sum[both] \in Nat
    BY <1>2, <2>3, <2>4, <2>5, <2>7
  <2>12. sum[s] = f[y] + sum[sy]
    BY <2>5, <2>9, <2>10, <2>11
  <2> QED
    BY <2>4, <2>12 DEF sy
<1>5. S \in SUBSET S /\ S \ {x} \in SUBSET S
  OBVIOUS
<1>6. sum[S] = f[x] + sum[S \ {x}]
  BY <1>4, <1>5
<1>7. SumOf(f, S) = sum[S] /\ SumOf(f, S \ {x}) = sum[S \ {x}]
  BY <1>1, <1>5, SumOfIs
<1> QED
  BY <1>2, <1>5, <1>6, <1>7

LEMMA SumEmpty ==
  ASSUME NEW f
  PROVE  SumOf(f, {}) = 0
<1>1. IsFiniteSet({})
  BY FS_EmptySet
<1>2. PICK sum : IsSum(sum, f, {})
  BY <1>1, SumExists
<1>3. SumOf(f, {}) = sum[{}]
  BY <1>1, <1>2, SumOfIs
<1>4. \A s \in SUBSET {} : sum[s] = IF s = {} THEN 0 ELSE f[Pick(s)] + sum[s \ {Pick(s)}]
  BY <1>2 DEF IsSum
<1>5. \A s \in SUBSET {} : s = {} => sum[s] = 0
  BY <1>4
<1> QED
  BY <1>3, <1>5

\* The sum depends on the terms in the set only.
LEMMA SumAlike ==
  ASSUME NEW S, IsFiniteSet(S), NEW f, NEW g, \A x \in S : f[x] = g[x]
  PROVE  SumOf(f, S) = SumOf(g, S)
<1>1. PICK sum : IsSum(sum, f, S)
  BY SumExists
<1>2. IsSum(sum, g, S)
  <2> DEFINE F == [s \in SUBSET S |-> IF s = {} THEN 0 ELSE f[Pick(s)] + sum[s \ {Pick(s)}]]
             G == [s \in SUBSET S |-> IF s = {} THEN 0 ELSE g[Pick(s)] + sum[s \ {Pick(s)}]]
  <2>1. \A s \in SUBSET S : s # {} => f[Pick(s)] = g[Pick(s)]
    BY PickInSet
  <2>2. F = G
    BY <2>1
  <2>3. sum = F
    BY <1>1 DEF IsSum
  <2> HIDE DEF F
  <2>4. sum = G
    BY <2>2, <2>3
  <2> QED
    BY <2>4 DEF IsSum
<1>3. S \in SUBSET S
  OBVIOUS
<1> QED
  BY <1>1, <1>2, <1>3, SumOfIs

-----------------------------------------------------------------------------
(* One transaction.                                                          *)

\* The maps that ledgers are: finitely many addresses with accounts.
Ledgers == UNION {[D -> Account] : D \in {A \in SUBSET Nat : IsFiniteSet(A)}}

LEMMA LedgerIs ==
  ASSUME NEW st
  PROVE  st \in Ledgers <=> /\ DOMAIN st \subseteq Nat
                            /\ IsFiniteSet(DOMAIN st)
                            /\ st \in [DOMAIN st -> Account]
<1>1. ASSUME st \in Ledgers
      PROVE  /\ DOMAIN st \subseteq Nat
             /\ IsFiniteSet(DOMAIN st)
             /\ st \in [DOMAIN st -> Account]
  <2>1. PICK D \in {A \in SUBSET Nat : IsFiniteSet(A)} : st \in [D -> Account]
    BY <1>1 DEF Ledgers
  <2>2. DOMAIN st = D
    BY <2>1
  <2> QED
    BY <2>1, <2>2
<1>2. ASSUME DOMAIN st \subseteq Nat, IsFiniteSet(DOMAIN st),
             st \in [DOMAIN st -> Account]
      PROVE  st \in Ledgers
  <2>1. DOMAIN st \in {A \in SUBSET Nat : IsFiniteSet(A)}
    BY <1>2
  <2> QED
    BY <1>2, <2>1 DEF Ledgers
<1> QED
  BY <1>1, <1>2

LEMMA AccountTyped ==
  ASSUME NEW st \in Ledgers, NEW addr
  PROVE  /\ AccountOf(st, addr) \in Account
         /\ AccountOf(st, addr) = [Balance |-> AccountOf(st, addr).Balance,
                                   Nonce |-> AccountOf(st, addr).Nonce]
         /\ AccountOf(st, addr).Balance \in Nat
         /\ AccountOf(st, addr).Nonce \in Nat
<1>1. st \in [DOMAIN st -> Account]
  BY LedgerIs
<1>2. AccountOf(st, addr) \in Account
  <2>1. CASE addr \in DOMAIN st
    BY <1>1, <2>1 DEF AccountOf
  <2>2. CASE addr \notin DOMAIN st
    BY <2>2 DEF AccountOf, Account
  <2> QED
    BY <2>1, <2>2
<1> QED
  BY <1>2 DEF Account

\* new is st with another account at addr.
Changed(st, new, addr, account) ==
  /\ new \in Ledgers
  /\ DOMAIN new = DOMAIN st \cup {addr}
  /\ \A a : AccountOf(new, a) = IF a = addr THEN account ELSE AccountOf(st, a)

\* An account written to a ledger changes that account only.
LEMMA PutAccount ==
  ASSUME NEW st \in Ledgers, NEW addr \in Nat, NEW account \in Account
  PROVE  Changed(st, Put(st, addr, account), addr, account)
<1> DEFINE new == Put(st, addr, account)
<1>1. DOMAIN st \subseteq Nat /\ IsFiniteSet(DOMAIN st) /\ st \in [DOMAIN st -> Account]
  BY LedgerIs
<1>2. /\ DOMAIN new = DOMAIN st \cup {addr}
      /\ new \in [DOMAIN st \cup {addr} -> Account]
      /\ \A a \in DOMAIN st \cup {addr} : new[a] = IF a = addr THEN account ELSE st[a]
  BY <1>1 DEF Put
<1>3. IsFiniteSet(DOMAIN st \cup {addr})
  BY <1>1, FS_AddElement
<1> HIDE DEF new
<1>4. new \in Ledgers
  BY <1>1, <1>2, <1>3, LedgerIs
<1>5. ASSUME NEW a
      PROVE  AccountOf(new, a) = IF a = addr THEN account ELSE AccountOf(st, a)
  BY <1>2 DEF AccountOf
<1> QED
  BY <1>2, <1>4, <1>5 DEF new, Changed

More(account, amount) ==
  [Balance |-> account.Balance + amount, Nonce |-> account.Nonce]

\* So does a credit, which leaves the nonce alone.
LEMMA CreditAccount ==
  ASSUME NEW st \in Ledgers, NEW addr \in Nat, NEW amount \in Nat
  PROVE  /\ More(AccountOf(st, addr), amount) \in Account
         /\ Changed(st, Credit(st, addr, amount), addr, More(AccountOf(st, addr), amount))
<1> DEFINE account == More(AccountOf(st, addr), amount)
<1>1. Credit(st, addr, amount) = Put(st, addr, account)
  <2>1. [AccountOf(st, addr) EXCEPT !.Balance = @ + amount] = account
    BY AccountTyped DEF Account, More
  <2> HIDE DEF account
  <2> QED
    BY <2>1 DEF Credit
<1>2. account \in Account
  BY AccountTyped DEF Account, More
<1> HIDE DEF account
<1>3. Changed(st, Put(st, addr, account), addr, account)
  BY <1>2, PutAccount
<1> QED
  BY <1>1, <1>2, <1>3 DEF account

\* The account of the sender after it has been debited.
Debited(st, tx) ==
  [Balance |-> AccountOf(st, tx.From).Balance - (tx.Amount + tx.Fee),
   Nonce |-> tx.Nonce]

AfterDebit(st, tx) == Put(st, tx.From, Debited(st, tx))

AfterPayment(st, tx) == Credit(AfterDebit(st, tx), tx.To, tx.Amount)

\* The steps of ApplyTx: debit the sender, credit the receiver, credit the
\* producer if there is one.
LEMMA TxSteps ==
  ASSUME NEW st \in Ledgers, NEW tx \in Transaction, TxApplies(st, tx),
         NEW producer \in Nat
  PROVE  LET debited == AfterDebit(st, tx)
             paid == AfterPayment(st, tx)
             end == ApplyTx(st, tx, producer)
         IN /\ Debited(st, tx).Balance + (tx.Amount + tx.Fee)
                 = AccountOf(st, tx.From).Balance
            /\ Debited(st, tx) \in Account
            /\ Debited(st, tx).Nonce = AccountOf(st, tx.From).Nonce + 1
            /\ Changed(st, debited, tx.From, Debited(st, tx))
            /\ Changed(debited, paid, tx.To, More(AccountOf(debited, tx.To), tx.Amount))
            /\ IF producer # NoAddr /\ tx.Fee > 0
               THEN Changed(paid, end, producer, More(AccountOf(paid, producer), tx.Fee))
               ELSE end = paid
<1> DEFINE account == Debited(st, tx)
           debited == AfterDebit(st, tx)
           paid == AfterPayment(st, tx)
           end == ApplyTx(st, tx, producer)
<1>1. /\ tx.From \in Nat /\ tx.To \in Nat /\ tx.Nonce \in Nat
      /\ tx.Amount \in Nat /\ tx.Fee \in Nat
  BY DEF Transaction, TxApplies
<1>2. /\ account \in Account
      /\ account.Nonce = AccountOf(st, tx.From).Nonce + 1
      /\ account.Balance + (tx.Amount + tx.Fee) = AccountOf(st, tx.From).Balance
  <2>1. /\ AccountOf(st, tx.From).Balance \in Nat
        /\ AccountOf(st, tx.From).Balance >= tx.Amount + tx.Fee
        /\ AccountOf(st, tx.From).Nonce + 1 = tx.Nonce
    BY <1>1, AccountTyped DEF TxApplies
  <2> QED
    BY <1>1, <2>1 DEF Account, Debited
<1>3. Changed(st, debited, tx.From, account)
  <2> HIDE DEF account
  <2>1. Changed(st, Put(st, tx.From, account), tx.From, account)
    BY <1>1, <1>2, PutAccount
  <2> QED
    BY <2>1 DEF AfterDebit, account
<1>4. debited \in Ledgers
  BY <1>3 DEF Changed
<1> HIDE DEF account, debited
<1>5. Changed(debited, paid, tx.To, More(AccountOf(debited, tx.To), tx.Amount))
  <2>1. paid = Credit(debited, tx.To, tx.Amount)
    BY DEF AfterPayment, debited
  <2> HIDE DEF paid
  <2> QED
    BY <1>1, <1>4, <2>1, CreditAccount
<1>6. paid \in Ledgers
  BY <1>5 DEF Changed
<1>7. CASE producer # NoAddr /\ tx.Fee > 0
  <2>1. end = Credit(paid, producer, tx.Fee)
    BY <1>7 DEF ApplyTx, AfterPayment, AfterDebit, Debited
  <2> HIDE DEF paid, end
  <2>2. Changed(paid, end, producer, More(AccountOf(paid, producer), tx.Fee))
    BY <1>1, <1>6, <2>1, CreditAccount
  <2> QED
    BY <1>2, <1>3, <1>5, <1>7, <2>2 DEF account, debited, paid, end
<1>8. CASE ~ (producer # NoAddr /\ tx.Fee > 0)
  <2>1. end = paid
    BY <1>8 DEF ApplyTx, AfterPayment, AfterDebit, Debited
  <2> HIDE DEF paid, end
  <2> QED
    BY <1>2, <1>3, <1>5, <1>8, <2>1 DEF account, debited, paid, end
<1> QED
  BY <1>7, <1>8

\* A transaction that passes the checks leaves a ledger, without an overdrawn
\* account, in which the sender's nonce has moved by one and no other has.
LEMMA TxEffect ==
  ASSUME NEW st \in Ledgers, NEW tx \in Transaction, TxApplies(st, tx),
         NEW producer \in Nat
  PROVE  /\ ApplyTx(st, tx, producer) \in Ledgers
         /\ DOMAIN st \subseteq DOMAIN ApplyTx(st, tx, producer)
         /\ \A a : AccountOf(ApplyTx(st, tx, producer), a).Nonce =
                     IF a = tx.From THEN AccountOf(st, a).Nonce + 1
                     ELSE AccountOf(st, a).Nonce
<1> DEFINE debited == AfterDebit(st, tx)
           paid == AfterPayment(st, tx)
           end == ApplyTx(st, tx, producer)
<1>1. /\ Debited(st, tx).Nonce = AccountOf(st, tx.From).Nonce + 1
      /\ Changed(st, debited, tx.From, Debited(st, tx))
      /\ Changed(debited, paid, tx.To, More(AccountOf(debited, tx.To), tx.Amount))
      /\ IF producer # NoAddr /\ tx.Fee > 0
         THEN Changed(paid, end, producer, More(AccountOf(paid, producer), tx.Fee))
         ELSE end = paid
  BY TxSteps
<1> HIDE DEF debited, paid, end
<1>2. end \in Ledgers /\ DOMAIN st \subseteq DOMAIN end
  BY <1>1 DEF Changed
<1>3. ASSUME NEW a
      PROVE  AccountOf(end, a).Nonce = IF a = tx.From THEN AccountOf(st, a).Nonce + 1
                                       ELSE AccountOf(st, a).Nonce
  <2>1. AccountOf(debited, a).Nonce = IF a = tx.From THEN AccountOf(st, a).Nonce + 1
                                      ELSE AccountOf(st, a).Nonce
    BY <1>1 DEF Changed
  <2>2. AccountOf(paid, a).Nonce = AccountOf(debited, a).Nonce
    BY <1>1 DEF Changed, More
  <2>3. AccountOf(end, a).Nonce = AccountOf(paid, a).Nonce
    BY <1>1 DEF Changed, More
  <2> QED
    BY <2>1, <2>2, <2>3
<1> QED
  BY <1>2, <1>3 DEF end

-----------------------------------------------------------------------------
(* A list of transactions.                                                   *)

Results == [ok : BOOLEAN, st : Ledgers]

\* What ApplyTransactions makes of its state r when it comes to tx.
ApplyNext(st, r, tx, producer) ==
  IF r.ok /\ TxApplies(r.st, tx)
  THEN [ok |-> TRUE, st |-> ApplyTx(r.st, tx, producer)]
  ELSE [ok |-> FALSE, st |-> st]

IsApplication(f, st, txs, producer) ==
  f = [i \in 0..Len(txs) |->
         IF i = 0 THEN [ok |-> TRUE, st |-> st]
         ELSE ApplyNext(st, f[i - 1], txs[i], producer)]

\* f holds the values of the loop of ApplyTransactions.
IsApplyRun(f, st, txs, producer) ==
  /\ f \in [0..Len(txs) -> Results]
  /\ f[0] = [ok |-> TRUE, st |-> st]
  /\ \A i \in 1..Len(txs) : f[i] = ApplyNext(st, f[i - 1], txs[i], producer)

LEMMA ApplyNextTyped ==
  ASSUME NEW st \in Ledgers, NEW r \in Results, NEW tx \in Transaction,
         NEW producer \in Nat
  PROVE  ApplyNext(st, r, tx, producer) \in Results
<1>1. r.ok \in BOOLEAN /\ r.st \in Ledgers
  BY DEF Results
<1>2. TxApplies(r.st, tx) => ApplyTx(r.st, tx, producer) \in Ledgers
  BY <1>1, TxEffect
<1> QED
  BY <1>1, <1>2 DEF ApplyNext, Results

\* ApplyTransactions is the last value of its loop, and the loop exists.
LEMMA ApplicationRuns ==
  ASSUME NEW st \in Ledgers, NEW txs \in Seq(Transaction), NEW producer \in Nat
  PROVE  \E f : /\ IsApplyRun(f, st, txs, producer)
                /\ ApplyTransactions(st, txs, producer) = f[Len(txs)]
<1> DEFINE n == Len(txs)
           a == [ok |-> TRUE, st |-> st]
           step == [x \in Results \X (1..n) |-> ApplyNext(st, x[1], txs[x[2]], producer)]
           f == CHOOSE g : IsApplication(g, st, txs, producer)
<1>1. n \in Nat /\ \A i \in 1..n : txs[i] \in Transaction
  OBVIOUS
<1>2. a \in Results
  BY DEF Results
<1>3. step \in [Results \X (1..n) -> Results]
  BY <1>1, ApplyNextTyped
<1>4. \A r \in Results, i \in 1..n :
        step[<<r, i>>] = ApplyNext(st, r, txs[i], producer)
  OBVIOUS
<1> HIDE DEF step, a, n
<1>5. PICK g \in [0..n -> Results] : IsRunOf(g, a, step, n)
  BY <1>1, <1>2, <1>3, RunOfExists
<1>6. IsApplication(g, st, txs, producer)
  <2>1. g[0] = a /\ \A i \in 1..n : g[i] = ApplyNext(st, g[i - 1], txs[i], producer)
    <3>1. \A i \in 1..n : g[i - 1] \in Results
      BY <1>1
    <3> QED
      BY <1>4, <1>5, <3>1 DEF IsRunOf
  <2>2. g = [i \in 0..n |-> g[i]]
    OBVIOUS
  <2>3. \A i \in 0..n : g[i] = IF i = 0 THEN a
                               ELSE ApplyNext(st, g[i - 1], txs[i], producer)
    BY <1>1, <2>1
  <2> QED
    BY <2>2, <2>3 DEF IsApplication, a, n
<1>7. IsApplication(f, st, txs, producer)
  BY <1>6
<1> HIDE DEF f
<1>8. /\ f[0] = a
      /\ \A i \in 1..n : f[i] = ApplyNext(st, f[i - 1], txs[i], producer)
      /\ f = [i \in 0..n |-> f[i]]
  <2>1. f = [i \in 0..n |-> IF i = 0 THEN a
                            ELSE ApplyNext(st, f[i - 1], txs[i], producer)]
    BY <1>7 DEF IsApplication, a, n
  <2>2. \A i \in 0..n : f[i] = IF i = 0 THEN a
                               ELSE ApplyNext(st, f[i - 1], txs[i], producer)
    BY <2>1
  <2>3. f = [i \in 0..n |-> f[i]]
    BY <2>1, <2>2
  <2>4. f[0] = a
    BY <1>1, <2>2
  <2>5. ASSUME NEW i \in 1..n
        PROVE  f[i] = ApplyNext(st, f[i - 1], txs[i], producer)
    <3>1. i \in 0..n /\ i # 0
      BY <1>1
    <3> QED
      BY <2>2, <3>1
  <2> QED
    BY <2>3, <2>4, <2>5
<1>9. \A i \in 0..n : f[i] \in Results
  <2> DEFINE good == {i \in 0..n : f[i] \in Results}
  <2>1. 0 \in good
    BY <1>1, <1>2, <1>8
  <2>2. ASSUME NEW i \in 1..n, i - 1 \in good PROVE i \in good
    <3>1. f[i - 1] \in Results /\ i \in 0..n /\ txs[i] \in Transaction
      BY <1>1, <2>2
    <3>2. ApplyNext(st, f[i - 1], txs[i], producer) \in Results
      BY <3>1, ApplyNextTyped
    <3>3. f[i] = ApplyNext(st, f[i - 1], txs[i], producer)
      BY <1>8
    <3> QED
      BY <3>1, <3>2, <3>3
  <2> HIDE DEF good
  <2>3. \A i \in 0..n : i \in good
    BY <1>1, <2>1, <2>2, UpTo
  <2> QED
    BY <2>3 DEF good
<1>10. ApplyTransactions(st, txs, producer) = f[n]
  BY DEF ApplyTransactions, f, n, IsApplication, ApplyNext
<1>11. IsApplyRun(f, st, txs, producer)
  BY <1>8, <1>9 DEF a, n, IsApplyRun
<1> QED
  BY <1>10, <1>11 DEF n

LEMMA ApplicationTyped ==
  ASSUME NEW st \in Ledgers, NEW txs \in Seq(Transaction), NEW producer \in Nat
  PROVE  ApplyTransactions(st, txs, producer) \in Results
<1>1. PICK f : /\ IsApplyRun(f, st, txs, producer)
               /\ ApplyTransactions(st, txs, producer) = f[Len(txs)]
  BY ApplicationRuns
<1> QED
  BY <1>1 DEF IsApplyRun

LEMMA ApplyNothing ==
  ASSUME NEW st \in Ledgers, NEW producer \in Nat
  PROVE  ApplyTransactions(st, <<>>, producer) = [ok |-> TRUE, st |-> st]
<1>1. <<>> \in Seq(Transaction) /\ Len(<<>>) = 0
  OBVIOUS
<1>2. PICK f : /\ IsApplyRun(f, st, <<>>, producer)
               /\ ApplyTransactions(st, <<>>, producer) = f[Len(<<>>)]
  BY <1>1, ApplicationRuns
<1> QED
  BY <1>1, <1>2 DEF IsApplyRun

\* One more transaction is one more step.
LEMMA ApplyOneMore ==
  ASSUME NEW st \in Ledgers, NEW txs \in Seq(Transaction), NEW tx \in Transaction,
         NEW producer \in Nat
  PROVE  ApplyTransactions(st, Append(txs, tx), producer)
           = ApplyNext(st, ApplyTransactions(st, txs, producer), tx, producer)
<1> DEFINE n == Len(txs)
           all == Append(txs, tx)
<1>1. /\ n \in Nat /\ all \in Seq(Transaction) /\ Len(all) = n + 1 /\ all[n + 1] = tx
      /\ \A i \in 1..n : all[i] = txs[i]
  OBVIOUS
<1> HIDE DEF all, n
<1>r. PICK f : /\ IsApplyRun(f, st, txs, producer)
               /\ ApplyTransactions(st, txs, producer) = f[Len(txs)]
  BY ApplicationRuns
<1>s. PICK g : /\ IsApplyRun(g, st, all, producer)
               /\ ApplyTransactions(st, all, producer) = g[Len(all)]
  BY <1>1, ApplicationRuns
<1>2. /\ f[0] = [ok |-> TRUE, st |-> st]
      /\ \A i \in 1..n : f[i] = ApplyNext(st, f[i - 1], txs[i], producer)
      /\ ApplyTransactions(st, txs, producer) = f[n]
  BY <1>r DEF n, IsApplyRun
<1>3. /\ g[0] = [ok |-> TRUE, st |-> st]
      /\ \A i \in 1..n + 1 : g[i] = ApplyNext(st, g[i - 1], all[i], producer)
      /\ ApplyTransactions(st, all, producer) = g[n + 1]
  BY <1>1, <1>s DEF IsApplyRun
<1> DEFINE good == {i \in 0..n : f[i] = g[i]}
<1>4. 0 \in good
  BY <1>1, <1>2, <1>3
<1>5. ASSUME NEW i \in 1..n, i - 1 \in good PROVE i \in good
  <2>1. i \in 1..n + 1 /\ i \in 0..n /\ f[i - 1] = g[i - 1]
    BY <1>1, <1>5
  <2> QED
    BY <1>1, <1>2, <1>3, <2>1
<1> HIDE DEF good
<1>6. \A i \in 0..n : i \in good
  BY <1>1, <1>4, <1>5, UpTo
<1>7. f[n] = g[n]
  BY <1>1, <1>6 DEF good
<1>8. g[n + 1] = ApplyNext(st, g[n], tx, producer)
  <2>1. n + 1 \in 1..n + 1 /\ (n + 1) - 1 = n
    BY <1>1
  <2> QED
    BY <1>1, <1>3, <2>1
<1> QED
  BY <1>2, <1>3, <1>7, <1>8 DEF all

LEMMA ApplySingle ==
  ASSUME NEW st \in Ledgers, NEW tx \in Transaction, NEW producer \in Nat
  PROVE  ApplyTransactions(st, <<tx>>, producer)
           = IF TxApplies(st, tx)
             THEN [ok |-> TRUE, st |-> ApplyTx(st, tx, producer)]
             ELSE [ok |-> FALSE, st |-> st]
<1>1. <<>> \in Seq(Transaction) /\ Append(<<>>, tx) = <<tx>>
  OBVIOUS
<1>2. ApplyTransactions(st, Append(<<>>, tx), producer)
        = ApplyNext(st, ApplyTransactions(st, <<>>, producer), tx, producer)
  BY <1>1, ApplyOneMore
<1>3. ApplyTransactions(st, <<>>, producer) = [ok |-> TRUE, st |-> st]
  BY ApplyNothing
<1>4. ApplyNext(st, [ok |-> TRUE, st |-> st], tx, producer)
        = IF TxApplies(st, tx)
          THEN [ok |-> TRUE, st |-> ApplyTx(st, tx, producer)]
          ELSE [ok |-> FALSE, st |-> st]
  BY DEF ApplyNext
<1> QED
  BY <1>1, <1>2, <1>3, <1>4

-----------------------------------------------------------------------------
(* The pass of PopForBlock.                                                  *)

\* s consists of transactions of txs[1..n], in the order they have there.
IsPart(s, txs, n) ==
  \E at \in [1..Len(s) -> 1..n] :
    /\ \A i, j \in 1..Len(s) : i < j => at[i] < at[j]
    /\ \A i \in 1..Len(s) : s[i] = txs[at[i]]

LEMMA PartOfMore ==
  ASSUME NEW T, NEW s \in Seq(T), NEW txs, NEW n \in Nat, IsPart(s, txs, n)
  PROVE  /\ IsPart(s, txs, n + 1)
         /\ IsPart(Append(s, txs[n + 1]), txs, n + 1)
<1> DEFINE l == Len(s)
           new == Append(s, txs[n + 1])
<1>1. PICK at \in [1..l -> 1..n] :
        /\ \A i, j \in 1..l : i < j => at[i] < at[j]
        /\ \A i \in 1..l : s[i] = txs[at[i]]
  BY DEF IsPart
<1>2. l \in Nat
  OBVIOUS
<1>3. IsPart(s, txs, n + 1)
  <2>1. at \in [1..l -> 1..n + 1]
    OBVIOUS
  <2> QED
    BY <1>1, <2>1 DEF IsPart
<1>4. IsPart(new, txs, n + 1)
  <2> DEFINE more == [i \in 1..l + 1 |-> IF i = l + 1 THEN n + 1 ELSE at[i]]
  <2>1. Len(new) = l + 1 /\ new[l + 1] = txs[n + 1] /\ \A i \in 1..l : new[i] = s[i]
    OBVIOUS
  <2>2. \A i \in 1..l : at[i] \in 1..n /\ at[i] \in 1..n + 1 /\ at[i] < n + 1
    OBVIOUS
  <2> HIDE DEF new, l
  <2>3. more \in [1..l + 1 -> 1..n + 1]
    BY <1>2, <2>2
  <2>4. /\ more[l + 1] = n + 1
        /\ \A i \in 1..l : more[i] = at[i]
    BY <1>2
  <2> HIDE DEF more
  <2>5. \A i, j \in 1..l + 1 : i < j => more[i] < more[j]
    <3> SUFFICES ASSUME NEW i \in 1..l + 1, NEW j \in 1..l + 1, i < j
                 PROVE  more[i] < more[j]
      OBVIOUS
    <3>1. i \in 1..l
      BY <1>2
    <3>2. CASE j = l + 1
      BY <2>2, <2>4, <3>1, <3>2
    <3>3. CASE j # l + 1
      <4>1. j \in 1..l
        BY <1>2, <3>3
      <4> QED
        BY <1>1, <2>4, <3>1, <4>1
    <3> QED
      BY <3>2, <3>3
  <2>6. \A i \in 1..l + 1 : new[i] = txs[more[i]]
    <3> SUFFICES ASSUME NEW i \in 1..l + 1 PROVE new[i] = txs[more[i]]
      OBVIOUS
    <3>1. CASE i = l + 1
      BY <2>1, <2>4, <3>1
    <3>2. CASE i # l + 1
      <4>1. i \in 1..l
        BY <1>2, <3>2
      <4> QED
        BY <1>1, <2>1, <2>4, <4>1
    <3> QED
      BY <3>1, <3>2
  <2> QED
    BY <2>1, <2>3, <2>5, <2>6 DEF IsPart
<1> QED
  BY <1>3, <1>4

Picks == [out : Seq(Transaction), remaining : Seq(Transaction), st : Ledgers]

\* What PopForBlock makes of its state r when it comes to tx.
PopNext(r, tx, max, producer) ==
  LET applied == ApplyTransactions(r.st, <<tx>>, producer)
  IN IF Len(r.out) >= max \/ ~ applied.ok
     THEN [r EXCEPT !.remaining = Append(@, tx)]
     ELSE [r EXCEPT !.out = Append(@, tx), !.st = applied.st]

IsPass(f, txs, st, max, producer) ==
  f = [i \in 0..Len(txs) |->
         IF i = 0 THEN [out |-> <<>>, remaining |-> <<>>, st |-> st]
         ELSE PopNext(f[i - 1], txs[i], max, producer)]

\* A transaction is left in the pool, or it applies and is taken.
LEMMA PopNextCases ==
  ASSUME NEW r \in Picks, NEW tx \in Transaction, NEW max \in Nat,
         NEW producer \in Nat
  PROVE  /\ PopNext(r, tx, max, producer) \in Picks
         /\ \/ /\ Len(r.out) < max
               /\ TxApplies(r.st, tx)
               /\ PopNext(r, tx, max, producer) =
                    [out |-> Append(r.out, tx), remaining |-> r.remaining,
                     st |-> ApplyTx(r.st, tx, producer)]
            \/ PopNext(r, tx, max, producer) =
                 [out |-> r.out, remaining |-> Append(r.remaining, tx), st |-> r.st]
<1> DEFINE applied == ApplyTransactions(r.st, <<tx>>, producer)
           next == PopNext(r, tx, max, producer)
<1>1. /\ r.out \in Seq(Transaction) /\ r.remaining \in Seq(Transaction)
      /\ r.st \in Ledgers
      /\ r = [out |-> r.out, remaining |-> r.remaining, st |-> r.st]
  BY DEF Picks
<1>2. applied = IF TxApplies(r.st, tx)
                THEN [ok |-> TRUE, st |-> ApplyTx(r.st, tx, producer)]
                ELSE [ok |-> FALSE, st |-> r.st]
  BY <1>1, ApplySingle
<1>3. Len(r.out) \in Nat
  BY <1>1
<1> HIDE DEF applied
<1>4. CASE Len(r.out) >= max \/ ~ applied.ok
  <2>1. next = [r EXCEPT !.remaining = Append(@, tx)]
    BY <1>4 DEF PopNext, applied
  <2>2. next = [out |-> r.out, remaining |-> Append(r.remaining, tx), st |-> r.st]
    BY <2>1 DEF Picks
  <2>3. Append(r.remaining, tx) \in Seq(Transaction)
    BY <1>1
  <2> QED
    BY <1>1, <2>2, <2>3 DEF Picks
<1>5. CASE ~ (Len(r.out) >= max \/ ~ applied.ok)
  <2>1. TxApplies(r.st, tx) /\ applied.st = ApplyTx(r.st, tx, producer)
    BY <1>2, <1>5
  <2>2. next = [r EXCEPT !.out = Append(@, tx), !.st = applied.st]
    BY <1>5 DEF PopNext, applied
  <2>3. next = [out |-> Append(r.out, tx), remaining |-> r.remaining, st |-> applied.st]
    BY <2>2 DEF Picks
  <2>4. Append(r.out, tx) \in Seq(Transaction) /\ ApplyTx(r.st, tx, producer) \in Ledgers
    BY <1>1, <2>1, TxEffect
  <2> QED
    BY <1>1, <1>3, <1>5, <2>1, <2>3, <2>4 DEF Picks
<1> QED
  BY <1>4, <1>5

\* f holds the values of the loop of PopForBlock.
IsPopRun(f, txs, st, max, producer) ==
  /\ f \in [0..Len(txs) -> Picks]
  /\ f[0] = [out |-> <<>>, remaining |-> <<>>, st |-> st]
  /\ \A i \in 1..Len(txs) : f[i] = PopNext(f[i - 1], txs[i], max, producer)

LEMMA PopRuns ==
  ASSUME NEW st \in Ledgers, NEW txs \in Seq(Transaction), NEW max \in Nat,
         NEW producer \in Nat
  PROVE  \E f : /\ IsPopRun(f, txs, st, max, producer)
                /\ PopForBlock(txs, st, max, producer) = f[Len(txs)]
<1> DEFINE n == Len(txs)
           a == [out |-> <<>>, remaining |-> <<>>, st |-> st]
           step == [x \in Picks \X (1..n) |-> PopNext(x[1], txs[x[2]], max, producer)]
           f == CHOOSE g : IsPass(g, txs, st, max, producer)
<1>1. n \in Nat /\ \A i \in 1..n : txs[i] \in Transaction
  OBVIOUS
<1>2. a \in Picks
  BY DEF Picks
<1>3. step \in [Picks \X (1..n) -> Picks]
  BY <1>1, PopNextCases
<1>4. \A r \in Picks, i \in 1..n : step[<<r, i>>] = PopNext(r, txs[i], max, producer)
  OBVIOUS
<1> HIDE DEF step, a, n
<1>5. PICK g \in [0..n -> Picks] : IsRunOf(g, a, step, n)
  BY <1>1, <1>2, <1>3, RunOfExists
<1>6. IsPass(g, txs, st, max, producer)
  <2>1. g[0] = a /\ \A i \in 1..n : g[i] = PopNext(g[i - 1], txs[i], max, producer)
    <3>1. \A i \in 1..n : g[i - 1] \in Picks
      BY <1>1
    <3> QED
      BY <1>4, <1>5, <3>1 DEF IsRunOf
  <2>2. g = [i \in 0..n |-> g[i]]
    OBVIOUS
  <2>3. \A i \in 0..n : g[i] = IF i = 0 THEN a
                               ELSE PopNext(g[i - 1], txs[i], max, producer)
    BY <1>1, <2>1
  <2> QED
    BY <2>2, <2>3 DEF IsPass, a, n
<1>7. IsPass(f, txs, st, max, producer)
  BY <1>6
<1> HIDE DEF f
<1>8. /\ f[0] = a
      /\ \A i \in 1..n : f[i] = PopNext(f[i - 1], txs[i], max, producer)
      /\ f = [i \in 0..n |-> f[i]]
  <2>1. f = [i \in 0..n |-> IF i = 0 THEN a ELSE PopNext(f[i - 1], txs[i], max, producer)]
    BY <1>7 DEF IsPass, a, n
  <2>2. \A i \in 0..n : f[i] = IF i = 0 THEN a
                               ELSE PopNext(f[i - 1], txs[i], max, producer)
    BY <2>1
  <2>3. f = [i \in 0..n |-> f[i]]
    BY <2>1, <2>2
  <2>4. f[0] = a
    BY <1>1, <2>2
  <2>5. ASSUME NEW i \in 1..n
        PROVE  f[i] = PopNext(f[i - 1], txs[i], max, producer)
    <3>1. i \in 0..n /\ i # 0
      BY <1>1
    <3> QED
      BY <2>2, <3>1
  <2> QED
    BY <2>3, <2>4, <2>5
<1>9. \A i \in 0..n : f[i] \in Picks
  <2> DEFINE good == {i \in 0..n : f[i] \in Picks}
  <2>1. 0 \in good
    BY <1>1, <1>2, <1>8
  <2>2. ASSUME NEW i \in 1..n, i - 1 \in good PROVE i \in good
    <3>1. f[i - 1] \in Picks /\ i \in 0..n /\ txs[i] \in Transaction
      BY <1>1, <2>2
    <3>2. PopNext(f[i - 1], txs[i], max, producer) \in Picks
      BY <3>1, PopNextCases
    <3>3. f[i] = PopNext(f[i - 1], txs[i], max, producer)
      BY <1>8
    <3> QED
      BY <3>1, <3>2, <3>3
  <2> HIDE DEF good
  <2>3. \A i \in 0..n : i \in good
    BY <1>1, <2>1, <2>2, UpTo
  <2> QED
    BY <2>3 DEF good
<1>10. PopForBlock(txs, st, max, producer) = f[n]
  BY DEF PopForBlock, f, n, IsPass, PopNext
<1>11. IsPopRun(f, txs, st, max, producer)
  BY <1>8, <1>9 DEF a, n, IsPopRun
<1> QED
  BY <1>10, <1>11 DEF n

NoneTwice(s) == \A i, j \in 1..Len(s) : s[i] = s[j] => i = j

LEMMA AppendToSet ==
  ASSUME NEW T, NEW s \in Seq(T), NEW x
  PROVE  ToSet(Append(s, x)) = ToSet(s) \cup {x}
<1>1. /\ Len(s) \in Nat /\ DOMAIN s = 1..Len(s)
      /\ DOMAIN Append(s, x) = 1..Len(s) + 1
      /\ Append(s, x)[Len(s) + 1] = x
      /\ \A i \in 1..Len(s) : Append(s, x)[i] = s[i]
  OBVIOUS
<1>2. 1..Len(s) + 1 = (1..Len(s)) \cup {Len(s) + 1}
  BY <1>1
<1> QED
  BY <1>1, <1>2 DEF ToSet

LEMMA EmptyToSet == ToSet(<<>>) = {}
BY DEF ToSet

\* r is the state of the pass when it has seen txs[1..n]: what it has taken
\* applies in that order, both halves keep the order, nothing is lost and
\* nothing is in both.
GoodPick(r, txs, st, producer, n) ==
  /\ r \in Picks
  /\ ApplyTransactions(st, r.out, producer) = [ok |-> TRUE, st |-> r.st]
  /\ IsPart(r.out, txs, n)
  /\ IsPart(r.remaining, txs, n)
  /\ \A i \in 1..n : txs[i] \in ToSet(r.out) \cup ToSet(r.remaining)
  /\ NoneTwice(txs) => ToSet(r.out) \cap ToSet(r.remaining) = {}

LEMMA PartToSet ==
  ASSUME NEW T, NEW s \in Seq(T), NEW txs, NEW n \in Nat, IsPart(s, txs, n)
  PROVE  \A x \in ToSet(s) : \E i \in 1..n : x = txs[i]
<1>1. PICK at \in [1..Len(s) -> 1..n] : \A i \in 1..Len(s) : s[i] = txs[at[i]]
  BY DEF IsPart
<1> QED
  BY <1>1 DEF ToSet

LEMMA GoodPickNext ==
  ASSUME NEW st \in Ledgers, NEW txs \in Seq(Transaction), NEW max \in Nat,
         NEW producer \in Nat, NEW n \in Nat, n + 1 \in 1..Len(txs),
         NEW r, GoodPick(r, txs, st, producer, n)
  PROVE  GoodPick(PopNext(r, txs[n + 1], max, producer), txs, st, producer, n + 1)
<1> DEFINE tx == txs[n + 1]
           next == PopNext(r, tx, max, producer)
<1>1. /\ r \in Picks /\ tx \in Transaction
      /\ r.out \in Seq(Transaction) /\ r.remaining \in Seq(Transaction)
      /\ r.st \in Ledgers
  BY DEF GoodPick, Picks
<1>2. next \in Picks
  BY <1>1, PopNextCases
<1>3. /\ IsPart(r.out, txs, n + 1) /\ IsPart(Append(r.out, tx), txs, n + 1)
      /\ IsPart(r.remaining, txs, n + 1) /\ IsPart(Append(r.remaining, tx), txs, n + 1)
  BY <1>1, PartOfMore DEF GoodPick
<1>4. NoneTwice(txs) => tx \notin ToSet(r.out) \cup ToSet(r.remaining)
  <2>1. \A x \in ToSet(r.out) \cup ToSet(r.remaining) : \E i \in 1..n : x = txs[i]
    BY <1>1, PartToSet DEF GoodPick
  <2>2. Len(txs) \in Nat /\ \A i \in 1..n : i \in 1..Len(txs) /\ i # n + 1
    OBVIOUS
  <2> QED
    BY <2>1, <2>2 DEF NoneTwice
<1>5. /\ ToSet(Append(r.out, tx)) = ToSet(r.out) \cup {tx}
      /\ ToSet(Append(r.remaining, tx)) = ToSet(r.remaining) \cup {tx}
  BY <1>1, AppendToSet
<1>6. \A i \in 1..n + 1 : i \in 1..n \/ i = n + 1
  OBVIOUS
<1>7. /\ ApplyTransactions(st, r.out, producer) = [ok |-> TRUE, st |-> r.st]
      /\ \A i \in 1..n : txs[i] \in ToSet(r.out) \cup ToSet(r.remaining)
      /\ NoneTwice(txs) => ToSet(r.out) \cap ToSet(r.remaining) = {}
  BY DEF GoodPick
<1>8. CASE /\ TxApplies(r.st, tx)
           /\ next = [out |-> Append(r.out, tx), remaining |-> r.remaining,
                      st |-> ApplyTx(r.st, tx, producer)]
  <2>1. ApplyTransactions(st, Append(r.out, tx), producer)
          = ApplyNext(st, [ok |-> TRUE, st |-> r.st], tx, producer)
    BY <1>1, <1>7, ApplyOneMore
  <2>2. ApplyTransactions(st, Append(r.out, tx), producer)
          = [ok |-> TRUE, st |-> ApplyTx(r.st, tx, producer)]
    BY <1>8, <2>1 DEF ApplyNext
  <2> HIDE DEF next, tx
  <2>3. next.out = Append(r.out, tx) /\ next.remaining = r.remaining
          /\ next.st = ApplyTx(r.st, tx, producer)
    BY <1>8
  <2>4. \A i \in 1..n + 1 : txs[i] \in ToSet(next.out) \cup ToSet(next.remaining)
    BY <1>5, <1>6, <1>7, <2>3 DEF tx
  <2>5. NoneTwice(txs) => ToSet(next.out) \cap ToSet(next.remaining) = {}
    BY <1>4, <1>5, <1>7, <2>3
  <2>6. GoodPick(next, txs, st, producer, n + 1)
    BY <1>2, <1>3, <2>2, <2>3, <2>4, <2>5 DEF GoodPick
  <2> QED
    BY <2>6 DEF next, tx
<1>9. CASE next = [out |-> r.out, remaining |-> Append(r.remaining, tx), st |-> r.st]
  <2> HIDE DEF next, tx
  <2>3. next.out = r.out /\ next.remaining = Append(r.remaining, tx) /\ next.st = r.st
    BY <1>9
  <2>4. \A i \in 1..n + 1 : txs[i] \in ToSet(next.out) \cup ToSet(next.remaining)
    BY <1>5, <1>6, <1>7, <2>3 DEF tx
  <2>5. NoneTwice(txs) => ToSet(next.out) \cap ToSet(next.remaining) = {}
    BY <1>4, <1>5, <1>7, <2>3
  <2>6. GoodPick(next, txs, st, producer, n + 1)
    BY <1>2, <1>3, <1>7, <2>3, <2>4, <2>5 DEF GoodPick
  <2> QED
    BY <2>6 DEF next, tx
<1> QED
  BY <1>1, <1>8, <1>9, PopNextCases

\* What PopForBlock promises of its result.
LEMMA PickIsGood ==
  ASSUME NEW st \in Ledgers, NEW txs \in Seq(Transaction), NEW max \in Nat,
         NEW producer \in Nat
  PROVE  GoodPick(PopForBlock(txs, st, max, producer), txs, st, producer, Len(txs))
<1> DEFINE n == Len(txs)
<1>1. n \in Nat
  OBVIOUS
<1> HIDE DEF n
<1>r. PICK f : /\ IsPopRun(f, txs, st, max, producer)
               /\ PopForBlock(txs, st, max, producer) = f[Len(txs)]
  BY PopRuns
<1>2. /\ f \in [0..n -> Picks]
      /\ f[0] = [out |-> <<>>, remaining |-> <<>>, st |-> st]
      /\ \A i \in 1..n : f[i] = PopNext(f[i - 1], txs[i], max, producer)
      /\ PopForBlock(txs, st, max, producer) = f[n]
  BY <1>r DEF IsPopRun, n
<1> DEFINE good == {i \in 0..n : GoodPick(f[i], txs, st, producer, i)}
<1>3. 0 \in good
  <2>1. f[0] \in Picks /\ f[0].out = <<>> /\ f[0].remaining = <<>> /\ f[0].st = st
    BY <1>1, <1>2
  <2>2. ApplyTransactions(st, <<>>, producer) = [ok |-> TRUE, st |-> st]
    BY ApplyNothing
  <2>3. IsPart(<<>>, txs, 0)
    <3> DEFINE at == [i \in 1..0 |-> i]
    <3>1. at \in [1..Len(<<>>) -> 1..0] /\ \A i \in 1..Len(<<>>) : FALSE
      OBVIOUS
    <3> HIDE DEF at
    <3> QED
      BY <3>1 DEF IsPart
  <2>4. GoodPick(f[0], txs, st, producer, 0)
    BY <2>1, <2>2, <2>3, EmptyToSet DEF GoodPick
  <2> QED
    BY <1>1, <2>4
<1>4. ASSUME NEW i \in 1..n, i - 1 \in good PROVE i \in good
  <2>1. i - 1 \in Nat /\ (i - 1) + 1 = i /\ i \in 1..Len(txs) /\ i \in 0..n
    BY <1>1 DEF n
  <2>2. GoodPick(f[i - 1], txs, st, producer, i - 1)
    BY <1>4
  <2>3. GoodPick(PopNext(f[i - 1], txs[(i - 1) + 1], max, producer), txs, st, producer,
                 (i - 1) + 1)
    BY <2>1, <2>2, GoodPickNext
  <2> QED
    BY <1>2, <2>1, <2>3
<1> HIDE DEF good
<1>5. \A i \in 0..n : i \in good
  BY <1>1, <1>3, <1>4, UpTo
<1>6. GoodPick(f[n], txs, st, producer, n)
  BY <1>1, <1>5 DEF good
<1> QED
  BY <1>2, <1>6 DEF n

-----------------------------------------------------------------------------
(* The pool.                                                                 *)

InOrder(s) == \A i, j \in 1..Len(s) : i < j => ~ Before(s[j], s[i])

LEMMA PartKeeps ==
  ASSUME NEW T, NEW s \in Seq(T), NEW txs \in Seq(T), IsPart(s, txs, Len(txs))
  PROVE  (NoneTwice(txs) => NoneTwice(s)) /\ (InOrder(txs) => InOrder(s))
<1>1. PICK at \in [1..Len(s) -> 1..Len(txs)] :
        /\ \A i, j \in 1..Len(s) : i < j => at[i] < at[j]
        /\ \A i \in 1..Len(s) : s[i] = txs[at[i]]
  BY DEF IsPart
<1>2. Len(s) \in Nat /\ Len(txs) \in Nat
  OBVIOUS
<1>3. ASSUME NoneTwice(txs), NEW i \in 1..Len(s), NEW j \in 1..Len(s), s[i] = s[j]
      PROVE  i = j
  <2>1. at[i] = at[j]
    BY <1>1, <1>3 DEF NoneTwice
  <2>2. i < j \/ i = j \/ j < i
    BY <1>2
  <2>3. at[i] \in Int /\ ~ (at[i] < at[i])
    BY <1>2
  <2> QED
    BY <1>1, <2>1, <2>2, <2>3
<1>4. ASSUME InOrder(txs), NEW i \in 1..Len(s), NEW j \in 1..Len(s), i < j
      PROVE  ~ Before(s[j], s[i])
  <2>1. /\ at[i] \in 1..Len(txs) /\ at[j] \in 1..Len(txs) /\ at[i] < at[j]
        /\ s[i] = txs[at[i]] /\ s[j] = txs[at[j]]
    BY <1>1, <1>4
  <2>2. ~ Before(txs[at[j]], txs[at[i]])
    BY <1>4, <2>1 DEF InOrder
  <2> QED
    BY <2>1, <2>2
<1>5. NoneTwice(txs) => NoneTwice(s)
  BY <1>3 DEF NoneTwice
<1>6. InOrder(txs) => InOrder(s)
  BY <1>4 DEF InOrder
<1> QED
  BY <1>5, <1>6

\* However sort.Slice breaks ties, it loses nothing and doubles nothing.
LEMMA SortedKeeps ==
  ASSUME NEW txs \in Seq(Transaction), NEW s \in Sorted(txs)
  PROVE  /\ s \in Seq(Transaction)
         /\ Len(s) = Len(txs)
         /\ ToSet(s) = ToSet(txs)
         /\ NoneTwice(txs) => NoneTwice(s)
         /\ InOrder(s)
<1> DEFINE n == Len(txs)
<1>1. n \in Nat /\ DOMAIN txs = 1..n /\ \A i \in 1..n : txs[i] \in Transaction
  OBVIOUS
<1>2. PICK p \in Bijection(1..n, 1..n) : s = [i \in 1..n |-> txs[p[i]]]
  BY <1>1 DEF Sorted
<1>3. /\ p \in [1..n -> 1..n]
      /\ \A i \in 1..n : \E j \in 1..n : p[j] = i
      /\ \A i, j \in 1..n : p[i] = p[j] => i = j
  BY DEF Bijection, Injection, Surjection, IsInjective
<1>4. \A i, j \in DOMAIN s : i < j => ~ Before(s[j], s[i])
  BY DEF Sorted
<1> HIDE DEF n
<1>5. DOMAIN s = 1..n /\ \A i \in 1..n : s[i] = txs[p[i]]
  BY <1>2
<1>6. s \in Seq(Transaction) /\ Len(s) = n
  BY <1>1, <1>2, <1>3
<1>7. ToSet(s) = ToSet(txs)
  <2>1. ASSUME NEW x \in ToSet(s) PROVE x \in ToSet(txs)
    BY <1>1, <1>3, <1>5, <2>1 DEF ToSet
  <2>2. ASSUME NEW x \in ToSet(txs) PROVE x \in ToSet(s)
    <3>1. PICK i \in 1..n : x = txs[i]
      BY <1>1, <2>2 DEF ToSet
    <3>2. PICK j \in 1..n : p[j] = i
      BY <1>3
    <3> QED
      BY <1>5, <3>1, <3>2 DEF ToSet
  <2> QED
    BY <2>1, <2>2
<1>8. ASSUME NoneTwice(txs), NEW i \in 1..n, NEW j \in 1..n, s[i] = s[j]
      PROVE  i = j
  <2>1. p[i] \in 1..n /\ p[j] \in 1..n /\ txs[p[i]] = txs[p[j]]
    BY <1>3, <1>5, <1>8
  <2>2. p[i] = p[j]
    BY <1>8, <2>1 DEF NoneTwice, n
  <2> QED
    BY <1>3, <2>2
<1>9. InOrder(s)
  BY <1>4, <1>5, <1>6 DEF InOrder
<1>10. NoneTwice(txs) => NoneTwice(s)
  BY <1>6, <1>8 DEF NoneTwice
<1> QED
  BY <1>6, <1>7, <1>9, <1>10 DEF n

\* The inductive invariant of the pool.
PoolInv ==
  /\ MempoolTypeOK
  /\ ToSet(list) = byHash
  /\ NoneTwice(list)
  /\ InOrder(list)
  /\ \A tx \in byHash : VerifyTransactionSignature(tx)

LEMMA PoolInvInit == MempoolInit => PoolInv
<1> SUFFICES ASSUME MempoolInit PROVE PoolInv
  OBVIOUS
<1>1. list = <<>> /\ byHash = {} /\ list \in Seq(Transaction) /\ Len(list) = 0
  BY DEF MempoolInit
<1> QED
  BY <1>1, EmptyToSet DEF PoolInv, MempoolTypeOK, NoneTwice, InOrder

LEMMA AddKeepsPool ==
  ASSUME PoolInv, NEW tx \in Transaction, Add(tx)
  PROVE  PoolInv'
<1> DEFINE all == Append(list, tx)
<1>1. /\ list \in Seq(Transaction) /\ ToSet(list) = byHash /\ NoneTwice(list)
      /\ byHash \subseteq Transaction
      /\ VerifyTransactionSignature(tx) /\ tx \notin byHash
      /\ byHash' = byHash \cup {tx} /\ list' \in Sorted(all)
      /\ \A t \in byHash : VerifyTransactionSignature(t)
  BY DEF PoolInv, MempoolTypeOK, Add
<1>2. /\ all \in Seq(Transaction)
      /\ ToSet(all) = byHash \cup {tx}
  BY <1>1, AppendToSet
<1>3. NoneTwice(all)
  <2>1. /\ Len(list) \in Nat /\ Len(all) = Len(list) + 1 /\ all[Len(list) + 1] = tx
        /\ \A i \in 1..Len(list) : all[i] = list[i] /\ list[i] \in byHash
    BY <1>1 DEF ToSet
  <2> HIDE DEF all
  <2>2. \A i \in 1..Len(all) : i \in 1..Len(list) \/ i = Len(list) + 1
    BY <2>1
  <2> QED
    BY <1>1, <2>1, <2>2 DEF NoneTwice
<1> HIDE DEF all
<1>4. /\ list' \in Seq(Transaction) /\ ToSet(list') = byHash'
      /\ NoneTwice(list') /\ InOrder(list')
  BY <1>1, <1>2, <1>3, SortedKeeps
<1>5. byHash' \subseteq Transaction /\ \A t \in byHash' : VerifyTransactionSignature(t)
  BY <1>1
<1> QED
  BY <1>4, <1>5 DEF PoolInv, MempoolTypeOK

LEMMA PoppedKeepsPool ==
  ASSUME PoolInv, NEW st, NEW producer, NEW pick,
         GoodPick(pick, list, st, producer, Len(list)), Popped(pick)
  PROVE  /\ PoolInv'
         /\ byHash \ byHash' = ToSet(pick.out)
         /\ NoneTwice(pick.out)
<1>1. /\ list \in Seq(Transaction) /\ ToSet(list) = byHash /\ NoneTwice(list)
      /\ InOrder(list) /\ byHash \subseteq Transaction
      /\ \A t \in byHash : VerifyTransactionSignature(t)
  BY DEF PoolInv, MempoolTypeOK
<1>2. /\ pick.out \in Seq(Transaction) /\ pick.remaining \in Seq(Transaction)
      /\ IsPart(pick.out, list, Len(list)) /\ IsPart(pick.remaining, list, Len(list))
      /\ \A i \in 1..Len(list) : list[i] \in ToSet(pick.out) \cup ToSet(pick.remaining)
      /\ ToSet(pick.out) \cap ToSet(pick.remaining) = {}
  BY <1>1 DEF GoodPick, Picks
<1>3. list' = pick.remaining /\ byHash' = byHash \ ToSet(pick.out)
  BY DEF Popped
<1>4. NoneTwice(pick.out) /\ NoneTwice(list') /\ InOrder(list')
  BY <1>1, <1>2, <1>3, PartKeeps
<1>5. ToSet(pick.out) \cup ToSet(pick.remaining) = byHash
  <2>1. Len(list) \in Nat /\ byHash = {list[i] : i \in 1..Len(list)}
    BY <1>1 DEF ToSet
  <2>2. \A x \in ToSet(pick.out) \cup ToSet(pick.remaining) :
          \E i \in 1..Len(list) : x = list[i]
    BY <1>2, <2>1, PartToSet
  <2> QED
    BY <1>2, <2>1, <2>2
<1>6. ToSet(list') = byHash' /\ byHash \ byHash' = ToSet(pick.out)
  BY <1>2, <1>3, <1>5
<1> QED
  BY <1>1, <1>2, <1>3, <1>4, <1>6 DEF PoolInv, MempoolTypeOK

\* The fields of a transaction that the pool orders by.
LEMMA TransactionFields ==
  ASSUME NEW tx \in Transaction
  PROVE  tx.From \in Nat /\ tx.Fee \in Int /\ tx.Nonce \in Nat
BY DEF Transaction

\* A list without repetition is as long as its set is large.
LEMMA NoneTwiceCount ==
  ASSUME NEW T, NEW s \in Seq(T), NoneTwice(s)
  PROVE  IsFiniteSet(ToSet(s)) /\ Cardinality(ToSet(s)) = Len(s)
<1>1. Len(s) \in Nat /\ DOMAIN s = 1..Len(s) /\ s \in [1..Len(s) -> ToSet(s)]
  BY DEF ToSet
<1>2. s \in Bijection(1..Len(s), ToSet(s))
  <2>1. s \in Injection(1..Len(s), ToSet(s))
    BY <1>1 DEF Injection, IsInjective, NoneTwice
  <2>2. s \in Surjection(1..Len(s), ToSet(s))
    BY <1>1 DEF Surjection, ToSet
  <2> QED
    BY <2>1, <2>2 DEF Bijection
<1>3. ExistsBijection(1..Len(s), ToSet(s))
  BY <1>2 DEF ExistsBijection
<1>4. IsFiniteSet(ToSet(s))
  BY <1>1, <1>3, FS_NatBijection
<1> QED
  BY <1>1, <1>3, <1>4, FS_CountingElements

LEMMA PoolInvImplies ==
  ASSUME PoolInv
  PROVE  MempoolTypeOK /\ PoolInSync /\ PriorityOrder
<1>1. /\ list \in Seq(Transaction) /\ ToSet(list) = byHash /\ NoneTwice(list)
      /\ InOrder(list)
  BY DEF PoolInv, MempoolTypeOK
<1>2. PoolInSync
  BY <1>1, NoneTwiceCount DEF PoolInSync
<1>3. ASSUME NEW i \in 1..Len(list), NEW j \in 1..Len(list), i < j
      PROVE  /\ list[i].Fee >= list[j].Fee
             /\ list[i].From = list[j].From /\ list[i].Fee = list[j].Fee
                  => list[i].Nonce <= list[j].Nonce
  <2>1. list[i] \in Transaction /\ list[j] \in Transaction
    BY <1>1
  <2>2. /\ list[i].Fee \in Int /\ list[j].Fee \in Int
        /\ list[i].Nonce \in Int /\ list[j].Nonce \in Int
    BY <2>1, TransactionFields
  <2>3. ~ Before(list[j], list[i])
    BY <1>1, <1>3 DEF InOrder
  <2>4. ~ (list[j].Fee > list[i].Fee)
    BY <2>3 DEF Before
  <2>5. list[i].From = list[j].From /\ list[i].Fee = list[j].Fee
          => ~ (list[j].Nonce < list[i].Nonce)
    BY <2>3 DEF Before
  <2> QED
    BY <2>2, <2>4, <2>5
<1> QED
  BY <1>2, <1>3 DEF PoolInv, PriorityOrder

-----------------------------------------------------------------------------
(* What a list of transactions that applies does to nonces and balances.     *)

\* If the whole list applies, each of its transactions did.
LEMMA RunApplies ==
  ASSUME NEW st \in Ledgers, NEW txs \in Seq(Transaction), NEW producer \in Nat,
         NEW f, IsApplyRun(f, st, txs, producer), f[Len(txs)].ok
  PROVE  \A i \in 1..Len(txs) :
           /\ f[i - 1].ok /\ f[i - 1].st \in Ledgers
           /\ TxApplies(f[i - 1].st, txs[i])
           /\ f[i] = [ok |-> TRUE, st |-> ApplyTx(f[i - 1].st, txs[i], producer)]
<1> DEFINE n == Len(txs)
           good == {i \in 0..n : f[n - i].ok}
<1>1. n \in Nat
  OBVIOUS
<1>2. /\ f \in [0..n -> Results]
      /\ \A i \in 1..n : f[i] = ApplyNext(st, f[i - 1], txs[i], producer)
      /\ f[n].ok
  BY DEF IsApplyRun
<1> HIDE DEF n
<1>3. 0 \in good
  BY <1>1, <1>2
<1>4. ASSUME NEW i \in 1..n, f[i].ok
      PROVE  /\ f[i - 1].ok /\ TxApplies(f[i - 1].st, txs[i])
             /\ f[i] = [ok |-> TRUE, st |-> ApplyTx(f[i - 1].st, txs[i], producer)]
  <2>1. f[i] = ApplyNext(st, f[i - 1], txs[i], producer)
    BY <1>2
  <2> QED
    BY <1>4, <2>1 DEF ApplyNext
<1>5. ASSUME NEW i \in 1..n, i - 1 \in good PROVE i \in good
  <2>1. n - (i - 1) \in 1..n /\ (n - (i - 1)) - 1 = n - i /\ i \in 0..n
    BY <1>1
  <2>2. f[n - (i - 1)].ok
    BY <1>5
  <2>3. f[(n - (i - 1)) - 1].ok
    BY <1>4, <2>1, <2>2
  <2> QED
    BY <2>1, <2>3
<1> HIDE DEF good
<1>6. \A i \in 0..n : i \in good
  BY <1>1, <1>3, <1>5, UpTo
<1>7. ASSUME NEW i \in 1..n PROVE f[i].ok
  <2>1. n - i \in 0..n /\ n - (n - i) = i
    BY <1>1
  <2> QED
    BY <1>6, <2>1 DEF good
<1>8. ASSUME NEW i \in 1..n PROVE f[i - 1].st \in Ledgers
  <2>1. i - 1 \in 0..n
    BY <1>1
  <2> QED
    BY <1>2, <2>1 DEF Results
<1> QED
  BY <1>4, <1>7, <1>8 DEF n

\* The nonces of the transactions among txs[1..n] that a has signed.
NoncesOf(txs, n, a) == {txs[i].Nonce : i \in {k \in 1..n : txs[k].From = a}}

\* A list that applies carries, of each sender, the nonces that follow on the
\* sender's account, in their order and without a gap.
LEMMA NoncesRun ==
  ASSUME NEW st \in Ledgers, NEW txs \in Seq(Transaction), NEW producer \in Nat,
         ApplyTransactions(st, txs, producer).ok
  PROVE  /\ \A a : /\ AccountOf(st, a).Nonce
                        <= AccountOf(ApplyTransactions(st, txs, producer).st, a).Nonce
                   /\ NoncesOf(txs, Len(txs), a) =
                        AccountOf(st, a).Nonce + 1 ..
                          AccountOf(ApplyTransactions(st, txs, producer).st, a).Nonce
         /\ \A i, j \in 1..Len(txs) :
              i < j /\ txs[i].From = txs[j].From => txs[i].Nonce < txs[j].Nonce
<1> DEFINE n == Len(txs)
<1>1. n \in Nat /\ \A i \in 1..n : txs[i] \in Transaction
  OBVIOUS
<1>2. PICK f : /\ IsApplyRun(f, st, txs, producer)
               /\ ApplyTransactions(st, txs, producer) = f[n]
  BY ApplicationRuns
<1> HIDE DEF n
<1>3. /\ f[0] = [ok |-> TRUE, st |-> st]
      /\ \A i \in 1..n : /\ f[i - 1].st \in Ledgers
                         /\ TxApplies(f[i - 1].st, txs[i])
                         /\ f[i] = [ok |-> TRUE, st |-> ApplyTx(f[i - 1].st, txs[i], producer)]
  <2>1. f[Len(txs)].ok
    BY <1>2 DEF n
  <2>2. f[0] = [ok |-> TRUE, st |-> st]
    BY <1>2 DEF IsApplyRun
  <2>3. \A i \in 1..Len(txs) :
          /\ f[i - 1].ok /\ f[i - 1].st \in Ledgers
          /\ TxApplies(f[i - 1].st, txs[i])
          /\ f[i] = [ok |-> TRUE, st |-> ApplyTx(f[i - 1].st, txs[i], producer)]
    <3>1. IsApplyRun(f, st, txs, producer)
      BY <1>2
    <3> QED
      BY <2>1, <3>1, RunApplies
  <2> QED
    BY <2>2, <2>3 DEF n
<1> DEFINE Follows(i, a) ==
             /\ AccountOf(f[i].st, a).Nonce \in Nat
             /\ AccountOf(st, a).Nonce <= AccountOf(f[i].st, a).Nonce
             /\ NoncesOf(txs, i, a) =
                  AccountOf(st, a).Nonce + 1 .. AccountOf(f[i].st, a).Nonce
           good == {i \in 0..n : \A a : Follows(i, a)}
<1>4. ASSUME NEW a PROVE AccountOf(st, a).Nonce \in Nat
  BY AccountTyped
<1>5. 0 \in good
  <2>1. ASSUME NEW a PROVE Follows(0, a)
    <3>1. NoncesOf(txs, 0, a) = {}
      BY DEF NoncesOf
    <3>2. AccountOf(f[0].st, a).Nonce = AccountOf(st, a).Nonce
      BY <1>3
    <3> DEFINE first == AccountOf(st, a).Nonce
               now == AccountOf(f[0].st, a).Nonce
    <3>3. first \in Nat /\ now = first
      BY <1>4, <3>2
    <3> HIDE DEF first, now
    <3>4. now \in Nat /\ first <= now /\ first + 1 .. now = {}
      BY <3>3
    <3>5. NoncesOf(txs, 0, a) = first + 1 .. now
      BY <3>1, <3>4
    <3> QED
      BY <3>4, <3>5 DEF first, now
  <2> HIDE DEF Follows
  <2> QED
    BY <1>1, <2>1
<1>6. ASSUME NEW i \in 1..n
      PROVE  /\ txs[i].Nonce = AccountOf(f[i - 1].st, txs[i].From).Nonce + 1
             /\ \A a : AccountOf(f[i].st, a).Nonce =
                         IF a = txs[i].From THEN AccountOf(f[i - 1].st, a).Nonce + 1
                         ELSE AccountOf(f[i - 1].st, a).Nonce
  <2> DEFINE old == f[i - 1].st
             new == ApplyTx(old, txs[i], producer)
  <2>1. /\ old \in Ledgers /\ TxApplies(old, txs[i]) /\ txs[i] \in Transaction
        /\ f[i] = [ok |-> TRUE, st |-> new]
    BY <1>1, <1>3
  <2> HIDE DEF old, new
  <2>2. f[i].st = new
    BY <2>1
  <2>3. \A a : AccountOf(new, a).Nonce = IF a = txs[i].From THEN AccountOf(old, a).Nonce + 1
                                         ELSE AccountOf(old, a).Nonce
    BY <2>1, TxEffect DEF new
  <2>4. txs[i].Nonce = AccountOf(old, txs[i].From).Nonce + 1
    BY <2>1 DEF TxApplies
  <2> QED
    BY <2>2, <2>3, <2>4 DEF old
<1>7. ASSUME NEW i \in 1..n, i - 1 \in good PROVE i \in good
  <2>1. i \in 0..n /\ i - 1 \in Nat /\ \A a : Follows(i - 1, a)
    BY <1>1, <1>7
  <2>2. ASSUME NEW a PROVE Follows(i, a)
    <3> DEFINE first == AccountOf(st, a).Nonce
               old == AccountOf(f[i - 1].st, a).Nonce
               new == AccountOf(f[i].st, a).Nonce
               before == NoncesOf(txs, i - 1, a)
    <3>1. first \in Nat /\ old \in Nat /\ first <= old /\ before = first + 1 .. old
      BY <1>4, <2>1
    <3>2. \A j \in 1..i : j \in 1..i - 1 \/ j = i
      BY <1>1
    <3>3. \A j \in 1..i - 1 : j \in 1..i
      BY <1>1
    <3>4. i \in 1..i
      BY <1>1
    <3>5. NoncesOf(txs, i, a) = IF txs[i].From = a THEN before \cup {txs[i].Nonce} ELSE before
      BY <3>2, <3>3, <3>4 DEF NoncesOf
    <3>6. new = IF a = txs[i].From THEN old + 1 ELSE old
      BY <1>6
    <3>7. a = txs[i].From => txs[i].Nonce = old + 1
      BY <1>6
    <3> HIDE DEF first, old, new, before
    <3>8. CASE txs[i].From = a
      <4>1. new = old + 1 /\ NoncesOf(txs, i, a) = (first + 1 .. old) \cup {old + 1}
        BY <3>1, <3>5, <3>6, <3>7, <3>8
      <4>2. (first + 1 .. old) \cup {old + 1} = first + 1 .. old + 1
        BY <3>1
      <4>3. new \in Nat /\ first <= new /\ NoncesOf(txs, i, a) = first + 1 .. new
        BY <3>1, <4>1, <4>2
      <4> QED
        BY <4>3 DEF first, new
    <3>9. CASE txs[i].From # a
      <4>1. new = old /\ NoncesOf(txs, i, a) = before
        BY <3>5, <3>6, <3>9
      <4> QED
        BY <3>1, <4>1 DEF first, new
    <3> QED
      BY <3>8, <3>9
  <2> HIDE DEF Follows
  <2> QED
    BY <2>1, <2>2
<1> HIDE DEF good
<1>8. \A i \in 0..n : i \in good
  BY <1>1, <1>5, <1>7, UpTo
<1>9. \A a : Follows(n, a)
  BY <1>1, <1>8 DEF good
<1>10. ASSUME NEW i \in 1..n, NEW j \in 1..n, i < j, txs[i].From = txs[j].From
       PROVE  txs[i].Nonce < txs[j].Nonce
  <2> DEFINE a == txs[j].From
             old == AccountOf(f[j - 1].st, a).Nonce
             first == AccountOf(st, a).Nonce
  <2>1. j - 1 \in 0..n /\ i \in 1..j - 1
    BY <1>1, <1>10
  <2>2. old \in Nat /\ NoncesOf(txs, j - 1, a) = first + 1 .. old
    BY <1>8, <2>1 DEF good
  <2>3. txs[i].Nonce \in NoncesOf(txs, j - 1, a)
    BY <1>10, <2>1 DEF NoncesOf
  <2>4. txs[j].Nonce = old + 1
    BY <1>6
  <2>5. first \in Nat
    BY <1>4
  <2> HIDE DEF old, first, a
  <2>6. txs[i].Nonce \in first + 1 .. old
    BY <2>2, <2>3
  <2>7. \A k \in first + 1 .. old : k < old + 1
    BY <2>2, <2>5
  <2> QED
    BY <2>4, <2>6, <2>7
<1> QED
  BY <1>2, <1>9, <1>10 DEF n

-----------------------------------------------------------------------------
(* Money.                                                                    *)

Holdings(st) == [a \in DOMAIN st |-> st[a].Balance]

\* The sum of all balances.
Total(st) == SumOf(Holdings(st), DOMAIN st)

LEMMA TotalIs ==
  ASSUME NEW st
  PROVE  Total(st) = MapThenSumSet(LAMBDA a : st[a].Balance, DOMAIN st)
<1> DEFINE D == DOMAIN st
           Next1(sum) == [s \in SUBSET D |->
             IF s = {} THEN 0 ELSE st[Pick(s)].Balance + sum[s \ {Pick(s)}]]
           Next2(sum) == [s \in SUBSET D |->
             IF s = {} THEN 0 ELSE Holdings(st)[Pick(s)] + sum[s \ {Pick(s)}]]
<1>1. MapThenSumSet(LAMBDA a : st[a].Balance, D) = (CHOOSE sum : sum = Next1(sum))[D]
  BY DEF MapThenSumSet, MapThenFoldSet, Pick
<1>2. Total(st) = (CHOOSE sum : sum = Next2(sum))[D]
  BY DEF Total, SumOf, IsSum
<1>3. ASSUME NEW sum PROVE Next1(sum) = Next2(sum)
  <2>1. \A s \in SUBSET D : s # {} => Pick(s) \in D
    BY PickInSet
  <2>2. \A a \in D : Holdings(st)[a] = st[a].Balance
    BY DEF Holdings
  <2> HIDE DEF D
  <2> QED
    BY <2>1, <2>2
<1> HIDE DEF Next1, Next2
<1>4. (CHOOSE sum : sum = Next1(sum)) = (CHOOSE sum : sum = Next2(sum))
  BY <1>3
<1> QED
  BY <1>1, <1>2, <1>4

LEMMA TotalTyped ==
  ASSUME NEW st \in Ledgers
  PROVE  Total(st) \in Nat
<1>1. IsFiniteSet(DOMAIN st) /\ \A a \in DOMAIN st : Holdings(st)[a] \in Nat
  BY LedgerIs DEF Holdings, Account
<1>2. CASE DOMAIN st = {}
  <2>1. Total(st) = SumOf(Holdings(st), {})
    BY <1>2 DEF Total
  <2>2. Total(st) = 0
    BY <2>1, SumEmpty
  <2> QED
    BY <2>2
<1>3. CASE DOMAIN st # {}
  <2>1. PICK a : a \in DOMAIN st
    BY <1>3
  <2>2. SumOf(Holdings(st), DOMAIN st) \in Nat
    BY <1>1, <2>1, SumTakeOut
  <2> QED
    BY <2>2 DEF Total
<1> QED
  BY <1>2, <1>3

\* Changing one account changes the sum by as much.
LEMMA ChangedTotal ==
  ASSUME NEW st \in Ledgers, NEW addr \in Nat, NEW account \in Account, NEW new,
         Changed(st, new, addr, account)
  PROVE  /\ Total(st) \in Nat /\ Total(new) \in Nat
         /\ Total(new) + AccountOf(st, addr).Balance = Total(st) + account.Balance
<1> DEFINE D == DOMAIN st
           E == DOMAIN new
           rest == E \ {addr}
<1>1. /\ IsFiniteSet(D) /\ st \in [D -> Account]
      /\ IsFiniteSet(E) /\ new \in [E -> Account]
      /\ E = D \cup {addr}
  BY LedgerIs DEF Changed
<1>2. ASSUME NEW a \in rest
      PROVE  a \in D /\ Holdings(new)[a] = Holdings(st)[a]
  <2>1. a \in D /\ a \in E /\ a # addr
    BY <1>1
  <2>2. AccountOf(new, a) = AccountOf(st, a)
    BY <2>1 DEF Changed
  <2> QED
    BY <2>1, <2>2 DEF AccountOf, Holdings
<1>3. /\ \A a \in D : Holdings(st)[a] \in Nat
      /\ \A a \in E : Holdings(new)[a] \in Nat
  BY <1>1 DEF Holdings, Account
<1>4. /\ addr \in E /\ IsFiniteSet(rest)
      /\ Holdings(new)[addr] = account.Balance
  <2>1. addr \in E /\ AccountOf(new, addr) = account
    BY <1>1 DEF Changed
  <2>2. IsFiniteSet(rest)
    BY <1>1, FS_Subset
  <2> QED
    BY <2>1, <2>2 DEF AccountOf, Holdings
<1>5. /\ Total(new) \in Nat /\ SumOf(Holdings(new), rest) \in Nat
      /\ Total(new) = account.Balance + SumOf(Holdings(new), rest)
  <2> DEFINE f == Holdings(new)
  <2>1. /\ SumOf(f, E) \in Nat /\ SumOf(f, E \ {addr}) \in Nat
        /\ SumOf(f, E) = f[addr] + SumOf(f, E \ {addr})
    <3> HIDE DEF f, E
    <3> QED
      BY <1>1, <1>3, <1>4, SumTakeOut DEF f
  <2> QED
    BY <1>4, <2>1 DEF Total
<1>6. SumOf(Holdings(new), rest) = SumOf(Holdings(st), rest)
  <2> HIDE DEF rest
  <2> QED
    BY <1>2, <1>4, SumAlike
<1>7. /\ Total(st) \in Nat
      /\ Total(st) = AccountOf(st, addr).Balance + SumOf(Holdings(st), rest)
  <2>1. CASE addr \in D
    <3> DEFINE f == Holdings(st)
    <3>1. /\ SumOf(f, D) \in Nat
          /\ SumOf(f, D) = f[addr] + SumOf(f, D \ {addr})
      <4> HIDE DEF f, D
      <4> QED
        BY <1>1, <1>3, <2>1, SumTakeOut DEF f
    <3>2. D \ {addr} = rest /\ f[addr] = AccountOf(st, addr).Balance
      BY <1>1, <2>1 DEF Holdings, AccountOf
    <3> QED
      BY <3>1, <3>2 DEF Total
  <2>2. CASE addr \notin D
    <3>1. D = rest /\ AccountOf(st, addr).Balance = 0
      BY <1>1, <2>2 DEF AccountOf
    <3> HIDE DEF rest
    <3> QED
      BY <1>5, <1>6, <3>1 DEF Total
  <2> QED
    BY <2>1, <2>2
<1>8. account.Balance \in Nat /\ AccountOf(st, addr).Balance \in Nat
  BY AccountTyped DEF Account
<1> HIDE DEF rest
<1> QED
  BY <1>5, <1>6, <1>7, <1>8

\* A transaction moves money; only a fee that nobody is paid is lost.
LEMMA TxTotal ==
  ASSUME NEW st \in Ledgers, NEW tx \in Transaction, TxApplies(st, tx),
         NEW producer \in Nat
  PROVE  /\ tx.Fee \in Nat
         /\ Total(st) \in Nat /\ Total(ApplyTx(st, tx, producer)) \in Nat
         /\ producer # NoAddr => Total(ApplyTx(st, tx, producer)) = Total(st)
         /\ producer = NoAddr => Total(ApplyTx(st, tx, producer)) + tx.Fee = Total(st)
<1> DEFINE account == Debited(st, tx)
           debited == AfterDebit(st, tx)
           paid == AfterPayment(st, tx)
           end == ApplyTx(st, tx, producer)
<1>1. /\ tx.From \in Nat /\ tx.To \in Nat /\ tx.Amount \in Nat /\ tx.Fee \in Nat
  BY DEF Transaction, TxApplies
<1>2. /\ account.Balance + (tx.Amount + tx.Fee) = AccountOf(st, tx.From).Balance
      /\ account \in Account
      /\ Changed(st, debited, tx.From, account)
      /\ Changed(debited, paid, tx.To, More(AccountOf(debited, tx.To), tx.Amount))
      /\ IF producer # NoAddr /\ tx.Fee > 0
         THEN Changed(paid, end, producer, More(AccountOf(paid, producer), tx.Fee))
         ELSE end = paid
  BY TxSteps
<1> HIDE DEF account, debited, paid, end
<1>3. debited \in Ledgers /\ paid \in Ledgers
  BY <1>2 DEF Changed
<1>4. ASSUME NEW s \in Ledgers, NEW addr \in Nat, NEW amount \in Nat, NEW new,
             Changed(s, new, addr, More(AccountOf(s, addr), amount))
      PROVE  /\ Total(s) \in Nat /\ Total(new) \in Nat
             /\ Total(new) = Total(s) + amount
  <2> DEFINE more == More(AccountOf(s, addr), amount)
  <2>1. more \in Account
    BY CreditAccount
  <2>2. more.Balance = AccountOf(s, addr).Balance + amount
    BY DEF More
  <2> HIDE DEF more
  <2>3. /\ Total(s) \in Nat /\ Total(new) \in Nat
        /\ Total(new) + AccountOf(s, addr).Balance = Total(s) + more.Balance
    BY <1>4, <2>1, ChangedTotal DEF more
  <2>4. AccountOf(s, addr).Balance \in Nat
    BY AccountTyped
  <2> QED
    BY <2>2, <2>3, <2>4
<1>5. /\ Total(st) \in Nat /\ Total(debited) \in Nat
      /\ Total(debited) + (tx.Amount + tx.Fee) = Total(st)
  <2>1. /\ Total(st) \in Nat /\ Total(debited) \in Nat
        /\ Total(debited) + AccountOf(st, tx.From).Balance = Total(st) + account.Balance
    BY <1>1, <1>2, ChangedTotal
  <2>2. account.Balance \in Nat
    BY <1>2 DEF Account
  <2> QED
    BY <1>1, <1>2, <2>1, <2>2
<1>6. Total(paid) \in Nat /\ Total(paid) = Total(debited) + tx.Amount
  BY <1>1, <1>2, <1>3, <1>4
<1>7. CASE producer # NoAddr /\ tx.Fee > 0
  <2>1. Total(end) \in Nat /\ Total(end) = Total(paid) + tx.Fee
    BY <1>1, <1>2, <1>3, <1>4, <1>7
  <2> QED
    BY <1>1, <1>5, <1>6, <1>7, <2>1 DEF end
<1>8. CASE ~ (producer # NoAddr /\ tx.Fee > 0)
  <2>1. end = paid
    BY <1>2, <1>8
  <2> QED
    BY <1>1, <1>5, <1>6, <1>8, <2>1 DEF end
<1> QED
  BY <1>7, <1>8

\* With an address to pay, any list that applies keeps the sum.
LEMMA PaidListTotal ==
  ASSUME NEW st \in Ledgers, NEW txs \in Seq(Transaction), NEW producer \in Nat,
         producer # NoAddr, ApplyTransactions(st, txs, producer).ok
  PROVE  Total(ApplyTransactions(st, txs, producer).st) = Total(st)
<1> DEFINE n == Len(txs)
<1>1. n \in Nat /\ \A i \in 1..n : txs[i] \in Transaction
  OBVIOUS
<1>2. PICK f : /\ IsApplyRun(f, st, txs, producer)
               /\ ApplyTransactions(st, txs, producer) = f[Len(txs)]
  BY ApplicationRuns
<1>3. f[0].st = st
  BY <1>2 DEF IsApplyRun
<1>4. ASSUME NEW i \in 1..Len(txs) PROVE Total(f[i].st) = Total(f[i - 1].st)
  <2> DEFINE old == f[i - 1].st
             new == ApplyTx(old, txs[i], producer)
  <2>1. /\ old \in Ledgers /\ TxApplies(old, txs[i])
        /\ f[i] = [ok |-> TRUE, st |-> new]
    <3>1. IsApplyRun(f, st, txs, producer) /\ f[Len(txs)].ok
      BY <1>2
    <3> HIDE DEF n
    <3> QED
      BY <3>1, RunApplies
  <2> HIDE DEF new, old
  <2>2. f[i].st = new
    BY <2>1
  <2>3. Total(new) = Total(old)
    BY <1>1, <2>1, TxTotal DEF new
  <2> QED
    BY <2>2, <2>3 DEF old
<1> DEFINE good == {i \in 0..n : Total(f[i].st) = Total(st)}
<1>5. 0 \in good
  BY <1>1, <1>3
<1>6. ASSUME NEW i \in 1..n, i - 1 \in good PROVE i \in good
  <2>1. i \in 0..n /\ Total(f[i - 1].st) = Total(st)
    BY <1>1, <1>6
  <2>2. Total(f[i].st) = Total(st)
    BY <1>4, <2>1
  <2> QED
    BY <2>1, <2>2
<1> HIDE DEF good
<1>7. n \in good
  <2>1. n \in Nat /\ n \in 0..n
    BY <1>1
  <2> HIDE DEF n
  <2> QED
    BY <1>5, <1>6, <2>1, UpTo
<1> QED
  BY <1>2, <1>7 DEF good
=============================================================================
