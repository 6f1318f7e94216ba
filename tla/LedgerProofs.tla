---------------------------- MODULE LedgerProofs ----------------------------
(***************************************************************************)
(* Theorems about Ledger, for any sets of customers, ids and amounts.      *)
(***************************************************************************)
EXTENDS Ledger, FiniteSetTheorems, TLAPS

-----------------------------------------------------------------------------
(* Money                                                                   *)

(* A stored amount is a whole number of mills, and rounding never turns a  *)
(* non-negative amount negative.                                           *)
LEMMA QuantiseInt ==
  ASSUME NEW x \in Int
  PROVE  Quantise(x) \in Int /\ (x >= 0 => Quantise(x) >= 0)
BY DEF Quantise

(* The values of Quantise are the whole cents.                             *)
LEMMA QuantiseIdempotent ==
  ASSUME NEW x \in Int
  PROVE  Quantise(Quantise(x)) = Quantise(x)
BY DEF Quantise

(* Whole cents are closed under addition and subtraction.                  *)
LEMMA CentsClosed ==
  ASSUME NEW x \in Int, NEW y \in Int, Quantise(x) = x, Quantise(y) = y
  PROVE  Quantise(x + y) = x + y /\ Quantise(x - y) = x - y
<1>1. \A n \in Int : Quantise(n) = n <=> \E k \in Int : n = 10 * k
  BY DEF Quantise
<1>2. PICK j \in Int : x = 10 * j
  BY <1>1
<1>3. PICK k \in Int : y = 10 * k
  BY <1>1
<1>4. x + y = 10 * (j + k) /\ j + k \in Int /\ x + y \in Int
  BY <1>2, <1>3
<1>5. x - y = 10 * (j - k) /\ j - k \in Int /\ x - y \in Int
  BY <1>2, <1>3
<1>6. Quantise(x + y) = x + y
  BY <1>1, <1>4
<1>7. Quantise(x - y) = x - y
  BY <1>1, <1>5
<1> QED
  BY <1>6, <1>7

(* Rounding a sum of whole cents and an amount gives at least what         *)
(* rounding the amount alone gives, and the same for whole cents: the      *)
(* balance column against the amount column.                               *)
LEMMA QuantiseShift ==
  ASSUME NEW z \in Int, NEW x \in Int, Quantise(z) = z, z + x >= 0
  PROVE  /\ Quantise(z + x) >= z + Quantise(x)
         /\ Quantise(x) = x => Quantise(z + x) = z + x
<1>1. PICK k \in Int : z = 10 * k
  BY DEF Quantise
<1>2. z + x \in Int /\ Quantise(z + x) = ((z + x + 5) \div 10) * 10
  BY DEF Quantise
<1>3. (z + x + 5) \div 10 = k + ((x + 5) \div 10)
  BY <1>1
<1>4. Quantise(z + x) = z + ((x + 5) \div 10) * 10
  BY <1>1, <1>2, <1>3
<1>5. ((x + 5) \div 10) * 10 >= Quantise(x)
  BY DEF Quantise
<1>6. Quantise(x) = x => ((x + 5) \div 10) * 10 = x
  BY DEF Quantise
<1> QED
  BY <1>4, <1>5, <1>6 DEF Quantise

-----------------------------------------------------------------------------
(* Sums                                                                    *)

(* Among any subsets of a finite set there is a smallest one: a claim about*)
(* all of them is proved by looking at a smallest one it fails for.        *)
LEMMA SmallestSet ==
  ASSUME NEW S, IsFiniteSet(S), NEW C, C \subseteq SUBSET S, C # {}
  PROVE  \E T \in C : T \in SUBSET S /\ \A U \in SUBSET T : U # T => U \notin C
<1>1. C \subseteq FiniteSubsetsOf(S)
  BY FS_Subset DEF FiniteSubsetsOf
<1>2. PICK T \in C : \A U \in C : <<U, T>> \notin StrictSubsetOrdering(S)
  BY <1>1, FS_StrictSubsetOrderingWellFounded, WFMin
<1> QED
  BY <1>2 DEF StrictSubsetOrdering

(* The element the sum over T takes next, and the partial sums of f below S.*)
Some(T) == CHOOSE x \in T : TRUE

Sums(g, f, S) ==
  g = [T \in SUBSET S |-> IF T = {} THEN 0
                                    ELSE f[Some(T)] + g[T \ {Some(T)}]]

(* The element is one of T.                                                *)
LEMMA SomeIn == \A T : T # {} => Some(T) \in T
BY DEF Some

(* If there are partial sums, the sum is the last of some.                 *)
LEMMA SumChosen ==
  ASSUME NEW f, NEW S, \E g : Sums(g, f, S)
  PROVE  \E g : Sums(g, f, S) /\ SumFunctionOnSet(f, S) = g[S]
BY DEF Sums, Some, SumFunctionOnSet, FoldFunctionOnSet, MapThenFoldSet

(* Partial sums below two sets agree where both are defined.               *)
LEMMA SumsAgree ==
  ASSUME NEW f, NEW S, IsFiniteSet(S), NEW g, Sums(g, f, S),
         NEW V \in SUBSET S, NEW h, Sums(h, f, V), NEW W \in SUBSET V
  PROVE  g[W] = h[W]
<1> DEFINE C == {T \in SUBSET V : g[T] # h[T]}
<1> SUFFICES ASSUME C # {} PROVE FALSE
  OBVIOUS
<1>0. C \subseteq SUBSET V
  OBVIOUS
<1>1. IsFiniteSet(V)
  BY FS_Subset
<1>2. PICK T \in C : T \in SUBSET V /\ \A U \in SUBSET T : U # T => U \notin C
  <2> HIDE DEF C
  <2> QED
    BY <1>0, <1>1, SmallestSet
<1>3. CASE T = {}
  BY <1>3, <1>2 DEF Sums
<1>4. CASE T # {}
  <2>1. Some(T) \in T
    BY <1>4, SomeIn
  <2>2. T \ {Some(T)} \in (SUBSET V) \ C
    BY <1>2, <2>1
  <2>3. g[T \ {Some(T)}] = h[T \ {Some(T)}]
    BY <2>2
  <2>4. T \in SUBSET V /\ T \in SUBSET S
    BY <1>2
  <2>5. g[T] = f[Some(T)] + g[T \ {Some(T)}]
    BY <1>4, <2>4 DEF Sums
  <2>6. h[T] = f[Some(T)] + h[T \ {Some(T)}]
    BY <1>4, <2>4 DEF Sums
  <2> QED
    BY <1>2, <2>3, <2>5, <2>6
<1> QED
  BY <1>3, <1>4

(* Where there are partial sums below each set, the sum takes out its elements*)
(* one by one.                                                             *)
LEMMA SumsSub ==
  ASSUME NEW f, NEW S, IsFiniteSet(S), NEW T \in SUBSET S,
         \A U \in SUBSET T : \E g : Sums(g, f, U)
  PROVE  SumFunctionOnSet(f, T) =
           IF T = {} THEN 0
                     ELSE f[Some(T)] + SumFunctionOnSet(f, T \ {Some(T)})
<1>1. PICK g : Sums(g, f, T) /\ SumFunctionOnSet(f, T) = g[T]
  BY SumChosen
<1>2. IsFiniteSet(T)
  BY FS_Subset
<1>3. CASE T = {}
  BY <1>1, <1>3 DEF Sums
<1>4. CASE T # {}
  <2> DEFINE U == T \ {Some(T)}
  <2>1. U \in SUBSET T
    OBVIOUS
  <2>2. PICK h : Sums(h, f, U) /\ SumFunctionOnSet(f, U) = h[U]
    BY <2>1, SumChosen
  <2>3. g[U] = h[U]
    BY <1>1, <1>2, <2>1, <2>2, SumsAgree
  <2>4. g[T] = f[Some(T)] + g[U]
    BY <1>1, <1>4 DEF Sums
  <2> QED
    BY <1>1, <1>4, <2>2, <2>3, <2>4
<1> QED
  BY <1>3, <1>4

(* There are partial sums below every finite set.                          *)
LEMMA SumsExist ==
  ASSUME NEW f, NEW S, IsFiniteSet(S)
  PROVE  \E g : Sums(g, f, S)
<1> DEFINE C == {T \in SUBSET S : ~\E g : Sums(g, f, T)}
<1> SUFFICES ASSUME C # {} PROVE FALSE
  OBVIOUS
<1>0. C \subseteq SUBSET S
  OBVIOUS
<1>1. PICK T \in C : T \in SUBSET S /\ \A U \in SUBSET T : U # T => U \notin C
  <2> HIDE DEF C
  <2> QED
    BY <1>0, SmallestSet
<1>2. T \in SUBSET S
  OBVIOUS
<1>3. \A U \in SUBSET T : U # T => \E g : Sums(g, f, U)
  BY <1>1, <1>2
<1> DEFINE sum(U) == SumFunctionOnSet(f, U)
           g == [U \in SUBSET T |->
                   IF U = {} THEN 0 ELSE f[Some(U)] + sum(U \ {Some(U)})]
<1>4. ASSUME NEW U \in SUBSET T, U # T
      PROVE  sum(U) = g[U]
  BY <1>2, <1>3, <1>4, SumsSub
<1>5. Sums(g, f, T)
  <2>1. \A U \in SUBSET T : U # {} =>
          U \ {Some(U)} \in SUBSET T /\ U \ {Some(U)} # T
    BY SomeIn
  <2>2. \A U \in SUBSET T : U # {} => sum(U \ {Some(U)}) = g[U \ {Some(U)}]
    BY <2>1, <1>4
  <2> HIDE DEF sum
  <2>3. \A U \in SUBSET T :
          g[U] = IF U = {} THEN 0 ELSE f[Some(U)] + g[U \ {Some(U)}]
    BY <2>2
  <2>4. g = [U \in SUBSET T |-> g[U]]
    OBVIOUS
  <2> HIDE DEF g
  <2> QED
    BY <2>3, <2>4 DEF Sums
<1> QED
  BY <1>1, <1>5

(* So the sum over a finite set meets its recursive definition.            *)
LEMMA SumEquation ==
  ASSUME NEW f, NEW S, IsFiniteSet(S)
  PROVE  SumFunctionOnSet(f, S) =
           IF S = {} THEN 0
                     ELSE f[Some(S)] + SumFunctionOnSet(f, S \ {Some(S)})
BY SumsSub, SumsExist, FS_Subset

(* A sum of integers is an integer, and does not depend on which element is*)
(* taken out first.                                                        *)
LEMMA SumRemove ==
  ASSUME NEW f, NEW S, IsFiniteSet(S), \A x \in S : f[x] \in Int
  PROVE  /\ SumFunctionOnSet(f, S) \in Int
         /\ \A x \in S :
              SumFunctionOnSet(f, S) = f[x] + SumFunctionOnSet(f, S \ {x})
<1> DEFINE sum(T) == SumFunctionOnSet(f, T)
           OK(T) == sum(T) \in Int /\ \A x \in T : sum(T) = f[x] + sum(T \ {x})
           C == {T \in SUBSET S : ~OK(T)}
<1> SUFFICES ASSUME C # {} PROVE FALSE
  OBVIOUS
<1>0. C \subseteq SUBSET S
  OBVIOUS
<1>1. PICK T \in C : T \in SUBSET S /\ \A U \in SUBSET T : U # T => U \notin C
  <2> HIDE DEF C
  <2> QED
    BY <1>0, SmallestSet
<1>2. T \in SUBSET S /\ ~OK(T)
  OBVIOUS
<1>3. \A U \in SUBSET T : U # T => OK(U)
  BY <1>1, <1>2
<1>4. sum(T) = IF T = {} THEN 0 ELSE f[Some(T)] + sum(T \ {Some(T)})
  BY <1>2, FS_Subset, SumEquation
<1> HIDE DEF sum
<1>5. CASE T = {}
  BY <1>2, <1>4, <1>5
<1>6. CASE T # {}
  <2>1. PICK c \in T : c = Some(T)
    BY <1>6, SomeIn
  <2>2. sum(T \ {c}) \in Int /\ sum(T) = f[c] + sum(T \ {c}) /\ f[c] \in Int
    BY <1>2, <1>3, <1>4, <1>6, <2>1
  <2>3. ASSUME NEW x \in T, x # c
        PROVE  sum(T) = f[x] + sum(T \ {x})
    <3>1. OK(T \ {c}) /\ OK(T \ {x}) /\ OK(T \ {c, x})
      BY <1>3, <2>3
    <3>2. T \ {c, x} = (T \ {c}) \ {x} /\ T \ {c, x} = (T \ {x}) \ {c}
      OBVIOUS
    <3>3. sum(T \ {c}) = f[x] + sum(T \ {c, x})
      BY <3>1, <3>2, <2>3
    <3>4. sum(T \ {x}) = f[c] + sum(T \ {c, x})
      BY <3>1, <3>2, <2>3
    <3>5. f[x] \in Int /\ sum(T \ {c, x}) \in Int
      BY <1>2, <3>1
    <3> QED
      BY <2>2, <3>3, <3>4, <3>5
  <2> QED
    BY <1>2, <2>2, <2>3
<1> QED
  BY <1>5, <1>6

(* The sum depends only on the values summed.                              *)
LEMMA SumSame ==
  ASSUME NEW f, NEW g, NEW S, IsFiniteSet(S), \A x \in S : f[x] = g[x]
  PROVE  SumFunctionOnSet(f, S) = SumFunctionOnSet(g, S)
<1> DEFINE C == {T \in SUBSET S :
                   SumFunctionOnSet(f, T) # SumFunctionOnSet(g, T)}
<1> SUFFICES ASSUME C # {} PROVE FALSE
  OBVIOUS
<1>0. C \subseteq SUBSET S
  OBVIOUS
<1>1. PICK T \in C : T \in SUBSET S /\ \A U \in SUBSET T : U # T => U \notin C
  <2> HIDE DEF C
  <2> QED
    BY <1>0, SmallestSet
<1>2. T \in SUBSET S /\ IsFiniteSet(T)
  BY FS_Subset
<1>3. CASE T = {}
  BY <1>1, <1>2, <1>3, SumEquation
<1>4. CASE T # {}
  <2>1. Some(T) \in T
    BY <1>4, SomeIn
  <2>2. T \ {Some(T)} \in (SUBSET S) \ C
    BY <1>1, <2>1
  <2>3. SumFunctionOnSet(f, T \ {Some(T)}) = SumFunctionOnSet(g, T \ {Some(T)})
    BY <2>2
  <2>4. f[Some(T)] = g[Some(T)]
    BY <1>2, <2>1
  <2> QED
    BY <1>1, <1>2, <1>4, <2>3, <2>4, SumEquation
<1> QED
  BY <1>3, <1>4

(* Nothing adds up to zero.                                                *)
LEMMA SumEmpty ==
  ASSUME NEW f, DOMAIN f = {}
  PROVE  SumFunction(f) = 0
BY SumEquation, FS_EmptySet DEF SumFunction

(* What x adds to the sum of f.                                            *)
At(f, x) == IF x \in DOMAIN f THEN f[x] ELSE 0

(* When one entry comes, goes or changes, the sum moves by as much.        *)
LEMMA SumMoves ==
  ASSUME NEW f, IsFiniteSet(DOMAIN f), \A y \in DOMAIN f : f[y] \in Int,
         NEW g, IsFiniteSet(DOMAIN g), \A y \in DOMAIN g : g[y] \in Int,
         NEW x,
         (DOMAIN f) \ {x} = (DOMAIN g) \ {x},
         \A y \in (DOMAIN f) \ {x} : f[y] = g[y]
  PROVE  /\ SumFunction(f) \in Int
         /\ SumFunction(g) = SumFunction(f) + (At(g, x) - At(f, x))
<1> DEFINE rest == SumFunctionOnSet(f, (DOMAIN f) \ {x})
<1>1. /\ SumFunction(f) \in Int
      /\ x \in DOMAIN f => SumFunction(f) = f[x] + rest
  BY SumRemove DEF SumFunction
<1>2. x \in DOMAIN g =>
        SumFunction(g) = g[x] + SumFunctionOnSet(g, (DOMAIN g) \ {x})
  BY SumRemove DEF SumFunction
<1>3. IsFiniteSet((DOMAIN f) \ {x})
  BY FS_Subset
<1>4. SumFunctionOnSet(g, (DOMAIN g) \ {x}) = rest
  BY <1>3, SumSame
<1>5. rest \in Int
  BY <1>3, SumRemove
<1>6. x \notin DOMAIN f => DOMAIN f = (DOMAIN f) \ {x}
  OBVIOUS
<1>7. x \notin DOMAIN g => DOMAIN g = (DOMAIN g) \ {x}
  OBVIOUS
<1>8. SumFunction(f) = At(f, x) + rest
  <2> HIDE DEF rest
  <2>1. CASE x \in DOMAIN f
    BY <1>1, <2>1 DEF At
  <2>2. CASE x \notin DOMAIN f
    BY <1>5, <1>6, <2>2 DEF At, SumFunction, rest
  <2> QED
    BY <2>1, <2>2
<1>9. SumFunction(g) = At(g, x) + rest
  <2>1. CASE x \in DOMAIN g
    BY <1>2, <1>4, <2>1 DEF At
  <2>2. CASE x \notin DOMAIN g
    BY <1>4, <1>5, <1>7, <2>2 DEF At, SumFunction
  <2> QED
    BY <2>1, <2>2
<1>10. At(f, x) \in Int /\ At(g, x) \in Int
  BY DEF At
<1> HIDE DEF rest
<1> QED
  BY <1>1, <1>5, <1>8, <1>9, <1>10

-----------------------------------------------------------------------------
(* The inductive invariant: types, no orphan rows, no negative balance,    *)
(* and only whole cents in the money columns.                              *)

StoredInCents ==
  /\ \A a \in DOMAIN accounts :
       Quantise(accounts[a].balance) = accounts[a].balance
  /\ \A t \in DOMAIN transactions :
       Quantise(transactions[t].amount) = transactions[t].amount

Inv == TypeOK /\ NoOrphans /\ NeverOverdrawn /\ StoredInCents

(* What SetBalance does, in the terms the invariant uses.                  *)
LEMMA SetBalanceEffect ==
  ASSUME TypeOK, NeverOverdrawn, StoredInCents,
         NEW a \in DOMAIN accounts, NEW balance \in Int, balance >= 0,
         SetBalance(a, balance)
  PROVE  /\ Tables(accounts', AccountIds, Account)
         /\ DOMAIN accounts' = DOMAIN accounts
         /\ \A b \in DOMAIN accounts :
              /\ accounts'[b].balance >= 0
              /\ Quantise(accounts'[b].balance) = accounts'[b].balance
         /\ accounts'[a].balance = Quantise(balance)
         /\ \A b \in DOMAIN accounts \ {a} : accounts'[b] = accounts[b]
<1> DEFINE q == Quantise(balance)
<1>1. q \in Int /\ q >= 0 /\ Quantise(q) = q
  BY QuantiseInt, QuantiseIdempotent
<1> HIDE DEF q
<1>2. accounts' = [accounts EXCEPT ![a].balance = q]
  BY DEF SetBalance, q
<1>3. \A b \in DOMAIN accounts : accounts[b] \in Account /\ b \in AccountIds
  BY DEF TypeOK, Tables
<1>4. DOMAIN accounts' = DOMAIN accounts
  BY <1>2
<1>5. accounts'[a].balance = q /\ accounts'[a] \in Account
  BY <1>1, <1>2, <1>3 DEF Account
<1>6. \A b \in DOMAIN accounts \ {a} : accounts'[b] = accounts[b]
  BY <1>2
<1> QED
  BY <1>1, <1>3, <1>4, <1>5, <1>6
     DEF q, Tables, NeverOverdrawn, StoredInCents

(* The empty tables satisfy the invariant.                                 *)
LEMMA InitInv == Init => Inv
BY DEF Init, Inv, TypeOK, NoOrphans, NeverOverdrawn, StoredInCents, Tables

(* Every kind of call preserves the invariant.                             *)
LEMMA AccountsStep ==
  ASSUME Inv, AccountsNext
  PROVE  Inv'
<1>. USE DEF Inv
<1>1. ASSUME NEW c \in Customers, NEW name \in OwnerNames,
             NEW balance \in OpeningBalances, CreateAccount(c, name, balance)
      PROVE  Inv'
  <2>1. PICK a \in AccountIds : CreateAccount(c, name, balance)!(a)
    BY <1>1 DEF CreateAccount
  <2> DEFINE row == [owner_name |-> name, balance |-> Quantise(balance),
                     customer_id |-> c]
  <2>2. balance \in Int /\ balance >= 0
    BY <2>1, MoneyAssumption DEF Acceptable
  <2>3. /\ Quantise(balance) \in Int
        /\ Quantise(balance) >= 0
        /\ Quantise(Quantise(balance)) = Quantise(balance)
    BY <2>2, QuantiseInt, QuantiseIdempotent
  <2>4. /\ a \in AccountIds
        /\ accounts' = Put(accounts, a, row)
        /\ issued' = issued \cup {a}
        /\ a \notin issued
        /\ opening' = [opening EXCEPT ![a] = Quantise(balance)]
        /\ transactions' = transactions /\ requests' = requests
    BY <2>1 DEF Issue
  <2>5. row \in Account
    BY <2>3 DEF Account
  <2>6. /\ Tables(accounts', AccountIds, Account)
        /\ DOMAIN accounts' = DOMAIN accounts \cup {a}
    <3> HIDE DEF row
    <3>1. Tables(accounts, AccountIds, Account)
      BY DEF TypeOK
    <3> QED
      BY <2>4, <2>5, <3>1 DEF Tables, Put
  <2>7. TypeOK'
    BY <2>3, <2>4, <2>6 DEF TypeOK, Ids
  <2>8. \A b \in DOMAIN accounts' :
          accounts'[b] = IF b = a THEN row ELSE accounts[b]
    BY <2>4, <2>6 DEF Put
  <2>9. NoOrphans'
    BY <2>4, <2>6 DEF NoOrphans
  <2>10. NeverOverdrawn' /\ StoredInCents'
    BY <2>3, <2>4, <2>6, <2>8 DEF NeverOverdrawn, StoredInCents
  <2> QED
    BY <2>7, <2>9, <2>10
<1>2. ASSUME NEW c \in Customers, NEW name \in OwnerNames,
             NEW a \in AccountIds, UpdateAccount(c, a, name)
      PROVE  Inv'
  <2>1. /\ a \in DOMAIN accounts
        /\ DOMAIN accounts' = DOMAIN accounts
        /\ \A b \in DOMAIN accounts \ {a} : accounts'[b] = accounts[b]
        /\ UNCHANGED <<transactions, requests, opening, issued>>
    BY <1>2 DEF UpdateAccount, Owns
  <2>2. accounts[a] \in Account
    BY <2>1 DEF TypeOK, Tables
  <2>3. /\ accounts'[a] \in Account
        /\ accounts'[a].balance = accounts[a].balance
    BY <1>2, <2>1, <2>2 DEF UpdateAccount, Account
  <2>4. TypeOK'
    BY <2>1, <2>3 DEF TypeOK, Tables
  <2>5. NoOrphans' /\ NeverOverdrawn' /\ StoredInCents'
    BY <2>1, <2>3 DEF NoOrphans, NeverOverdrawn, StoredInCents
  <2> QED
    BY <2>4, <2>5
<1>3. ASSUME NEW a \in AccountIds, DeleteAccount(a)
      PROVE  Inv'
  <2>1. /\ Tables(accounts', AccountIds, Account)
        /\ DOMAIN accounts' = DOMAIN accounts \ {a}
        /\ Tables(transactions', TransactionIds, Transaction)
        /\ DOMAIN transactions' = DOMAIN transactions \ RowsOf(transactions, a)
        /\ Tables(requests', RequestIds, ServiceRequest)
        /\ DOMAIN requests' = DOMAIN requests \ RowsOf(requests, a)
    BY <1>3 DEF DeleteAccount, TypeOK, Tables, Remove
  <2>2. /\ \A b \in DOMAIN accounts' : accounts'[b] = accounts[b]
        /\ \A t \in DOMAIN transactions' : transactions'[t] = transactions[t]
        /\ \A r \in DOMAIN requests' : requests'[r] = requests[r]
        /\ UNCHANGED <<opening, issued>>
    BY <1>3 DEF DeleteAccount, Remove
  <2>3. TypeOK'
    BY <2>1, <2>2 DEF TypeOK
  <2>4. NoOrphans'
    BY <2>1, <2>2 DEF NoOrphans, RowsOf
  <2>5. NeverOverdrawn' /\ StoredInCents'
    BY <2>1, <2>2 DEF NeverOverdrawn, StoredInCents
  <2> QED
    BY <2>3, <2>4, <2>5
<1> QED
  BY <1>1, <1>2, <1>3 DEF AccountsNext

(* The transactions server preserves it: every balance it writes has       *)
(* passed the overdraft test (crud_transactions.py) and is stored in       *)
(* cents.                                                                  *)
LEMMA TransactionsStep ==
  ASSUME Inv, TransactionsNext
  PROVE  Inv'
<1>. USE DEF Inv
<1>1. ASSUME NEW c \in Customers, NEW a \in AccountIds, NEW x \in Amounts,
             CreateTransaction(c, a, x)
      PROVE  Inv'
  <2>1. PICK t \in TransactionIds : CreateTransaction(c, a, x)!(t)
    BY <1>1 DEF CreateTransaction
  <2> DEFINE row == [account_id |-> a, amount |-> Quantise(x)]
             balance == accounts[a].balance + x
  <2>2. a \in DOMAIN accounts /\ x \in Int /\ balance \in Int /\ balance >= 0
    BY <2>1, MoneyAssumption DEF Owns, Acceptable, TypeOK, Tables, Account
  <2>3. Quantise(x) \in Int /\ Quantise(Quantise(x)) = Quantise(x)
    BY <2>2, QuantiseInt, QuantiseIdempotent
  <2>4. /\ t \in TransactionIds
        /\ t \notin issued
        /\ issued' = issued \cup {t}
        /\ SetBalance(a, balance)
        /\ transactions' = Put(transactions, t, row)
        /\ requests' = requests /\ opening' = opening
    BY <2>1 DEF Issue
  <2>5. row \in Transaction
    BY <2>3 DEF Transaction
  <2>6. /\ Tables(accounts', AccountIds, Account)
        /\ DOMAIN accounts' = DOMAIN accounts
        /\ \A b \in DOMAIN accounts :
             /\ accounts'[b].balance >= 0
             /\ Quantise(accounts'[b].balance) = accounts'[b].balance
    <3> HIDE DEF balance
    <3> QED
      BY <2>2, <2>4, SetBalanceEffect
  <2>7. /\ Tables(transactions', TransactionIds, Transaction)
        /\ DOMAIN transactions' = DOMAIN transactions \cup {t}
        /\ \A u \in DOMAIN transactions' :
             transactions'[u] = IF u = t THEN row ELSE transactions[u]
    <3> HIDE DEF row
    <3>1. Tables(transactions, TransactionIds, Transaction)
      BY DEF TypeOK
    <3> QED
      BY <2>4, <2>5, <3>1 DEF Tables, Put
  <2>8. TypeOK'
    BY <2>4, <2>6, <2>7 DEF TypeOK, Ids
  <2>9. NoOrphans'
    BY <2>2, <2>4, <2>6, <2>7 DEF NoOrphans
  <2>10. NeverOverdrawn' /\ StoredInCents'
    BY <2>3, <2>6, <2>7 DEF NeverOverdrawn, StoredInCents
  <2> QED
    BY <2>8, <2>9, <2>10
<1>2. ASSUME NEW c \in Customers, NEW t \in TransactionIds, NEW x \in Amounts,
             UpdateTransaction(c, t, x)
      PROVE  Inv'
  <2> DEFINE a == transactions[t].account_id
             balance == accounts[a].balance + (x - transactions[t].amount)
  <2>1. /\ t \in DOMAIN transactions
        /\ a \in DOMAIN accounts
        /\ transactions[t] \in Transaction
        /\ accounts[a] \in Account
        /\ x \in Int
    BY <1>2, MoneyAssumption DEF UpdateTransaction, Owns, TypeOK, Tables
  <2>2. balance \in Int /\ balance >= 0 /\ SetBalance(a, balance)
    BY <1>2, <2>1
       DEF UpdateTransaction, Acceptable, Account, Transaction
  <2>3. Quantise(x) \in Int /\ Quantise(Quantise(x)) = Quantise(x)
    BY <2>1, QuantiseInt, QuantiseIdempotent
  <2>4. /\ Tables(accounts', AccountIds, Account)
        /\ DOMAIN accounts' = DOMAIN accounts
        /\ \A b \in DOMAIN accounts :
             /\ accounts'[b].balance >= 0
             /\ Quantise(accounts'[b].balance) = accounts'[b].balance
    <3> HIDE DEF a, balance
    <3> QED
      BY <2>1, <2>2, SetBalanceEffect
  <2>5. /\ DOMAIN transactions' = DOMAIN transactions
        /\ \A u \in DOMAIN transactions \ {t} : transactions'[u] = transactions[u]
        /\ transactions'[t].account_id = a
        /\ transactions'[t].amount = Quantise(x)
        /\ transactions'[t] \in Transaction
        /\ UNCHANGED <<requests, opening, issued>>
    BY <1>2, <2>1, <2>3 DEF UpdateTransaction, Transaction
  <2>6. TypeOK'
    BY <2>4, <2>5 DEF TypeOK, Tables
  <2>7. NoOrphans'
    BY <2>1, <2>4, <2>5 DEF NoOrphans
  <2>8. NeverOverdrawn' /\ StoredInCents'
    BY <2>3, <2>4, <2>5 DEF NeverOverdrawn, StoredInCents
  <2> QED
    BY <2>6, <2>7, <2>8
<1>3. ASSUME NEW c \in Customers, NEW t \in TransactionIds,
             DeleteTransaction(c, t)
      PROVE  Inv'
  <2> DEFINE a == transactions[t].account_id
             balance == accounts[a].balance - transactions[t].amount
  <2>1. /\ t \in DOMAIN transactions
        /\ a \in DOMAIN accounts
        /\ transactions[t] \in Transaction
        /\ accounts[a] \in Account
    BY <1>3 DEF DeleteTransaction, Owns, TypeOK, Tables
  <2>2. balance \in Int /\ balance >= 0 /\ SetBalance(a, balance)
    BY <1>3, <2>1
       DEF DeleteTransaction, Acceptable, Account, Transaction
  <2>3. /\ Tables(accounts', AccountIds, Account)
        /\ DOMAIN accounts' = DOMAIN accounts
        /\ \A b \in DOMAIN accounts :
             /\ accounts'[b].balance >= 0
             /\ Quantise(accounts'[b].balance) = accounts'[b].balance
    <3> HIDE DEF a, balance
    <3> QED
      BY <2>1, <2>2, SetBalanceEffect
  <2>4. /\ Tables(transactions', TransactionIds, Transaction)
        /\ DOMAIN transactions' = DOMAIN transactions \ {t}
        /\ \A u \in DOMAIN transactions' : transactions'[u] = transactions[u]
        /\ UNCHANGED <<requests, opening, issued>>
    BY <1>3 DEF DeleteTransaction, TypeOK, Tables, Remove
  <2>5. TypeOK'
    BY <2>3, <2>4 DEF TypeOK
  <2>6. NoOrphans'
    BY <2>3, <2>4 DEF NoOrphans
  <2>7. NeverOverdrawn' /\ StoredInCents'
    BY <2>3, <2>4 DEF NeverOverdrawn, StoredInCents
  <2> QED
    BY <2>5, <2>6, <2>7
<1> QED
  BY <1>1, <1>2, <1>3 DEF TransactionsNext

(* The service server preserves it: a request is created on an account     *)
(* that exists, and deletes and edits leave the accounts alone.            *)
LEMMA ServiceStep ==
  ASSUME Inv, ServiceNext
  PROVE  Inv'
<1>. USE DEF Inv
<1>1. ASSUME NEW c \in Customers, NEW a \in AccountIds, NEW d \in Details,
             CreateServiceRequest(c, a, d)
      PROVE  Inv'
  <2>1. PICK r \in RequestIds : CreateServiceRequest(c, a, d)!(r)
    BY <1>1 DEF CreateServiceRequest
  <2> DEFINE row == [account_id |-> a, status |-> "pending", details |-> d]
  <2>2. /\ r \in RequestIds
        /\ a \in DOMAIN accounts
        /\ issued' = issued \cup {r}
        /\ requests' = Put(requests, r, row)
        /\ UNCHANGED <<accounts, transactions, opening>>
    BY <2>1 DEF Issue, Owns
  <2>3. row \in ServiceRequest
    BY DEF ServiceRequest, Statuses
  <2>4. /\ Tables(requests', RequestIds, ServiceRequest)
        /\ DOMAIN requests' = DOMAIN requests \cup {r}
        /\ \A q \in DOMAIN requests' :
             requests'[q] = IF q = r THEN row ELSE requests[q]
    <3> HIDE DEF row
    <3>1. Tables(requests, RequestIds, ServiceRequest)
      BY DEF TypeOK
    <3> QED
      BY <2>2, <2>3, <3>1 DEF Tables, Put
  <2>5. TypeOK'
    BY <2>2, <2>4 DEF TypeOK, Ids
  <2>6. NoOrphans'
    BY <2>2, <2>4 DEF NoOrphans
  <2>7. NeverOverdrawn' /\ StoredInCents'
    BY <2>2 DEF NeverOverdrawn, StoredInCents
  <2> QED
    BY <2>5, <2>6, <2>7
<1>2. ASSUME NEW c \in Customers, NEW r \in RequestIds, NEW d \in Details,
             UpdateDetails(c, r, d)
      PROVE  Inv'
  <2>1. /\ r \in DOMAIN requests
        /\ requests[r] \in ServiceRequest
        /\ requests' = [requests EXCEPT ![r].details = d]
        /\ UNCHANGED <<accounts, transactions, opening, issued>>
    BY <1>2 DEF UpdateDetails, TypeOK, Tables
  <2>2. /\ DOMAIN requests' = DOMAIN requests
        /\ \A q \in DOMAIN requests :
             /\ requests'[q] \in ServiceRequest
             /\ requests'[q].account_id = requests[q].account_id
    BY <2>1 DEF ServiceRequest, TypeOK, Tables
  <2>3. TypeOK'
    BY <2>1, <2>2 DEF TypeOK, Tables
  <2> QED
    BY <2>1, <2>2, <2>3 DEF NoOrphans, NeverOverdrawn, StoredInCents
<1>3. ASSUME NEW r \in RequestIds, NEW s \in Statuses, SetStatus(r, s)
      PROVE  Inv'
  <2>1. /\ r \in DOMAIN requests
        /\ requests[r] \in ServiceRequest
        /\ requests' = [requests EXCEPT ![r].status = s]
        /\ UNCHANGED <<accounts, transactions, opening, issued>>
    BY <1>3 DEF SetStatus, TypeOK, Tables
  <2>2. /\ DOMAIN requests' = DOMAIN requests
        /\ \A q \in DOMAIN requests :
             /\ requests'[q] \in ServiceRequest
             /\ requests'[q].account_id = requests[q].account_id
    BY <2>1 DEF ServiceRequest, TypeOK, Tables
  <2>3. TypeOK'
    BY <2>1, <2>2 DEF TypeOK, Tables
  <2> QED
    BY <2>1, <2>2, <2>3 DEF NoOrphans, NeverOverdrawn, StoredInCents
<1>4. ASSUME NEW c \in Customers, NEW r \in RequestIds,
             DeleteServiceRequest(c, r)
      PROVE  Inv'
  <2>1. /\ Tables(requests', RequestIds, ServiceRequest)
        /\ DOMAIN requests' = DOMAIN requests \ {r}
        /\ \A q \in DOMAIN requests' : requests'[q] = requests[q]
        /\ UNCHANGED <<accounts, transactions, opening, issued>>
    BY <1>4 DEF DeleteServiceRequest, TypeOK, Tables, Remove
  <2>2. TypeOK'
    BY <2>1 DEF TypeOK
  <2> QED
    BY <2>1, <2>2 DEF NoOrphans, NeverOverdrawn, StoredInCents
<1> QED
  BY <1>1, <1>2, <1>3, <1>4 DEF ServiceNext

(* Every step of the specification preserves the invariant.                *)
LEMMA NextInv ==
  ASSUME Inv, [Next]_vars
  PROVE  Inv'
<1>1. CASE UNCHANGED vars
  BY <1>1 DEF vars, Inv, TypeOK, NoOrphans, NeverOverdrawn, StoredInCents
<1> QED
  BY <1>1, AccountsStep, TransactionsStep, ServiceStep DEF Next, NoEffect

(* Whatever calls arrive, one after the other: the tables stay well typed, *)
(* deleting an account leaves no row that names it, no balance is ever     *)
(* negative, and the money columns hold whole cents.                       *)
THEOREM Invariance == Spec => []Inv
<1> QED
  BY InitInv, NextInv, PTL DEF Spec

(* The tables of the servers stay well typed.                              *)
THEOREM TypeCorrect == Spec => []TypeOK
<1>1. Inv => TypeOK
  BY DEF Inv
<1> QED
  BY <1>1, Invariance, PTL

(* The cascade of crud_accounts.delete_account leaves no orphans.          *)
THEOREM CascadeComplete == Spec => []NoOrphans
<1>1. Inv => NoOrphans
  BY DEF Inv
<1> QED
  BY <1>1, Invariance, PTL

(* Overdraft protection: debits, edits and deletions of transactions keep  *)
(* every balance at zero or above.                                         *)
THEOREM OverdraftProtection == Spec => []NeverOverdrawn
<1>1. Inv => NeverOverdrawn
  BY DEF Inv
<1> QED
  BY <1>1, Invariance, PTL

-----------------------------------------------------------------------------
(* The balance moves with the ledger.                                      *)

(* A step that leaves the ledger of an account and its balance alone.      *)
LEMMA UntouchedMoves ==
  ASSUME NEW a,
         accounts'[a].balance = accounts[a].balance,
         \A t \in TransactionIds : Entry(a, t)' = Entry(a, t)
  PROVE  MovesWithLedger(a)
BY DEF MovesWithLedger

(* Setting one balance together with one row of its ledger is such a move, *)
(* for that account and for every other one.                               *)
LEMMA OneRowMoves ==
  ASSUME Inv, NEW t \in TransactionIds, NEW a \in DOMAIN accounts,
         NEW balance \in Int, Quantise(balance) = balance,
         SetBalance(a, balance),
         \A b \in DOMAIN accounts, u \in TransactionIds :
           b # a \/ u # t => Entry(b, u)' = Entry(b, u),
         balance - accounts[a].balance = Entry(a, t)' - Entry(a, t)
  PROVE  \A b \in DOMAIN accounts : MovesWithLedger(b)
<1>1. accounts[a] \in Account
  BY DEF Inv, TypeOK, Tables
<1>2. accounts'[a].balance = balance
  BY <1>1 DEF SetBalance, Account
<1>3. \A b \in DOMAIN accounts \ {a} : accounts'[b] = accounts[b]
  BY DEF SetBalance
<1>4. MovesWithLedger(a)
  BY <1>2 DEF MovesWithLedger
<1>5. \A b \in DOMAIN accounts \ {a} : MovesWithLedger(b)
  BY <1>3 DEF MovesWithLedger
<1> QED
  BY <1>4, <1>5

(* No call of the accounts server moves a balance or the entries of an     *)
(* account it leaves in place.                                             *)
LEMMA AccountsMove ==
  ASSUME Inv, AccountsNext,
         NEW b \in DOMAIN accounts \cap DOMAIN accounts'
  PROVE  MovesWithLedger(b)
<1>1. ASSUME NEW c \in Customers, NEW name \in OwnerNames,
             NEW balance \in OpeningBalances, CreateAccount(c, name, balance)
      PROVE  accounts'[b].balance = accounts[b].balance
             /\ transactions' = transactions
  BY <1>1 DEF CreateAccount, Issue, Put, Inv, TypeOK
<1>2. ASSUME NEW c \in Customers, NEW name \in OwnerNames,
             NEW a \in AccountIds, UpdateAccount(c, a, name)
      PROVE  accounts'[b].balance = accounts[b].balance
             /\ transactions' = transactions
  <2>1. accounts[b] \in Account
    BY DEF Inv, TypeOK, Tables
  <2> QED
    BY <1>2, <2>1 DEF UpdateAccount, Account
<1>3. ASSUME NEW a \in AccountIds, DeleteAccount(a)
      PROVE  /\ accounts'[b].balance = accounts[b].balance
             /\ \A t \in TransactionIds : Entry(b, t)' = Entry(b, t)
  BY <1>3 DEF DeleteAccount, Remove, RowsOf, Entry
<1> QED
  BY <1>1, <1>2, <1>3, UntouchedMoves DEF AccountsNext, Entry

(* Every call of the transactions server moves each balance by what it     *)
(* adds to the ledger of that account, when amounts are whole cents.       *)
LEMMA TransactionsMove ==
  ASSUME Inv, TransactionsNext, WholeCents(Amounts)
  PROVE  \A b \in DOMAIN accounts : MovesWithLedger(b)
<1>1. ASSUME NEW c \in Customers, NEW a \in AccountIds, NEW x \in Amounts,
             CreateTransaction(c, a, x)
      PROVE  \A b \in DOMAIN accounts : MovesWithLedger(b)
  <2>1. PICK t \in TransactionIds : CreateTransaction(c, a, x)!(t)
    BY <1>1 DEF CreateTransaction
  <2> DEFINE balance == accounts[a].balance + x
  <2>2. /\ t \in TransactionIds
        /\ a \in DOMAIN accounts
        /\ t \notin DOMAIN transactions
        /\ x \in Int
        /\ accounts[a].balance \in Int
        /\ Quantise(x) = x
        /\ Quantise(accounts[a].balance) = accounts[a].balance
        /\ SetBalance(a, balance)
        /\ transactions' = Put(transactions, t, [account_id |-> a, amount |-> x])
    BY <2>1, MoneyAssumption
       DEF Issue, Owns, Inv, TypeOK, Tables, Account, StoredInCents, WholeCents
  <2>3. balance \in Int /\ Quantise(balance) = balance
    <3>1. PICK z : z = accounts[a].balance
      OBVIOUS
    <3>2. z \in Int /\ Quantise(z) = z /\ x \in Int /\ Quantise(x) = x
      BY <2>2, <3>1
    <3>3. z + x \in Int /\ Quantise(z + x) = z + x
      BY <3>2, CentsClosed
    <3> QED
      BY <3>1, <3>3
  <2>4. Entry(a, t) = 0 /\ Entry(a, t)' = x
    BY <2>2 DEF Entry, Put
  <2>5. \A b \in DOMAIN accounts, u \in TransactionIds :
          b # a \/ u # t => Entry(b, u)' = Entry(b, u)
    BY <2>2 DEF Entry, Put
  <2>6. balance - accounts[a].balance = Entry(a, t)' - Entry(a, t)
    BY <2>2, <2>4
  <2> QED
    <3> HIDE DEF balance
    <3> QED
      BY <2>2, <2>3, <2>5, <2>6, OneRowMoves
<1>2. ASSUME NEW c \in Customers, NEW t \in TransactionIds, NEW x \in Amounts,
             UpdateTransaction(c, t, x)
      PROVE  \A b \in DOMAIN accounts : MovesWithLedger(b)
  <2>0. PICK a, y : a = transactions[t].account_id /\ y = transactions[t].amount
    OBVIOUS
  <2> DEFINE balance == accounts[a].balance + (x - y)
  <2>1. /\ t \in DOMAIN transactions
        /\ a \in DOMAIN accounts
        /\ transactions[t] \in Transaction
        /\ accounts[a] \in Account
        /\ x \in Int
        /\ Quantise(x) = x
        /\ Quantise(y) = y
        /\ Quantise(accounts[a].balance) = accounts[a].balance
        /\ SetBalance(a, balance)
        /\ transactions' = [transactions EXCEPT ![t].amount = x]
    BY <1>2, <2>0, MoneyAssumption
       DEF UpdateTransaction, Owns, Inv, TypeOK, Tables, StoredInCents,
           WholeCents
  <2>2. y \in Int /\ accounts[a].balance \in Int
    BY <2>0, <2>1 DEF Transaction, Account
  <2>3. balance \in Int /\ Quantise(balance) = balance
    <3>1. x - y \in Int /\ Quantise(x - y) = x - y
      BY <2>1, <2>2, CentsClosed
    <3> QED
      BY <2>1, <2>2, <3>1, CentsClosed
  <2>4. /\ DOMAIN transactions' = DOMAIN transactions
        /\ transactions'[t].account_id = a
        /\ transactions'[t].amount = x
        /\ \A u \in DOMAIN transactions \ {t} : transactions'[u] = transactions[u]
    BY <2>0, <2>1 DEF Transaction
  <2>5. Entry(a, t) = y /\ Entry(a, t)' = x
    BY <2>0, <2>1, <2>4 DEF Entry
  <2>6. \A b \in DOMAIN accounts, u \in TransactionIds :
          b # a \/ u # t => Entry(b, u)' = Entry(b, u)
    BY <2>0, <2>1, <2>4 DEF Entry
  <2>7. balance - accounts[a].balance = Entry(a, t)' - Entry(a, t)
    BY <2>1, <2>2, <2>5
  <2> QED
    <3> HIDE DEF balance
    <3> QED
      BY <2>1, <2>3, <2>6, <2>7, OneRowMoves
<1>3. ASSUME NEW c \in Customers, NEW t \in TransactionIds,
             DeleteTransaction(c, t)
      PROVE  \A b \in DOMAIN accounts : MovesWithLedger(b)
  <2>0. PICK a, y : a = transactions[t].account_id /\ y = transactions[t].amount
    OBVIOUS
  <2> DEFINE balance == accounts[a].balance - y
  <2>1. /\ t \in DOMAIN transactions
        /\ a \in DOMAIN accounts
        /\ transactions[t] \in Transaction
        /\ accounts[a] \in Account
        /\ Quantise(y) = y
        /\ Quantise(accounts[a].balance) = accounts[a].balance
        /\ SetBalance(a, balance)
        /\ transactions' = Remove(transactions, {t})
    BY <1>3, <2>0
       DEF DeleteTransaction, Owns, Inv, TypeOK, Tables, StoredInCents
  <2>2. y \in Int /\ accounts[a].balance \in Int
    BY <2>0, <2>1 DEF Transaction, Account
  <2>3. balance \in Int /\ Quantise(balance) = balance
    <3>1. PICK z : z = accounts[a].balance
      OBVIOUS
    <3>2. z \in Int /\ Quantise(z) = z /\ y \in Int /\ Quantise(y) = y
      BY <2>1, <2>2, <3>1
    <3>3. z - y \in Int /\ Quantise(z - y) = z - y
      BY <3>2, CentsClosed
    <3> QED
      BY <3>1, <3>3
  <2>4. Entry(a, t) = y /\ Entry(a, t)' = 0
    BY <2>0, <2>1 DEF Entry, Remove
  <2>5. \A b \in DOMAIN accounts, u \in TransactionIds :
          b # a \/ u # t => Entry(b, u)' = Entry(b, u)
    BY <2>0, <2>1 DEF Entry, Remove
  <2>6. balance - accounts[a].balance = Entry(a, t)' - Entry(a, t)
    BY <2>2, <2>4
  <2> QED
    <3> HIDE DEF balance
    <3> QED
      BY <2>1, <2>3, <2>5, <2>6, OneRowMoves
<1> QED
  BY <1>1, <1>2, <1>3 DEF TransactionsNext

(* With amounts in whole cents, no call moves the balance of an account    *)
(* without its ledger, or its ledger without the balance, and both move by *)
(* the same amount: the step form of LedgerInSync.                         *)
THEOREM LedgerMoves == Spec => BalanceFollowsLedger
<1>1. ASSUME Inv, [Next]_vars
      PROVE  WholeCents(Amounts) =>
               \A a \in DOMAIN accounts \cap DOMAIN accounts' : MovesWithLedger(a)
  <2>1. CASE AccountsNext
    BY <1>1, <2>1, AccountsMove
  <2>2. CASE TransactionsNext
    BY <1>1, <2>2, TransactionsMove
  <2>3. ASSUME accounts' = accounts /\ transactions' = transactions
        PROVE  \A a \in DOMAIN accounts : MovesWithLedger(a)
    BY <2>3, UntouchedMoves DEF Entry
  <2>4. ServiceNext \/ UNCHANGED vars
          => accounts' = accounts /\ transactions' = transactions
    BY DEF ServiceNext, CreateServiceRequest, UpdateDetails, SetStatus,
           DeleteServiceRequest, vars
  <2> QED
    BY <1>1, <2>1, <2>2, <2>3, <2>4 DEF Next, NoEffect
<1> QED
  BY <1>1, Invariance, PTL DEF Spec, BalanceFollowsLedger

(* No call moves a request against its lifecycle: only staff's change of   *)
(* the status touches it, and it asks for an allowed transition.           *)
THEOREM Lifecycle == Spec => StatusLifecycle
<1>1. ASSUME Inv, [Next]_vars
      PROVE  \A r \in DOMAIN requests \cap DOMAIN requests' :
               requests'[r].status # requests[r].status =>
                 requests'[r].status
                   \in AllowedStatusTransitions[requests[r].status]
  <2> SUFFICES ASSUME NEW r \in DOMAIN requests \cap DOMAIN requests',
                      requests'[r].status # requests[r].status
               PROVE  requests'[r].status
                        \in AllowedStatusTransitions[requests[r].status]
    OBVIOUS
  <2>1. requests[r] \in ServiceRequest /\ r \in issued
    BY <1>1 DEF Inv, TypeOK, Tables
  <2>2. ~AccountsNext
    BY <1>1 DEF AccountsNext, CreateAccount, UpdateAccount, DeleteAccount, Remove
  <2>3. ~TransactionsNext
    BY <1>1 DEF TransactionsNext, CreateTransaction, UpdateTransaction,
                DeleteTransaction
  <2>4. PICK i, status :
          /\ i \in DOMAIN requests
          /\ status \in AllowedStatusTransitions[requests[i].status]
          /\ requests' = [requests EXCEPT ![i].status = status]
    <3>1. ASSUME NEW c, NEW a, NEW d, CreateServiceRequest(c, a, d)
          PROVE  FALSE
      BY <1>1, <2>1, <3>1 DEF CreateServiceRequest, Issue, Put
    <3>2. ASSUME NEW c, NEW i, NEW d, UpdateDetails(c, i, d)
          PROVE  FALSE
      BY <1>1, <2>1, <3>2 DEF UpdateDetails, ServiceRequest
    <3>3. ASSUME NEW c, NEW i, DeleteServiceRequest(c, i)
          PROVE  FALSE
      BY <1>1, <3>3 DEF DeleteServiceRequest, Remove
    <3>4. PICK i, status : SetStatus(i, status)
      BY <1>1, <2>2, <2>3, <3>1, <3>2, <3>3
         DEF Next, NoEffect, vars, ServiceNext
    <3> QED
      BY <3>4 DEF SetStatus
  <2> QED
    BY <1>1, <2>1, <2>4 DEF ServiceRequest
<1> QED
  BY <1>1, Invariance, PTL DEF Spec, StatusLifecycle

-----------------------------------------------------------------------------
(* The balance and the sum of the ledger.  Sums need a finite table.       *)

BooksInv == Inv /\ IsFiniteSet(DOMAIN transactions)

(* No call makes the table of transactions infinite: each adds one row at  *)
(* most.                                                                   *)
LEMMA StaysFinite ==
  ASSUME BooksInv, [Next]_vars
  PROVE  BooksInv'
<1>1. Inv'
  BY NextInv DEF BooksInv
<1>2. ASSUME NEW T, DOMAIN transactions' \subseteq DOMAIN transactions \cup {T}
      PROVE  IsFiniteSet(DOMAIN transactions')
  BY <1>2, FS_AddElement, FS_Subset DEF BooksInv
<1>3. CASE AccountsNext
  <2>1. DOMAIN transactions' \subseteq DOMAIN transactions
    BY <1>3 DEF AccountsNext, CreateAccount, UpdateAccount, DeleteAccount,
                Remove
  <2> QED
    BY <1>1, <1>2, <2>1 DEF BooksInv
<1>4. CASE TransactionsNext
  <2>1. ASSUME NEW c, NEW a, NEW x, CreateTransaction(c, a, x)
        PROVE  IsFiniteSet(DOMAIN transactions')
    BY <1>2, <2>1 DEF CreateTransaction, Put
  <2>2. ASSUME NEW c, NEW t, NEW x,
               UpdateTransaction(c, t, x) \/ DeleteTransaction(c, t)
        PROVE  IsFiniteSet(DOMAIN transactions')
    BY <1>2, <2>2 DEF UpdateTransaction, DeleteTransaction, Remove
  <2> QED
    BY <1>1, <1>4, <2>1, <2>2 DEF TransactionsNext, BooksInv
<1>5. CASE ServiceNext \/ UNCHANGED vars
  <2>1. transactions' = transactions
    BY <1>5 DEF ServiceNext, CreateServiceRequest, UpdateDetails, SetStatus,
                DeleteServiceRequest, vars
  <2> QED
    BY <1>1, <2>1 DEF BooksInv
<1> QED
  BY <1>3, <1>4, <1>5 DEF Next, NoEffect

(* A step that touches no row of the ledger of a but t moves the ledger    *)
(* balance of a by what it moves the entry of t.                           *)
LEMMA LedgerMovesBy ==
  ASSUME BooksInv, BooksInv', NEW a \in AccountIds, NEW t,
         opening'[a] = opening[a],
         \A u : u # t =>
           /\ u \in RowsOf(transactions', a) <=> u \in RowsOf(transactions, a)
           /\ u \in RowsOf(transactions, a) =>
                transactions'[u].amount = transactions[u].amount
  PROVE  /\ LedgerBalance(a) \in Int
         /\ LedgerBalance(a)' = LedgerBalance(a) + (Entry(a, t)' - Entry(a, t))
<1>1. PICK f, g : /\ f = AmountsOf(a)
                  /\ g = [u \in RowsOf(transactions', a) |->
                            transactions'[u].amount]
  OBVIOUS
<1>2. /\ DOMAIN f = RowsOf(transactions, a)
      /\ DOMAIN g = RowsOf(transactions', a)
      /\ \A u \in DOMAIN f : f[u] = transactions[u].amount
      /\ \A u \in DOMAIN g : g[u] = transactions'[u].amount
  BY <1>1 DEF AmountsOf
<1>3. IsFiniteSet(DOMAIN f) /\ IsFiniteSet(DOMAIN g)
  BY <1>2, FS_Subset DEF BooksInv, RowsOf
<1>4. \A u \in DOMAIN f : f[u] \in Int
  BY <1>2 DEF BooksInv, Inv, TypeOK, Tables, Transaction, RowsOf
<1>5. \A u \in DOMAIN g : g[u] \in Int
  BY <1>2 DEF BooksInv, Inv, TypeOK, Tables, Transaction, RowsOf
<1>6. /\ (DOMAIN f) \ {t} = (DOMAIN g) \ {t}
      /\ \A u \in (DOMAIN f) \ {t} : f[u] = g[u]
  BY <1>2
<1>7. /\ SumFunction(f) \in Int
      /\ SumFunction(g) = SumFunction(f) + (At(g, t) - At(f, t))
  BY <1>3, <1>4, <1>5, <1>6, SumMoves
<1>8. At(f, t) = Entry(a, t) /\ At(g, t) = Entry(a, t)'
  BY <1>2 DEF At, Entry, RowsOf
<1>9. At(f, t) \in Int /\ At(g, t) \in Int /\ opening[a] \in Int
  BY <1>4, <1>5 DEF At, BooksInv, Inv, TypeOK
<1>10. /\ LedgerBalance(a) = opening[a] + SumFunction(f)
       /\ LedgerBalance(a)' = opening[a] + SumFunction(g)
  BY <1>1 DEF LedgerBalance, AmountsOf
<1> HIDE DEF LedgerBalance
<1> QED
  BY <1>7, <1>8, <1>9, <1>10

(* How far the balance of a is ahead of its ledger.                        *)
Gap(a) == accounts[a].balance - LedgerBalance(a)

(* The gap of a does not shrink in a step, and with amounts in whole cents *)
(* it does not change.                                                     *)
GapKept(a) ==
  /\ Gap(a)' >= Gap(a)
  /\ WholeCents(Amounts) => Gap(a)' = Gap(a)

(* The balance and the ledger of an account are integers.                  *)
LEMMA GapInt ==
  BooksInv => \A a \in DOMAIN accounts :
                /\ a \in AccountIds
                /\ accounts[a].balance \in Int
                /\ LedgerBalance(a) \in Int
<1> SUFFICES ASSUME BooksInv, NEW a \in DOMAIN accounts
             PROVE  /\ a \in AccountIds
                    /\ accounts[a].balance \in Int
                    /\ LedgerBalance(a) \in Int
  OBVIOUS
<1>1. /\ a \in AccountIds
      /\ accounts[a].balance \in Int
      /\ opening[a] \in Int
  BY DEF BooksInv, Inv, TypeOK, Tables, Account
<1>2. PICK f : f = AmountsOf(a)
  OBVIOUS
<1>3. /\ IsFiniteSet(DOMAIN f)
      /\ \A t \in DOMAIN f : f[t] \in Int
  BY <1>2, FS_Subset
     DEF AmountsOf, RowsOf, BooksInv, Inv, TypeOK, Tables, Transaction
<1>4. SumFunction(f) \in Int
  BY <1>3, SumRemove DEF SumFunction
<1> QED
  BY <1>1, <1>2, <1>4 DEF LedgerBalance

(* A step that moves the balance of a and its entry t keeps its gap, if    *)
(* the balance moves by no less than the entry.                            *)
LEMMA GapKeptBy ==
  ASSUME BooksInv, BooksInv', NEW a \in DOMAIN accounts \cap DOMAIN accounts',
         NEW t, NEW e \in Int, NEW d \in Int,
         opening'[a] = opening[a],
         \A u : u # t =>
           /\ u \in RowsOf(transactions', a) <=> u \in RowsOf(transactions, a)
           /\ u \in RowsOf(transactions, a) =>
                transactions'[u].amount = transactions[u].amount,
         Entry(a, t)' - Entry(a, t) = e,
         accounts'[a].balance = accounts[a].balance + d,
         d >= e,
         WholeCents(Amounts) => d = e
  PROVE  GapKept(a)
<1>1. /\ accounts[a].balance \in Int
      /\ a \in AccountIds
  BY GapInt
<1>2. LedgerBalance(a) \in Int /\ LedgerBalance(a)' = LedgerBalance(a) + e
  BY <1>1, LedgerMovesBy
<1>3. Gap(a) = accounts[a].balance - LedgerBalance(a)
  BY DEF Gap
<1>4. Gap(a)' = (accounts[a].balance + d) - (LedgerBalance(a) + e)
  BY <1>2 DEF Gap
<1> HIDE DEF Gap, LedgerBalance
<1> QED
  BY <1>1, <1>2, <1>3, <1>4 DEF GapKept

(* A step that touches neither keeps it.                                   *)
LEMMA GapUntouched ==
  ASSUME BooksInv, BooksInv', NEW a \in DOMAIN accounts \cap DOMAIN accounts',
         opening'[a] = opening[a],
         \A u :
           /\ u \in RowsOf(transactions', a) <=> u \in RowsOf(transactions, a)
           /\ u \in RowsOf(transactions, a) =>
                transactions'[u].amount = transactions[u].amount,
         accounts'[a].balance = accounts[a].balance
  PROVE  GapKept(a)
<1>1. PICK t : t \notin RowsOf(transactions, a)
  BY NoSetContainsEverything
<1>2. Entry(a, t)' - Entry(a, t) = 0
  BY <1>1 DEF Entry, RowsOf
<1>3. accounts'[a].balance = accounts[a].balance + 0
  BY GapInt
<1> QED
  BY <1>2, <1>3, GapKeptBy

(* The accounts server keeps the gap of every account it leaves, and       *)
(* opens an account with none.                                             *)
LEMMA AccountsGap ==
  ASSUME BooksInv, BooksInv', AccountsNext, NEW a \in DOMAIN accounts'
  PROVE  /\ a \in DOMAIN accounts => GapKept(a)
         /\ a \notin DOMAIN accounts => Gap(a)' = 0
<1>1. ASSUME NEW c \in Customers, NEW name \in OwnerNames,
             NEW balance \in OpeningBalances, CreateAccount(c, name, balance)
      PROVE  /\ a \in DOMAIN accounts => GapKept(a)
             /\ a \notin DOMAIN accounts => Gap(a)' = 0
  <2>1. PICK b \in AccountIds : CreateAccount(c, name, balance)!(b)
    BY <1>1 DEF CreateAccount
  <2>2. /\ b \notin DOMAIN accounts
        /\ transactions' = transactions
        /\ DOMAIN accounts' = DOMAIN accounts \cup {b}
        /\ accounts'[b].balance = Quantise(balance)
        /\ \A d \in DOMAIN accounts : accounts'[d] = accounts[d]
        /\ opening' = [opening EXCEPT ![b] = Quantise(balance)]
    BY <2>1 DEF Issue, Put, BooksInv, Inv, TypeOK
  <2>3. CASE a \in DOMAIN accounts
    <3>1. opening'[a] = opening[a]
      BY <2>2, <2>3, GapInt DEF BooksInv, Inv, TypeOK
    <3> QED
      BY <2>2, <2>3, <3>1, GapUntouched
  <2>4. CASE a \notin DOMAIN accounts
    <3>1. a = b
      BY <2>2, <2>4
    <3>2. RowsOf(transactions', a) = {}
      BY <2>2, <2>4 DEF RowsOf, BooksInv, Inv, NoOrphans
    <3>3. PICK g : g = [t \in RowsOf(transactions', a) |->
                          transactions'[t].amount]
      OBVIOUS
    <3>4. SumFunction(g) = 0
      BY <3>2, <3>3, SumEmpty
    <3>5. opening'[a] = Quantise(balance) /\ Quantise(balance) \in Int
      BY <2>2, <3>1, QuantiseInt, MoneyAssumption
         DEF BooksInv, Inv, TypeOK
    <3>6. LedgerBalance(a)' = opening'[a] + SumFunction(g)
      BY <3>3 DEF LedgerBalance, AmountsOf
    <3>7. accounts'[a].balance = Quantise(balance)
      BY <2>2, <3>1
    <3>8. Gap(a)' = accounts'[a].balance - LedgerBalance(a)'
      BY DEF Gap
    <3> QED
      BY <2>4, <3>4, <3>5, <3>6, <3>7, <3>8
  <2> QED
    BY <2>3, <2>4
<1>2. ASSUME NEW c \in Customers, NEW name \in OwnerNames,
             NEW b \in AccountIds, UpdateAccount(c, b, name)
      PROVE  a \in DOMAIN accounts /\ GapKept(a)
  <2>1. /\ DOMAIN accounts' = DOMAIN accounts
        /\ transactions' = transactions /\ opening' = opening
    BY <1>2 DEF UpdateAccount
  <2>2. accounts[a] \in Account
    BY <2>1 DEF BooksInv, Inv, TypeOK, Tables
  <2>3. accounts'[a].balance = accounts[a].balance
    BY <1>2, <2>1, <2>2 DEF UpdateAccount, Account
  <2> QED
    BY <2>1, <2>3, GapUntouched
<1>3. ASSUME NEW b \in AccountIds, DeleteAccount(b)
      PROVE  a \in DOMAIN accounts /\ GapKept(a)
  <2>1. /\ a \in DOMAIN accounts /\ a # b
        /\ accounts'[a] = accounts[a]
        /\ opening' = opening
        /\ transactions' = Remove(transactions, RowsOf(transactions, b))
    BY <1>3 DEF DeleteAccount, Remove
  <2>2. \A u :
          /\ u \in RowsOf(transactions', a) <=> u \in RowsOf(transactions, a)
          /\ u \in RowsOf(transactions, a) =>
               transactions'[u].amount = transactions[u].amount
    BY <2>1 DEF Remove, RowsOf
  <2> QED
    BY <2>1, <2>2, GapUntouched
<1> QED
  BY <1>1, <1>2, <1>3 DEF AccountsNext

(* The transactions server keeps the gap: it writes the rounded sum of a   *)
(* balance in cents and a difference, next to the rounded amount.          *)
LEMMA TransactionsGap ==
  ASSUME BooksInv, BooksInv', TransactionsNext, NEW a \in DOMAIN accounts'
  PROVE  a \in DOMAIN accounts /\ GapKept(a)
<1>1. ASSUME NEW c \in Customers, NEW b \in AccountIds, NEW x \in Amounts,
             CreateTransaction(c, b, x)
      PROVE  a \in DOMAIN accounts /\ GapKept(a)
  <2>1. PICK t \in TransactionIds : CreateTransaction(c, b, x)!(t)
    BY <1>1 DEF CreateTransaction
  <2>2. PICK z, q : z = accounts[b].balance /\ q = Quantise(z + x)
    OBVIOUS
  <2>3. /\ b \in DOMAIN accounts
        /\ t \notin DOMAIN transactions
        /\ x \in Int /\ z \in Int /\ Quantise(z) = z /\ z + x >= 0
        /\ WholeCents(Amounts) => Quantise(x) = x
        /\ transactions' = Put(transactions, t, [account_id |-> b,
                                                 amount |-> Quantise(x)])
        /\ opening' = opening
        /\ accounts' = [accounts EXCEPT ![b].balance = q]
    BY <2>1, <2>2, MoneyAssumption
       DEF Issue, Owns, Acceptable, SetBalance, BooksInv, Inv, TypeOK, Tables,
           Account, StoredInCents, WholeCents
  <2>4. /\ Quantise(x) \in Int /\ q \in Int
        /\ q >= z + Quantise(x)
        /\ WholeCents(Amounts) => q = z + Quantise(x)
    BY <2>2, <2>3, QuantiseInt, QuantiseShift
  <2>5. a \in DOMAIN accounts /\ opening'[a] = opening[a]
    BY <2>3
  <2>6. \A u : u # t =>
          /\ u \in RowsOf(transactions', a) <=> u \in RowsOf(transactions, a)
          /\ u \in RowsOf(transactions, a) =>
               transactions'[u].amount = transactions[u].amount
    BY <2>3 DEF Put, RowsOf
  <2>7. CASE a = b
    <3>1. Entry(a, t)' - Entry(a, t) = Quantise(x)
      BY <2>3, <2>4, <2>7 DEF Entry, Put
    <3>2. accounts[a] \in Account
      BY <2>5 DEF BooksInv, Inv, TypeOK, Tables
    <3>3. accounts'[a].balance = accounts[a].balance + (q - z)
      BY <2>2, <2>3, <2>4, <2>7, <3>2 DEF Account
    <3>4. /\ q - z \in Int /\ q - z >= Quantise(x)
          /\ WholeCents(Amounts) => q - z = Quantise(x)
      BY <2>3, <2>4
    <3> QED
      BY <2>4, <2>5, <2>6, <3>1, <3>3, <3>4, GapKeptBy
  <2>8. CASE a # b
    <3>1. accounts'[a] = accounts[a]
      BY <2>3, <2>8
    <3>2. t \notin RowsOf(transactions', a) /\ t \notin RowsOf(transactions, a)
      BY <2>3, <2>8 DEF Put, RowsOf
    <3> QED
      BY <2>5, <2>6, <3>1, <3>2, GapUntouched
  <2> QED
    BY <2>7, <2>8
<1>2. ASSUME NEW c \in Customers, NEW t \in TransactionIds, NEW x \in Amounts,
             UpdateTransaction(c, t, x)
      PROVE  a \in DOMAIN accounts /\ GapKept(a)
  <2>1. PICK b, y : b = transactions[t].account_id /\ y = transactions[t].amount
    OBVIOUS
  <2>2. PICK z, q : z = accounts[b].balance /\ q = Quantise(z + (x - y))
    OBVIOUS
  <2>3. /\ t \in DOMAIN transactions
        /\ b \in DOMAIN accounts
        /\ transactions[t] \in Transaction
        /\ x \in Int /\ y \in Int /\ Quantise(y) = y
        /\ z \in Int /\ Quantise(z) = z /\ z + (x - y) >= 0
        /\ WholeCents(Amounts) => Quantise(x) = x
        /\ transactions' = [transactions EXCEPT ![t].amount = Quantise(x)]
        /\ opening' = opening
        /\ accounts' = [accounts EXCEPT ![b].balance = q]
    BY <1>2, <2>1, <2>2, MoneyAssumption
       DEF UpdateTransaction, Owns, Acceptable, SetBalance, BooksInv, Inv,
           TypeOK, Tables, Account, Transaction, StoredInCents, WholeCents
  <2>4. /\ Quantise(x) \in Int /\ q \in Int
        /\ q >= (z - y) + Quantise(x)
        /\ WholeCents(Amounts) => q = (z - y) + Quantise(x)
    <3>1. z - y \in Int /\ Quantise(z - y) = z - y
      BY <2>3, CentsClosed
    <3>2. z + (x - y) = (z - y) + x
      BY <2>3
    <3> QED
      BY <2>2, <2>3, <3>1, <3>2, QuantiseInt, QuantiseShift
  <2>5. a \in DOMAIN accounts /\ opening'[a] = opening[a]
    BY <2>3
  <2>6. /\ DOMAIN transactions' = DOMAIN transactions
        /\ \A u \in DOMAIN transactions \ {t} :
             transactions'[u] = transactions[u]
        /\ transactions'[t].account_id = b
        /\ transactions'[t].amount = Quantise(x)
    BY <2>1, <2>3 DEF Transaction
  <2>7. \A u : u # t =>
          /\ u \in RowsOf(transactions', a) <=> u \in RowsOf(transactions, a)
          /\ u \in RowsOf(transactions, a) =>
               transactions'[u].amount = transactions[u].amount
    BY <2>6 DEF RowsOf
  <2>8. CASE a = b
    <3>1. Entry(a, t)' - Entry(a, t) = Quantise(x) - y
      BY <2>1, <2>3, <2>6, <2>8 DEF Entry
    <3>2. accounts[a] \in Account
      BY <2>5 DEF BooksInv, Inv, TypeOK, Tables
    <3>3. accounts'[a].balance = accounts[a].balance + (q - z)
      BY <2>2, <2>3, <2>4, <2>8, <3>2 DEF Account
    <3>4. /\ q - z \in Int /\ Quantise(x) - y \in Int
          /\ q - z >= Quantise(x) - y
          /\ WholeCents(Amounts) => q - z = Quantise(x) - y
      BY <2>3, <2>4
    <3> QED
      BY <2>5, <2>7, <3>1, <3>3, <3>4, GapKeptBy
  <2>9. CASE a # b
    <3>1. accounts'[a] = accounts[a]
      BY <2>3, <2>9
    <3>2. t \notin RowsOf(transactions', a) /\ t \notin RowsOf(transactions, a)
      BY <2>1, <2>6, <2>9 DEF RowsOf
    <3> QED
      BY <2>5, <2>7, <3>1, <3>2, GapUntouched
  <2> QED
    BY <2>8, <2>9
<1>3. ASSUME NEW c \in Customers, NEW t \in TransactionIds,
             DeleteTransaction(c, t)
      PROVE  a \in DOMAIN accounts /\ GapKept(a)
  <2>1. PICK b, y : b = transactions[t].account_id /\ y = transactions[t].amount
    OBVIOUS
  <2>2. PICK z, q : z = accounts[b].balance /\ q = Quantise(z - y)
    OBVIOUS
  <2>3. /\ t \in DOMAIN transactions
        /\ b \in DOMAIN accounts
        /\ y \in Int /\ Quantise(y) = y
        /\ z \in Int /\ Quantise(z) = z
        /\ transactions' = Remove(transactions, {t})
        /\ opening' = opening
        /\ accounts' = [accounts EXCEPT ![b].balance = q]
    BY <1>3, <2>1, <2>2
       DEF DeleteTransaction, Owns, SetBalance, BooksInv, Inv, TypeOK,
           Tables, Account, Transaction, StoredInCents
  <2>4. q = z - y
    BY <2>2, <2>3, CentsClosed
  <2>5. a \in DOMAIN accounts /\ opening'[a] = opening[a]
    BY <2>3
  <2>6. \A u : u # t =>
          /\ u \in RowsOf(transactions', a) <=> u \in RowsOf(transactions, a)
          /\ u \in RowsOf(transactions, a) =>
               transactions'[u].amount = transactions[u].amount
    BY <2>3 DEF Remove, RowsOf
  <2>7. CASE a = b
    <3>1. Entry(a, t)' - Entry(a, t) = -y
      BY <2>1, <2>3, <2>7 DEF Entry, Remove
    <3>2. accounts[a] \in Account
      BY <2>5 DEF BooksInv, Inv, TypeOK, Tables
    <3>3. accounts'[a].balance = accounts[a].balance + (-y)
      BY <2>2, <2>3, <2>4, <2>7, <3>2 DEF Account
    <3>4. -y \in Int /\ -y >= -y
      BY <2>3
    <3> QED
      BY <2>5, <2>6, <3>1, <3>3, <3>4, GapKeptBy
  <2>8. CASE a # b
    <3>1. accounts'[a] = accounts[a]
      BY <2>3, <2>8
    <3>2. t \notin RowsOf(transactions', a) /\ t \notin RowsOf(transactions, a)
      BY <2>1, <2>3, <2>8 DEF Remove, RowsOf
    <3> QED
      BY <2>5, <2>6, <3>1, <3>2, GapUntouched
  <2> QED
    BY <2>7, <2>8
<1> QED
  BY <1>1, <1>2, <1>3 DEF TransactionsNext

(* No call lets the balance of an account fall behind its ledger, and with *)
(* amounts in whole cents none separates the two.                          *)
LEMMA GapStep ==
  ASSUME BooksInv, BooksInv', [Next]_vars, NEW a \in DOMAIN accounts'
  PROVE  /\ a \in DOMAIN accounts => GapKept(a)
         /\ a \notin DOMAIN accounts => Gap(a)' = 0
<1>1. CASE ServiceNext \/ UNCHANGED vars
  <2>1. UNCHANGED <<accounts, transactions, opening>>
    BY <1>1 DEF ServiceNext, CreateServiceRequest, UpdateDetails, SetStatus,
                DeleteServiceRequest, vars
  <2> QED
    BY <2>1, GapUntouched
<1> QED
  BY <1>1, AccountsGap, TransactionsGap DEF Next, NoEffect

(* The two invariants in terms of the gap.                                 *)
LEMMA GapsOpen ==
  BooksInv =>
    /\ BalanceNeverBelowLedger <=> \A a \in DOMAIN accounts : Gap(a) >= 0
    /\ LedgerInSync <=> \A a \in DOMAIN accounts : Gap(a) = 0
    /\ \A a \in DOMAIN accounts : Gap(a) \in Int
<1> SUFFICES ASSUME BooksInv, NEW a \in DOMAIN accounts
             PROVE  /\ accounts[a].balance >= LedgerBalance(a) <=> Gap(a) >= 0
                    /\ accounts[a].balance = LedgerBalance(a) <=> Gap(a) = 0
                    /\ Gap(a) \in Int
  BY DEF BalanceNeverBelowLedger, LedgerInSync
<1>1. accounts[a].balance \in Int /\ LedgerBalance(a) \in Int
  BY GapInt
<1> QED
  BY <1>1 DEF Gap

(* And after a step.                                                       *)
LEMMA GapsOpenNext ==
  BooksInv' =>
    /\ (BalanceNeverBelowLedger' <=> \A a \in DOMAIN accounts' : Gap(a)' >= 0)
    /\ (LedgerInSync' <=> \A a \in DOMAIN accounts' : Gap(a)' = 0)
    /\ \A a \in DOMAIN accounts' : Gap(a)' \in Int
<1>1. (BooksInv =>
         /\ BalanceNeverBelowLedger <=> \A a \in DOMAIN accounts : Gap(a) >= 0
         /\ LedgerInSync <=> \A a \in DOMAIN accounts : Gap(a) = 0
         /\ \A a \in DOMAIN accounts : Gap(a) \in Int)'
  BY GapsOpen, PTL
<1> QED
  BY <1>1

(* The table of transactions is finite in every state.                     *)
LEMMA BooksInvariance == Spec => []BooksInv
<1>1. Init => BooksInv
  BY InitInv, FS_EmptySet DEF Init, BooksInv
<1>2. BooksInv /\ [Next]_vars => BooksInv'
  BY StaysFinite
<1> QED
  BY <1>1, <1>2, PTL DEF Spec

(* However fine the amounts are, the balance of an account, rounded on its *)
(* own, never falls behind the sum of the rounded amounts of its ledger.   *)
THEOREM NeverBehind == Spec => []BalanceNeverBelowLedger
<1>1. Init => BalanceNeverBelowLedger
  BY DEF Init, BalanceNeverBelowLedger
<1>2. ASSUME BooksInv, BooksInv', BalanceNeverBelowLedger, [Next]_vars
      PROVE  BalanceNeverBelowLedger'
  <2> SUFFICES ASSUME NEW a \in DOMAIN accounts' PROVE Gap(a)' >= 0
    BY <1>2, GapsOpenNext
  <2>2. CASE a \in DOMAIN accounts
    <3>1. Gap(a) >= 0 /\ Gap(a)' >= Gap(a)
      BY <1>2, <2>2, GapsOpen, GapStep DEF GapKept
    <3>2. Gap(a) \in Int /\ Gap(a)' \in Int
      BY <1>2, <2>2, GapsOpen, GapsOpenNext
    <3> QED
      BY <3>1, <3>2
  <2>3. CASE a \notin DOMAIN accounts
    BY <1>2, <2>3, GapStep
  <2> QED
    BY <2>2, <2>3
<1> QED
  BY <1>1, <1>2, BooksInvariance, PTL DEF Spec

(* "Keep balance in sync with the transaction ledger": as long as amounts  *)
(* are whole cents, the balance of every account is its opening balance    *)
(* plus the amounts of its transactions, after any calls.                  *)
THEOREM BooksBalance == WholeCents(Amounts) => (Spec => []LedgerInSync)
<1> SUFFICES ASSUME WholeCents(Amounts) PROVE Spec => []LedgerInSync
  OBVIOUS
<1>1. Init => LedgerInSync
  BY DEF Init, LedgerInSync
<1>2. ASSUME BooksInv, BooksInv', LedgerInSync, [Next]_vars
      PROVE  LedgerInSync'
  <2>1. \A a \in DOMAIN accounts' : Gap(a)' = 0
    BY <1>2, GapsOpen, GapStep DEF GapKept
  <2> QED
    BY <1>2, <2>1, GapsOpenNext
<1> QED
  BY <1>1, <1>2, BooksInvariance, PTL DEF Spec
=============================================================================
