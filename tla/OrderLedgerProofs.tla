-------------------------- MODULE OrderLedgerProofs --------------------------
(***************************************************************************)
(* The stock account of OrderLedger balances in every history of the       *)
(* atomic OrderBook, for any number of products, orders and shops, and of  *)
(* orders in force.  The sum over the orders is a fold; the library's      *)
(* induction theorems cannot be cited for it (they take a predicate), so   *)
(* what it computes is proved first, with sets in the place of predicates. *)
(***************************************************************************)
EXTENDS OrderLedger, FiniteSetTheorems, TLAPS

------------------------------------------------------------------------------
(* Sums over finite sets.                                                  *)

(* Induction over the subsets of a finite set: what holds of a set when it *)
(* holds of all its proper subsets holds of every one of them.             *)
LEMMA SubsetInduction ==
  ASSUME NEW S, IsFiniteSet(S), NEW Good,
         \A T \in SUBSET S : (\A U \in SUBSET T : U # T => U \in Good) => T \in Good
  PROVE  \A T \in SUBSET S : T \in Good
<1>. DEFINE Bad == {T \in SUBSET S : T \notin Good}
<1>1. IsWellFoundedOn(StrictSubsetOrdering(S), SUBSET S)
  BY FS_StrictSubsetOrderingWellFounded, FS_FiniteSubsetsOfFinite
<1>2. ASSUME Bad # {} PROVE FALSE
  <2>1. \E T \in Bad : \A U \in Bad : ~(<<U, T>> \in StrictSubsetOrdering(S))
    <3>. Bad \subseteq SUBSET S
      OBVIOUS
    <3>. HIDE DEF Bad
    <3>. QED
      BY <1>1, <1>2, WFMin
  <2>2. PICK T \in Bad : \A U \in Bad : ~(<<U, T>> \in StrictSubsetOrdering(S))
    BY <2>1
  <2>3. ASSUME NEW U \in SUBSET T, U # T PROVE U \in Good
    BY <2>2, <2>3 DEF StrictSubsetOrdering
  <2>. QED
    BY <2>2, <2>3
<1>. QED
  BY <1>2

(* The element the fold takes next, and the function it computes.          *)
First(T) == CHOOSE x \in T : TRUE

Accumulates(g, S, f) ==
  f = [T \in SUBSET S |-> IF T = {} THEN 0 ELSE g[First(T)] + f[T \ {First(T)}]]

LEMMA FirstIn == \A T : T # {} => First(T) \in T
BY DEF First

(* The library's sum, unfolded.                                            *)
LEMMA SumIs ==
  ASSUME NEW g, NEW S
  PROVE  SumFunctionOnSet(g, S) = (CHOOSE f : Accumulates(g, S, f))[S]
BY DEF SumFunctionOnSet, FoldFunctionOnSet, MapThenFoldSet, Accumulates, First

(* Its value, set by set.                                                  *)
LEMMA AccumulatesIs ==
  ASSUME NEW g, NEW S, NEW f, Accumulates(g, S, f)
  PROVE  \A T \in SUBSET S : f[T] = IF T = {} THEN 0 ELSE g[First(T)] + f[T \ {First(T)}]
BY DEF Accumulates

(* Two of them agree where both are defined.                               *)
LEMMA AccumulatesOnce ==
  ASSUME NEW g, NEW S, IsFiniteSet(S), NEW A, NEW B, NEW f, NEW h,
         S \subseteq A, S \subseteq B, Accumulates(g, A, f), Accumulates(g, B, h)
  PROVE  f[S] = h[S]
<1>. DEFINE Good == {T \in SUBSET S : f[T] = h[T]}
<1>1. ASSUME NEW T \in SUBSET S, \A U \in SUBSET T : U # T => U \in Good
      PROVE  T \in Good
  <2>1. f[T] = IF T = {} THEN 0 ELSE g[First(T)] + f[T \ {First(T)}]
    BY AccumulatesIs
  <2>2. h[T] = IF T = {} THEN 0 ELSE g[First(T)] + h[T \ {First(T)}]
    BY AccumulatesIs
  <2>3. T # {} => f[T \ {First(T)}] = h[T \ {First(T)}]
    BY <1>1, FirstIn
  <2>. QED
    BY <2>1, <2>2, <2>3
<1>2. S \in Good
  <2>. HIDE DEF Good
  <2>. QED
    BY <1>1, SubsetInduction
<1>. QED
  BY <1>2

(* There is one for every finite set: its values are the sums themselves.  *)
LEMMA Accumulable ==
  ASSUME NEW g, NEW S, IsFiniteSet(S)
  PROVE  \E f : Accumulates(g, S, f)
<1>. DEFINE Good == {T \in SUBSET S : \E f : Accumulates(g, T, f)}
<1>1. ASSUME NEW T \in SUBSET S, \A U \in SUBSET T : U # T => U \in Good
      PROVE  T \in Good
  <2>. DEFINE F == [U \in SUBSET T |-> IF U = {} THEN 0
                                       ELSE g[First(U)] + SumFunctionOnSet(g, U \ {First(U)})]
  <2>1. ASSUME NEW U \in SUBSET T, U # T PROVE F[U] = SumFunctionOnSet(g, U)
    <3>1. PICK f : f = (CHOOSE k : Accumulates(g, U, k)) /\ Accumulates(g, U, f)
      BY <1>1, <2>1
    <3>2. f[U] = IF U = {} THEN 0 ELSE g[First(U)] + f[U \ {First(U)}]
      BY <3>1, AccumulatesIs
    <3>3. ASSUME U # {} PROVE f[U \ {First(U)}] = SumFunctionOnSet(g, U \ {First(U)})
      <4>. DEFINE V == U \ {First(U)}
      <4>1. V \in SUBSET T /\ V # T /\ V \subseteq U
        BY <2>1, <3>3, FirstIn
      <4>2. PICK h : h = (CHOOSE k : Accumulates(g, V, k)) /\ Accumulates(g, V, h)
        BY <1>1, <4>1
      <4>3. IsFiniteSet(V)
        BY <4>1, FS_Subset
      <4>4. f[V] = h[V]
        <5>1. Accumulates(g, U, f) /\ Accumulates(g, V, h) /\ V \subseteq U /\ V \subseteq V
          BY <3>1, <4>1, <4>2
        <5>. HIDE DEF V
        <5>. QED
          BY <4>3, <5>1, AccumulatesOnce
      <4>. QED
        BY <4>2, <4>4, SumIs
    <3>4. SumFunctionOnSet(g, U) = f[U]
      BY <3>1, SumIs
    <3>. QED
      BY <3>2, <3>3, <3>4
  <2>2. ASSUME NEW U \in SUBSET T, U # {}
        PROVE SumFunctionOnSet(g, U \ {First(U)}) = F[U \ {First(U)}]
    BY <2>1, <2>2, FirstIn
  <2>3. F = [U \in SUBSET T |-> IF U = {} THEN 0 ELSE g[First(U)] + F[U \ {First(U)}]]
    BY <2>2
  <2>4. Accumulates(g, T, F)
    BY <2>3 DEF Accumulates
  <2>. QED
    BY <2>4
<1>2. S \in Good
  <2>. HIDE DEF Good
  <2>. QED
    BY <1>1, SubsetInduction
<1>. QED
  BY <1>2

(* Hence the sum is what its recursive definition says.                    *)
LEMMA SumUnfolds ==
  ASSUME NEW g, NEW S, IsFiniteSet(S)
  PROVE  SumFunctionOnSet(g, S)
           = IF S = {} THEN 0 ELSE g[First(S)] + SumFunctionOnSet(g, S \ {First(S)})
<1>1. PICK f : f = (CHOOSE k : Accumulates(g, S, k)) /\ Accumulates(g, S, f)
  BY Accumulable
<1>2. f[S] = IF S = {} THEN 0 ELSE g[First(S)] + f[S \ {First(S)}]
  BY <1>1, AccumulatesIs
<1>3. ASSUME S # {} PROVE f[S \ {First(S)}] = SumFunctionOnSet(g, S \ {First(S)})
  <2>. DEFINE V == S \ {First(S)}
  <2>1. IsFiniteSet(V) /\ V \subseteq S
    BY FS_Subset
  <2>2. PICK h : h = (CHOOSE k : Accumulates(g, V, k)) /\ Accumulates(g, V, h)
    BY <2>1, Accumulable
  <2>3. f[V] = h[V]
    <3>1. Accumulates(g, S, f) /\ Accumulates(g, V, h) /\ V \subseteq V
      BY <1>1, <2>2
    <3>. HIDE DEF V
    <3>. QED
      BY <2>1, <3>1, AccumulatesOnce
  <2>. QED
    BY <2>2, <2>3, SumIs
<1>. QED
  BY <1>1, <1>2, <1>3, SumIs

(* It is an integer.                                                       *)
LEMMA SumType ==
  ASSUME NEW S, IsFiniteSet(S), NEW g, \A x \in S : g[x] \in Int
  PROVE  \A T \in SUBSET S : SumFunctionOnSet(g, T) \in Int
<1>. DEFINE Good == {T \in SUBSET S : SumFunctionOnSet(g, T) \in Int}
<1>1. ASSUME NEW T \in SUBSET S, \A U \in SUBSET T : U # T => U \in Good
      PROVE  T \in Good
  <2>1. SumFunctionOnSet(g, T)
            = IF T = {} THEN 0 ELSE g[First(T)] + SumFunctionOnSet(g, T \ {First(T)})
    BY SumUnfolds, FS_Subset
  <2>2. T # {} => g[First(T)] \in Int /\ SumFunctionOnSet(g, T \ {First(T)}) \in Int
    BY <1>1, FirstIn
  <2>. QED
    BY <2>1, <2>2
<1>2. \A T \in SUBSET S : T \in Good
  <2>. HIDE DEF Good
  <2>. QED
    BY <1>1, SubsetInduction
<1>. QED
  BY <1>2

(* Whichever element is taken out first, the sum is the same.              *)
LEMMA SumWithout ==
  ASSUME NEW S, IsFiniteSet(S), NEW g, \A x \in S : g[x] \in Int
  PROVE  \A T \in SUBSET S : \A y \in T :
              SumFunctionOnSet(g, T) = g[y] + SumFunctionOnSet(g, T \ {y})
<1>. DEFINE Good == {T \in SUBSET S : \A y \in T :
                                           SumFunctionOnSet(g, T) = g[y] + SumFunctionOnSet(g, T \ {y})}
<1>1. ASSUME NEW T \in SUBSET S, \A U \in SUBSET T : U # T => U \in Good
      PROVE  T \in Good
  <2>. SUFFICES ASSUME NEW y \in T
                PROVE SumFunctionOnSet(g, T) = g[y] + SumFunctionOnSet(g, T \ {y})
    OBVIOUS
  <2>. DEFINE x == First(T)
  <2>1. x \in T /\ SumFunctionOnSet(g, T) = g[x] + SumFunctionOnSet(g, T \ {x})
    BY SumUnfolds, FS_Subset, FirstIn
  <2>2. CASE x = y
    BY <2>1, <2>2
  <2>3. CASE x # y
    <3>1. SumFunctionOnSet(g, T \ {x}) = g[y] + SumFunctionOnSet(g, (T \ {x}) \ {y})
      BY <1>1, <2>1, <2>3
    <3>2. SumFunctionOnSet(g, T \ {y}) = g[x] + SumFunctionOnSet(g, (T \ {y}) \ {x})
      BY <1>1, <2>1, <2>3
    <3>3. SumFunctionOnSet(g, (T \ {x}) \ {y}) = SumFunctionOnSet(g, (T \ {y}) \ {x})
      <4>1. (T \ {x}) \ {y} = (T \ {y}) \ {x}
        OBVIOUS
      <4>. QED
        BY <4>1
    <3>4. g[x] \in Int /\ g[y] \in Int /\ SumFunctionOnSet(g, (T \ {y}) \ {x}) \in Int
      BY <2>1, SumType
    <3>. HIDE DEF x
    <3>. QED
      BY <2>1, <3>1, <3>2, <3>3, <3>4
  <2>. QED
    BY <2>2, <2>3
<1>2. \A T \in SUBSET S : T \in Good
  <2>. HIDE DEF Good
  <2>. QED
    BY <1>1, SubsetInduction
<1>. QED
  BY <1>2

(* It depends on the values at its elements only.                          *)
LEMMA SumAlike ==
  ASSUME NEW S, IsFiniteSet(S), NEW g, NEW h, \A x \in S : g[x] = h[x]
  PROVE  SumFunctionOnSet(g, S) = SumFunctionOnSet(h, S)
<1>. DEFINE Good == {T \in SUBSET S : SumFunctionOnSet(g, T) = SumFunctionOnSet(h, T)}
<1>1. ASSUME NEW T \in SUBSET S, \A U \in SUBSET T : U # T => U \in Good
      PROVE  T \in Good
  <2>1. /\ SumFunctionOnSet(g, T)
            = IF T = {} THEN 0 ELSE g[First(T)] + SumFunctionOnSet(g, T \ {First(T)})
        /\ SumFunctionOnSet(h, T)
                  = IF T = {} THEN 0 ELSE h[First(T)] + SumFunctionOnSet(h, T \ {First(T)})
    BY SumUnfolds, FS_Subset
  <2>2. T # {} => /\ g[First(T)] = h[First(T)]
                  /\ SumFunctionOnSet(g, T \ {First(T)}) = SumFunctionOnSet(h, T \ {First(T)})
    BY <1>1, FirstIn
  <2>. QED
    BY <2>1, <2>2
<1>2. S \in Good
  <2>. HIDE DEF Good
  <2>. QED
    BY <1>1, SubsetInduction
<1>. QED
  BY <1>2

(* One element more adds its value.                                        *)
LEMMA SumAdds ==
  ASSUME NEW S, IsFiniteSet(S), NEW x, x \notin S, NEW g, NEW h,
         \A y \in S : g[y] = h[y] /\ g[y] \in Int, h[x] \in Int
  PROVE  SumFunctionOnSet(h, S \cup {x}) = SumFunctionOnSet(g, S) + h[x]
<1>. DEFINE T == S \cup {x}
<1>1. IsFiniteSet(T) /\ T \ {x} = S /\ \A y \in T : h[y] \in Int
  BY FS_AddElement
<1>2. SumFunctionOnSet(h, T) = h[x] + SumFunctionOnSet(h, T \ {x})
  BY <1>1, SumWithout
<1>3. SumFunctionOnSet(h, S) = SumFunctionOnSet(g, S)
  BY SumAlike
<1>4. SumFunctionOnSet(g, S) \in Int
  BY SumType
<1>. HIDE DEF T
<1>5. SumFunctionOnSet(h, T) = h[x] + SumFunctionOnSet(g, S)
  BY <1>1, <1>2, <1>3
<1>6. SumFunctionOnSet(h, T) = SumFunctionOnSet(g, S) + h[x]
  BY <1>4, <1>5
<1>. QED
  BY <1>6 DEF T

------------------------------------------------------------------------------
(* The account.                                                            *)

(***************************************************************************)
(* The inductive invariant: the orders in force are finitely many, since a *)
(* step puts one in force at most, and their sum balances.                 *)
(***************************************************************************)
LedgerInv ==
  /\ BookTypeOK
  /\ IsFiniteSet(Live)
  /\ StockConserved

(* Every order has a cart of whole units, the absent ones an empty one.    *)
LEMMA CartsAreWhole ==
  /\ \A c \in Carts \cup {NoLines} : c \in [Products -> Nat]
  /\ \A row \in OrderRow : row.cart \in [Products -> Nat]
  /\ NoOrder \in OrderRow
  /\ \A row \in OrderRow : row.status = "none" => row = NoOrder
<1>1. \A c \in Carts \cup {NoLines} : c \in [Products -> Nat]
  BY OrderDataAssumption DEF Carts, NoLines
<1>2. \A row \in OrderRow : row.cart \in Carts \cup {NoLines}
  BY DEF OrderRow, NoOrder
<1>. QED
  BY <1>1, <1>2 DEF OrderRow, NoOrder, OrderStatus

(* What an order takes of a product is a natural number.                   *)
LEMMA UnitsAre ==
  ASSUME BookTypeOK, NEW p \in Products
  PROVE  \A o \in Orders : Units(p)[o] = order[o].cart[p] /\ Units(p)[o] \in Nat
BY CartsAreWhole DEF Units, BookTypeOK

(* A sale, a return and an edit of a row.                                  *)
LEMMA RowsAre ==
  ASSUME NEW row \in ProductRow, NEW q \in Nat
  PROVE  /\ Deducted(row, q) \in ProductRow /\ Deducted(row, q).stock = row.stock - q
         /\ PutBack(row, q) \in ProductRow /\ PutBack(row, q).stock = row.stock + q
BY DEF Deducted, PutBack, ProductRow, ProductStatus

Idle == {"none", "cancelled"}   \* of orders whose goods are on the shelf

(* A step that puts row in the place of one order's, as the account sees   *)
(* it: the order comes to be in force, ceases to be, or neither.           *)
LEMMA OneOrderMoves ==
  ASSUME LedgerInv, NEW o \in Orders, NEW row \in OrderRow, order' = [order EXCEPT ![o] = row]
  PROVE  /\ order' \in [Orders -> OrderRow] /\ IsFiniteSet(Live')
         /\ \A p \in Products :
              /\ Sold(p) \in Int
              /\ order[o].status \in Idle /\ row.status \notin Idle
                   => Sold(p)' = Sold(p) + row.cart[p]
              /\ order[o].status \notin Idle /\ row.status \in Idle
                   => Sold(p)' = Sold(p) - order[o].cart[p]
              /\ order[o].status \in Idle /\ row.status \in Idle => Sold(p)' = Sold(p)
              /\ order[o].status \notin Idle /\ row.status \notin Idle /\ row.cart = order[o].cart
                   => Sold(p)' = Sold(p)
<1>. DEFINE live  == order[o].status \notin Idle
            stays == row.status \notin Idle
            rest  == Live \ {o}
<1>1. order \in [Orders -> OrderRow] /\ order' \in [Orders -> OrderRow]
      /\ order'[o] = row /\ \A q \in Orders \ {o} : order'[q] = order[q]
  BY DEF LedgerInv, BookTypeOK
<1>2. /\ Live  = IF live THEN rest \cup {o} ELSE rest
      /\ Live' = IF stays THEN rest \cup {o} ELSE rest
      /\ o \notin rest /\ rest \subseteq Orders
  BY <1>1 DEF Live, Idle
<1>3. IsFiniteSet(rest) /\ IsFiniteSet(rest \cup {o})
  BY FS_RemoveElement, FS_AddElement DEF LedgerInv
<1>4. ASSUME NEW p \in Products
      PROVE  /\ \A q \in rest : Units(p)[q] = Units(p)'[q] /\ Units(p)[q] \in Int
             /\ Units(p)[o] = order[o].cart[p] /\ Units(p)'[o] = row.cart[p]
             /\ Units(p)[o] \in Int /\ Units(p)'[o] \in Int
  BY <1>1, <1>2, CartsAreWhole DEF Units
<1>5. ASSUME NEW p \in Products
      PROVE  /\ SumFunctionOnSet(Units(p), rest) \in Int
             /\ SumFunctionOnSet(Units(p)', rest) = SumFunctionOnSet(Units(p), rest)
             /\ SumFunctionOnSet(Units(p), rest \cup {o})
                  = SumFunctionOnSet(Units(p), rest) + Units(p)[o]
             /\ SumFunctionOnSet(Units(p)', rest \cup {o})
                  = SumFunctionOnSet(Units(p), rest) + Units(p)'[o]
  <2>. DEFINE g == Units(p)
              h == Units(p)'
  <2>1. /\ \A q \in rest : g[q] = h[q] /\ g[q] \in Int
        /\ g[o] \in Int /\ h[o] \in Int /\ IsFiniteSet(rest) /\ o \notin rest
    BY <1>2, <1>3, <1>4
  <2>. HIDE DEF g, h, rest
  <2>2. SumFunctionOnSet(g, rest) \in Int
    BY <2>1, SumType
  <2>3. SumFunctionOnSet(h, rest) = SumFunctionOnSet(g, rest)
    BY <2>1, SumAlike
  <2>4. SumFunctionOnSet(g, rest \cup {o}) = SumFunctionOnSet(g, rest) + g[o]
    BY <2>1, SumAdds
  <2>5. SumFunctionOnSet(h, rest \cup {o}) = SumFunctionOnSet(g, rest) + h[o]
    BY <2>1, SumAdds
  <2>. QED
    BY <2>2, <2>3, <2>4, <2>5 DEF g, h
<1>6. IsFiniteSet(Live')
  BY <1>2, <1>3
<1>7. ASSUME NEW p \in Products
      PROVE  /\ Sold(p) \in Int
             /\ ~live /\ stays => Sold(p)' = Sold(p) + row.cart[p]
             /\ live /\ ~stays => Sold(p)' = Sold(p) - order[o].cart[p]
             /\ ~live /\ ~stays => Sold(p)' = Sold(p)
             /\ live /\ stays /\ row.cart = order[o].cart => Sold(p)' = Sold(p)
  <2>. DEFINE before == SumFunctionOnSet(Units(p), rest)
  <2>1. Sold(p) = IF live THEN before + Units(p)[o] ELSE before
    BY <1>2, <1>5 DEF Sold
  <2>2. Sold(p)' = IF stays THEN before + Units(p)'[o] ELSE before
    <3>1. Sold(p)' = SumFunctionOnSet(Units(p)', Live')
      BY DEF Sold
    <3>. QED
      BY <1>2, <1>5, <3>1
  <2>3. before \in Int
    BY <1>5
  <2>. HIDE DEF before, live, stays, rest
  <2>. QED
    BY <1>4, <2>1, <2>2, <2>3
<1>. QED
  BY <1>1, <1>6, <1>7

(* Nothing has been sold.                                                  *)
LEMMA AccountInit == Init => LedgerInv
<1>. SUFFICES ASSUME Init PROVE LedgerInv
  OBVIOUS
<1>1. product \in [Products -> ProductRow] /\ \A p \in Products : product[p].stock \in Int
  <2>1. ASSUME NEW v \in StockLevels
        PROVE  [stock |-> v, status |-> "active"] \in ProductRow
    BY OrderDataAssumption DEF ProductRow, ProductStatus
  <2>. QED
    BY <2>1 DEF Init, ProductRow
<1>2. BookTypeOK
  BY <1>1, CartsAreWhole DEF Init, BookTypeOK
<1>3. Live = {} /\ IsFiniteSet(Live)
  <2>1. Live = {}
    BY DEF Init, Live, NoOrder
  <2>. QED
    BY <2>1, FS_EmptySet
<1>4. \A p \in Products : Sold(p) = 0
  BY <1>3, SumUnfolds DEF Sold
<1>5. StockConserved
  BY <1>1, <1>4 DEF StockConserved, Balanced, Init
<1>. QED
  BY <1>2, <1>3, <1>5 DEF LedgerInv

(* A step that leaves the orders leaves what is sold.                      *)
LEMMA OrdersRest ==
  ASSUME LedgerInv, order' = order
  PROVE  /\ Live' = Live
         /\ \A p \in Products : Sold(p)' = Sold(p) /\ Sold(p) \in Int
<1>1. Live' = Live /\ \A p \in Products : Units(p)' = Units(p)
  BY DEF Live, Units
<1>2. ASSUME NEW p \in Products PROVE Sold(p) \in Int
  <2>1. IsFiniteSet(Live) /\ \A o \in Live : Units(p)[o] \in Int
    BY UnitsAre DEF LedgerInv, Live
  <2>. QED
    BY <2>1, SumType DEF Sold
<1>. QED
  BY <1>1, <1>2 DEF Sold

(* What is placed is taken from the shelf.                                 *)
LEMMA PlaceKeeps ==
  ASSUME LedgerInv, NEW o \in Orders, NEW s \in Sellers, NEW c \in Carts, Place(o, s, c)
  PROVE  LedgerInv'
<1>. DEFINE row == [status |-> "pending", cart |-> c]
<1>1. /\ c \in [Products -> Nat] /\ row \in OrderRow
      /\ order \in [Orders -> OrderRow] /\ product \in [Products -> ProductRow]
      /\ supply \in [Products -> Int] /\ reopened \subseteq Orders
  BY CartsAreWhole DEF LedgerInv, BookTypeOK, OrderRow, OrderStatus
<1>2. /\ order' \in [Orders -> OrderRow] /\ IsFiniteSet(Live')
      /\ \A p \in Products : Sold(p)' = Sold(p) + c[p] /\ Sold(p) \in Int
  <2>1. /\ order' = [order EXCEPT ![o] = row] /\ row.cart = c
        /\ order[o].status = "none" /\ row.status = "pending"
    BY DEF Place, NoOrder
  <2>2. row \in OrderRow /\ order[o].status \in Idle /\ row.status \notin Idle
    BY <1>1, <2>1 DEF Idle
  <2>. HIDE DEF row
  <2>. QED
    BY <2>1, <2>2, OneOrderMoves
<1>3. ASSUME NEW p \in Products
      PROVE  product'[p] \in ProductRow /\ product'[p].stock = product[p].stock - c[p]
  <2>1. product[p] \in ProductRow /\ product[p].stock \in Int /\ c[p] \in Nat
    BY <1>1 DEF ProductRow
  <2>2. CASE c[p] > 0
    BY <2>1, <2>2, RowsAre DEF Place, Lines
  <2>3. CASE c[p] = 0
    BY <2>1, <2>3 DEF Place, Lines
  <2>. QED
    BY <2>1, <2>2, <2>3
<1>4. BookTypeOK'
  BY <1>1, <1>2, <1>3 DEF Place, BookTypeOK, LedgerInv
<1>5. ASSUME NEW p \in Products, \A q \in reopened' : order'[q].cart[p] = 0
      PROVE  Balanced(p)'
  <2>1. \A q \in reopened : order[q].cart[p] = 0
    BY <1>1, <1>5 DEF Place, NoOrder, NoLines
  <2>2. product[p].stock + Sold(p) = supply[p]
    BY <2>1 DEF LedgerInv, StockConserved, Balanced
  <2>3. product[p].stock \in Int /\ c[p] \in Int
    BY <1>1 DEF ProductRow
  <2>. QED
    BY <1>2, <1>3, <2>2, <2>3 DEF Balanced, Place
<1>. QED
  BY <1>2, <1>4, <1>5 DEF LedgerInv, StockConserved

(* An order that is moved gives its units back as it ceases to be in force,*)
(* unless it was reopened: then its products are exempt.                   *)
LEMMA MovingKeeps ==
  ASSUME LedgerInv, NEW o \in Orders, NEW to \in OrderStatus, order[o] # NoOrder,
         order' = [order EXCEPT ![o].status = to],
         product' = IF Restores(order[o].status, to) THEN Returned(order[o].cart) ELSE product,
         order[o].status = "cancelled" /\ to # "cancelled" => o \in reopened',
         reopened \subseteq reopened', reopened' \subseteq reopened \cup {o},
         UNCHANGED <<shop, supply>>
  PROVE  LedgerInv'
<1>. DEFINE from == order[o].status
            c    == order[o].cart
            row  == [order[o] EXCEPT !.status = to]
<1>1. /\ order \in [Orders -> OrderRow] /\ product \in [Products -> ProductRow]
      /\ supply \in [Products -> Int] /\ reopened \subseteq Orders
  BY DEF LedgerInv, BookTypeOK
<1>2. /\ c \in [Products -> Nat] /\ from \in OrderStatus
      /\ row \in OrderRow /\ row.status = to /\ row.cart = c
  <2>1. order[o] \in [status : OrderStatus, cart : Carts]
    BY <1>1 DEF OrderRow
  <2>. QED
    BY <2>1, CartsAreWhole DEF OrderRow
<1>3. order' = [order EXCEPT ![o] = row]
  OBVIOUS
<1>4. /\ order' \in [Orders -> OrderRow] /\ IsFiniteSet(Live')
      /\ \A p \in Products :
           /\ Sold(p) \in Int
           /\ from = "cancelled" /\ to # "cancelled" => Sold(p)' = Sold(p) + c[p]
           /\ from # "cancelled" /\ to = "cancelled" => Sold(p)' = Sold(p) - c[p]
           /\ (from = "cancelled" <=> to = "cancelled") => Sold(p)' = Sold(p)
  <2>1. from # "none" /\ to # "none"
    BY <1>2 DEF OrderStatus
  <2>2. /\ from \in Idle <=> from = "cancelled"
        /\ row.status \in Idle <=> to = "cancelled"
    BY <1>2, <2>1 DEF Idle
  <2>3. row \in OrderRow /\ row.cart = order[o].cart /\ order' = [order EXCEPT ![o] = row]
    BY <1>2, <1>3
  <2>4. /\ order' \in [Orders -> OrderRow] /\ IsFiniteSet(Live')
        /\ \A p \in Products :
             /\ Sold(p) \in Int
             /\ from \in Idle /\ row.status \notin Idle => Sold(p)' = Sold(p) + row.cart[p]
             /\ from \notin Idle /\ row.status \in Idle => Sold(p)' = Sold(p) - c[p]
             /\ from \in Idle /\ row.status \in Idle => Sold(p)' = Sold(p)
             /\ from \notin Idle /\ row.status \notin Idle => Sold(p)' = Sold(p)
    <3>. HIDE DEF row
    <3>. QED
      BY <2>3, OneOrderMoves
  <2>. HIDE DEF row, from, c
  <2>. QED
    BY <1>2, <2>2, <2>4
<1>5. ASSUME NEW p \in Products
      PROVE  /\ product'[p] \in ProductRow
             /\ product'[p].stock = IF from # "cancelled" /\ to = "cancelled"
                                      THEN product[p].stock + c[p] ELSE product[p].stock
  <2>1. product[p] \in ProductRow /\ product[p].stock \in Int /\ c[p] \in Nat
    BY <1>1, <1>2 DEF ProductRow
  <2>2. CASE Restores(from, to) /\ c[p] > 0
    BY <2>1, <2>2, RowsAre DEF Returned, Lines, Restores
  <2>3. CASE Restores(from, to) /\ c[p] = 0
    BY <2>1, <2>3 DEF Returned, Lines, Restores
  <2>4. CASE ~Restores(from, to)
    BY <2>1, <2>4 DEF Restores
  <2>. QED
    BY <2>1, <2>2, <2>3, <2>4
<1>6. product' \in [Products -> ProductRow]
  BY <1>1, <1>5 DEF Returned
<1>7. BookTypeOK'
  BY <1>1, <1>4, <1>6 DEF BookTypeOK, LedgerInv
<1>8. ASSUME NEW p \in Products, \A q \in reopened' : order'[q].cart[p] = 0
      PROVE  Balanced(p)'
  <2>1. \A q \in Orders : order'[q].cart = order[q].cart
    BY <1>1, <1>2, <1>3
  <2>2. \A q \in reopened : order[q].cart[p] = 0
    BY <1>1, <1>8, <2>1
  <2>3. product[p].stock + Sold(p) = supply[p]
    BY <2>2 DEF LedgerInv, StockConserved, Balanced
  <2>4. product[p].stock \in Int /\ c[p] \in Int /\ Sold(p) \in Int
    BY <1>1, <1>2, <1>4 DEF ProductRow
  <2>5. from = "cancelled" /\ to # "cancelled" => c[p] = 0
    BY <1>8, <2>1
  <2>6. product'[p].stock + Sold(p)' = product[p].stock + Sold(p)
    <3>. HIDE DEF from, c
    <3>. QED
      BY <1>4, <1>5, <2>4, <2>5
  <2>. QED
    BY <2>3, <2>6 DEF Balanced
<1>. QED
  BY <1>4, <1>7, <1>8 DEF LedgerInv, StockConserved

(* What an edit puts on sale or takes off is in the supply.                *)
LEMMA RestockKeeps ==
  ASSUME LedgerInv, NEW p \in Products, NEW v \in StockLevels,
         NEW st \in ProductStatus \cup {"keep"}, Restock(p, v, st)
  PROVE  LedgerInv'
<1>1. /\ product \in [Products -> ProductRow] /\ supply \in [Products -> Int] /\ v \in Int
      /\ \A q \in Products : product[q].stock \in Int
  BY OrderDataAssumption DEF LedgerInv, BookTypeOK, ProductRow
<1>2. [stock |-> v, status |-> EditedStatus(product[p], v, st)] \in ProductRow
  <2>1. EditedStatus(product[p], v, st) \in ProductStatus
    BY <1>1 DEF EditedStatus, ProductRow, ProductStatus
  <2>. QED
    BY <1>1, <2>1 DEF ProductRow
<1>3. BookTypeOK'
  BY <1>1, <1>2 DEF LedgerInv, BookTypeOK, Restock
<1>4. Live' = Live /\ \A q \in Products : Sold(q)' = Sold(q) /\ Sold(q) \in Int
  BY OrdersRest DEF Restock
<1>5. ASSUME NEW q \in Products, Balanced(q) PROVE Balanced(q)'
  <2>1. CASE q = p
    BY <1>1, <1>4, <1>5, <2>1 DEF Balanced, Restock
  <2>2. CASE q # p
    BY <1>1, <1>4, <1>5, <2>2 DEF Balanced, Restock
  <2>. QED
    BY <2>1, <2>2
<1>6. StockConserved'
  BY <1>5 DEF LedgerInv, StockConserved, Restock
<1>. QED
  BY <1>3, <1>4, <1>6 DEF LedgerInv

(* The account does not see a status, nor a shop.                          *)
LEMMA OthersKeep ==
  ASSUME LedgerInv,
         \/ \E p \in Products, st \in ProductStatus : Relist(p, st)
         \/ \E s \in Sellers, open \in BOOLEAN : SetShop(s, open)
         \/ UNCHANGED bookVars
  PROVE  LedgerInv'
<1>1. UNCHANGED <<order, supply, reopened>>
  BY DEF Relist, SetShop, bookVars
<1>2. /\ product' \in [Products -> ProductRow]
      /\ \A q \in Products : product'[q].stock = product[q].stock
  BY DEF LedgerInv, BookTypeOK, Relist, SetShop, bookVars, ProductRow
<1>3. BookTypeOK'
  BY <1>1, <1>2 DEF LedgerInv, BookTypeOK, Relist, SetShop, bookVars
<1>4. Live' = Live /\ \A q \in Products : Sold(q)' = Sold(q)
  BY <1>1, OrdersRest
<1>. QED
  BY <1>1, <1>2, <1>3, <1>4 DEF LedgerInv, StockConserved, Balanced

(* Every step keeps the account.                                           *)
LEMMA AccountStep == LedgerInv /\ [Next]_bookVars => LedgerInv'
<1>. SUFFICES ASSUME LedgerInv, [Next]_bookVars PROVE LedgerInv'
  OBVIOUS
<1>1. ASSUME NEW o \in Orders, Cancel(o) PROVE LedgerInv'
  <2>1. /\ order[o].status \in CustomerCancellable /\ order[o] # NoOrder
        /\ Restores(order[o].status, "cancelled")
    BY <1>1 DEF Cancel, CustomerCancellable, NoOrder, Restores
  <2>. QED
    BY <1>1, <2>1, MovingKeeps DEF Cancel, OrderStatus, CustomerCancellable
<1>2. ASSUME NEW o \in Orders, NEW to \in Settable, NEW admin \in AdminFlags, Move(o, to, admin)
      PROVE  LedgerInv'
  BY <1>2, MovingKeeps DEF Move, Settable
<1>. QED
  BY <1>1, <1>2, PlaceKeeps, RestockKeeps, OthersKeep DEF Next

(***************************************************************************)
(* Every unit put on sale is on the shelf or in an order that stands,      *)
(* unless its product is in an order taken out of cancelled: createOrder   *)
(* and the two cancellations (orderController.js) take and give back the   *)
(* same lines, once.                                                       *)
(***************************************************************************)
THEOREM BooksBalance == Spec => []StockConserved
<1>1. LedgerInv => StockConserved
  BY DEF LedgerInv
<1>. QED
  BY <1>1, AccountInit, AccountStep, PTL DEF Spec
=============================================================================
