------------------------------ MODULE PriceEdits ------------------------------
(***************************************************************************)
(* The prices of one product: addProduct and editProduct of                *)
(* backend/controllers/sellerController.js, where an edit checks the form  *)
(* against the row it has read and writes, in a later statement, the       *)
(* fields the form has and a discount computed from both.                  *)
(***************************************************************************)
EXTENDS Integers

CONSTANTS
  Editors,  \* edits that can be at work at once
  Prices,   \* amounts a form may carry
  Keep      \* a field the form leaves out

PriceAssumption == Prices \subseteq Nat /\ Prices # {} /\ Keep \notin Nat

VARIABLES
  tag,    \* mrp, selling_price and discount_percent, in hundredths
  edit,   \* each edit: what it is to write
  mixed   \* history: the last edit left out a price that had changed since it read the row

priceVars == <<tag, edit, mixed>>

Optional == Prices \cup {Keep}

(* discountPercent: two decimals, and no less than nothing.                *)
DiscountPercent(mrp, price) ==
  IF mrp = 0 \/ price > mrp THEN 0 ELSE (20000 * (mrp - price) + mrp) \div (2 * mrp)

Tags  == {[mrp |-> m, price |-> p, cut |-> DiscountPercent(c, d)] :
            m \in Prices, p \in Prices, c \in Prices, d \in Prices}
Away  == [at |-> "away", mrp |-> Keep, price |-> Keep, seen |-> <<Keep, Keep>>, cut |-> 0]
Edits == [at : {"writing"}, mrp : Optional, price : Optional, seen : Prices \X Prices,
          cut : {DiscountPercent(m, p) : m \in Prices, p \in Prices}]

TypeOK ==
  /\ tag \in Tags
  /\ edit \in [Editors -> Edits \cup {Away}]
  /\ mixed \in BOOLEAN

(* addProduct: the check and the INSERT.                                   *)
Init ==
  /\ tag \in {[mrp |-> m, price |-> p, cut |-> DiscountPercent(m, p)] :
                m \in Prices, p \in Prices}
  /\ tag.price <= tag.mrp
  /\ edit = [e \in Editors |-> Away]
  /\ mixed = FALSE

Effective(field, current) == IF field = Keep THEN current ELSE field

(* Mutant: the check is made only when the form has both prices.           *)
ChecksBoth(mrp, price) == mrp # Keep /\ price # Keep => price <= mrp

PriceWithinMrp(mrp, price) == Effective(price, tag.price) <= Effective(mrp, tag.mrp)

(* editProduct up to its UPDATE.                                           *)
FindForEdit(e, mrp, price) ==
  /\ edit[e] = Away
  /\ PriceWithinMrp(mrp, price)
  /\ edit' = [edit EXCEPT ![e] =
       [at |-> "writing", mrp |-> mrp, price |-> price, seen |-> <<tag.mrp, tag.price>>,
        cut |-> DiscountPercent(Effective(mrp, tag.mrp), Effective(price, tag.price))]]
  /\ UNCHANGED <<tag, mixed>>

UpdatePrices(e) ==
  LET w == edit[e] IN
  /\ w # Away
  /\ tag' = [mrp |-> Effective(w.mrp, tag.mrp), price |-> Effective(w.price, tag.price),
             cut |-> w.cut]
  /\ mixed' = \/ w.mrp = Keep /\ w.seen[1] # tag.mrp
              \/ w.price = Keep /\ w.seen[2] # tag.price
  /\ edit' = [edit EXCEPT ![e] = Away]

(* The UPDATE fails.                                                       *)
Fail(e) ==
  /\ edit[e] # Away
  /\ edit' = [edit EXCEPT ![e] = Away]
  /\ UNCHANGED <<tag, mixed>>

Next == \E e \in Editors : \/ \E mrp, price \in Optional : FindForEdit(e, mrp, price)
                           \/ UpdatePrices(e) \/ Fail(e)

Spec == Init /\ [][Next]_priceVars

------------------------------------------------------------------------------
(* The selling price stays within the MRP and the discount is the one of   *)
(* the two prices, whichever of them each form leaves out and however the  *)
(* edits cross (editProduct, "Selling price cannot exceed MRP").  One case *)
(* is excepted, and only until the next edit is written: a form that left  *)
(* out the very price which another edit has written since.                *)
PricesAgree ==
  ~mixed => tag.price <= tag.mrp /\ tag.cut = DiscountPercent(tag.mrp, tag.price)
==============================================================================
