-------------------------- MODULE CatalogueProofs --------------------------
(***************************************************************************)
(* Theorems about the parts of MCCatalogue, for every number of products,  *)
(* images, prices, requests and pages.  A part moves by its own steps or   *)
(* not at all, so each has an inductive invariant of its own.              *)
(***************************************************************************)
EXTENDS MCCatalogue, TLAPS

------------------------------------------------------------------------------
(***************************************************************************)
(* Ages of lists.  Nothing a page shows is older than the two caches and   *)
(* two flights allow: a list in flight is as old as it waits, and as it    *)
(* was when it left; a list in a cache is as old as it is kept, and as it  *)
(* was when it came.                                                       *)
(***************************************************************************)
InFlight(c) ==
  /\ c.at \in {"read", "answered"} => c.waits <= Flight
  /\ c.at = "read" => c.age <= c.waits
  /\ c.at = "answered" => c.age <= HotLife + Flight + c.waits

AgesInv ==
  /\ AgesTypeOK
  /\ Good(hot, HotLife) => hot.age <= hot.kept + Flight
  /\ Good(api, ApiLife) => api.age <= api.kept + HotLife + 2 * Flight
  /\ \A l \in Loads : InFlight(load[l])
  /\ shown <= Limit

(* Whatever the age, a tick keeps it in its range and adds one at most.    *)
LEMMA OlderInRange ==
  ASSUME AgesAssumption, NEW a \in Ages
  PROVE  Older(a) \in Ages /\ a <= Older(a) /\ Older(a) <= a + 1 /\ (a <= Limit => Older(a) = a + 1)
BY DEF AgesAssumption, Ages, Older, Limit

LEMMA AgesInitially == ASSUME AgesAssumption, AgesInit PROVE AgesInv
<1>1. /\ NoList \in Entry /\ ~Good(NoList, HotLife) /\ ~Good(NoList, ApiLife)
      /\ NoLoad.waits \in Ages /\ NoLoad.age \in Ages
  BY DEF AgesAssumption, NoList, Entry, Ages, Good, Limit, NoLoad
<1>2. AgesTypeOK
  BY <1>1 DEF AgesInit, AgesTypeOK, NoLoad
<1>3. \A l \in Loads : InFlight(load[l])
  BY DEF AgesInit, InFlight, NoLoad
<1> QED
  BY <1>1, <1>2, <1>3 DEF AgesInit, AgesInv, AgesAssumption, Limit

(* Time passes for what is kept ...                                        *)
LEMMA EntryAges ==
  ASSUME AgesAssumption, NEW e \in Entry, NEW life \in {HotLife, ApiLife}, NEW d \in Nat,
         Good(e, life) => e.age <= e.kept + d
  PROVE  /\ Aged(e) \in Entry
         /\ Good(Aged(e), life) => Aged(e).age <= Aged(e).kept + d
<1>1. e.age \in Ages /\ e.kept \in Ages
  BY DEF Entry
<1>2. Aged(e) \in Entry
  BY <1>1, OlderInRange DEF Aged, Entry
<1>3. ASSUME Good(Aged(e), life) PROVE Aged(e).age <= Aged(e).kept + d
  <2>1. Older(e.kept) <= life
    BY <1>3 DEF Good, Aged
  <2>2. e.kept <= life /\ life <= Limit
    BY <1>1, <2>1, OlderInRange DEF AgesAssumption, Ages, Limit
  <2>3. Older(e.kept) = e.kept + 1 /\ Older(e.age) <= e.age + 1
    BY <1>1, <2>2, OlderInRange DEF AgesAssumption, Ages, Limit
  <2>4. e.age <= e.kept + d
    BY <2>2 DEF Good
  <2> QED
    BY <1>1, <2>3, <2>4, OlderInRange DEF Aged, Ages, AgesAssumption, Limit
<1> QED
  BY <1>2, <1>3

(* ... and for what is on its way.                                         *)
LEMMA TickKeeps == ASSUME AgesAssumption, AgesInv, Tick PROVE AgesInv'
<1>1. /\ hot' \in Entry
      /\ Good(hot', HotLife) => hot'.age <= hot'.kept + Flight
  BY EntryAges DEF AgesInv, AgesTypeOK, Tick, AgesAssumption
<1>2. /\ api' \in Entry
      /\ Good(api', ApiLife) => api'.age <= api'.kept + HotLife + 2 * Flight
  <2>1. HotLife + 2 * Flight \in Nat
    BY DEF AgesAssumption
  <2>2. Good(api, ApiLife) => api.age <= api.kept + (HotLife + 2 * Flight)
    BY DEF AgesInv, AgesTypeOK, Entry, Ages, AgesAssumption
  <2>3. /\ Aged(api) \in Entry
        /\ Good(Aged(api), ApiLife) => Aged(api).age <= Aged(api).kept + (HotLife + 2 * Flight)
    BY <2>1, <2>2, EntryAges DEF AgesInv, AgesTypeOK
  <2>4. api' = Aged(api)
    BY DEF Tick
  <2>5. Aged(api).age \in Nat /\ Aged(api).kept \in Nat
    BY <2>3 DEF Entry, Ages, AgesAssumption, Limit
  <2> QED
    BY <2>3, <2>4, <2>5 DEF Good, AgesAssumption
<1>3. ASSUME NEW l \in Loads
      PROVE  /\ load'[l] \in [at : {"none", "sent", "read", "answered"}, age : Ages, waits : Ages]
             /\ InFlight(load'[l])
  <2>1. /\ load[l] \in [at : {"none", "sent", "read", "answered"}, age : Ages, waits : Ages]
        /\ InFlight(load[l])
    BY <1>3 DEF AgesInv, AgesTypeOK
  <2>2. CASE load[l].at \notin {"read", "answered"}
    <3>1. load'[l] = load[l]
      BY <1>3, <2>2 DEF Tick
    <3> QED
      BY <2>1, <3>1
  <2>3. CASE load[l].at \in {"read", "answered"}
    <3>1. load'[l] = [load[l] EXCEPT !.age = Older(@), !.waits = @ + 1]
      BY <1>3, <2>3 DEF Tick
    <3>2. load[l].waits < Flight
      BY <1>3, <2>3 DEF Tick
    <3>3. Older(load[l].age) \in Ages /\ Older(load[l].age) <= load[l].age + 1
      BY <2>1, OlderInRange
    <3>4. load[l].waits + 1 \in Ages /\ load[l].waits + 1 <= Flight
      BY <2>1, <3>2 DEF Ages, AgesAssumption, Limit
    <3>5. /\ load'[l].at = load[l].at
          /\ load'[l].age = Older(load[l].age)
          /\ load'[l].waits = load[l].waits + 1
          /\ load'[l] \in [at : {"none", "sent", "read", "answered"}, age : Ages, waits : Ages]
      BY <2>1, <3>1, <3>3, <3>4
    <3>6. InFlight(load'[l])
      BY <2>1, <3>3, <3>4, <3>5 DEF InFlight, Ages, AgesAssumption, Limit
    <3> QED
      BY <3>5, <3>6
  <2> QED
    BY <2>2, <2>3
<1>4. load' \in [Loads -> [at : {"none", "sent", "read", "answered"}, age : Ages, waits : Ages]]
  <2>1. load' = [l \in Loads |-> load'[l]]
    BY DEF Tick
  <2> QED
    BY <1>3, <2>1
<1> QED
  BY <1>1, <1>2, <1>3, <1>4 DEF AgesInv, AgesTypeOK, Tick

(* A step of one request leaves the others as they are.                    *)
LEMMA OneMoves ==
  ASSUME AgesInv, NEW l \in Loads,
         NEW c \in [at : {"none", "sent", "read", "answered"}, age : Ages, waits : Ages],
         InFlight(c), load' = [load EXCEPT ![l] = c]
  PROVE  /\ load' \in [Loads -> [at : {"none", "sent", "read", "answered"}, age : Ages, waits : Ages]]
         /\ \A m \in Loads : InFlight(load'[m])
BY DEF AgesInv, AgesTypeOK

LEMMA AgesKept == ASSUME AgesAssumption, AgesInv, [AgesNext]_agesVars PROVE AgesInv'
<1> DEFINE Carried == [at : {"none", "sent", "read", "answered"}, age : Ages, waits : Ages]
<1>0. /\ 0 \in Ages /\ HotLife <= Limit /\ ApiLife <= Limit
      /\ NoList \in Entry /\ ~Good(NoList, HotLife) /\ ~Good(NoList, ApiLife)
      /\ NoLoad \in Carried /\ InFlight(NoLoad)
  BY DEF AgesAssumption, Ages, Limit, NoList, Entry, Good, NoLoad, InFlight
<1>1. CASE Tick
  BY <1>1, TickKeeps
<1>2. CASE HotGone
  BY <1>0, <1>2 DEF HotGone, AgesInv, AgesTypeOK
<1>3. CASE ApiGone
  BY <1>0, <1>3 DEF ApiGone, AgesInv, AgesTypeOK
<1>4. CASE ShowKept
  <2>1. api.age \in Ages /\ api.kept \in Ages /\ api.kept <= ApiLife
    BY <1>4 DEF ShowKept, AgesInv, AgesTypeOK, Entry, Good
  <2>2. api.age <= Limit
    BY <1>4, <2>1 DEF ShowKept, AgesInv, Limit, AgesAssumption, Ages
  <2> QED
    BY <1>4, <2>1, <2>2 DEF ShowKept, AgesInv, AgesTypeOK
<1>5. ASSUME NEW l \in Loads, Send(l) PROVE AgesInv'
  <2>1. [at |-> "sent", age |-> 0, waits |-> 0] \in Carried
    BY <1>0
  <2>2. InFlight([at |-> "sent", age |-> 0, waits |-> 0])
    BY DEF InFlight
  <2> QED
    BY <1>5, <2>1, <2>2, OneMoves DEF Send, AgesInv, AgesTypeOK
<1>6. ASSUME NEW l \in Loads, AnswerKept(l) PROVE AgesInv'
  <2> DEFINE c == [at |-> "answered", age |-> hot.age, waits |-> 0]
  <2>1. hot.age \in Ages /\ hot.kept \in Ages /\ hot.kept <= HotLife /\ hot.age <= hot.kept + Flight
    BY <1>6 DEF AnswerKept, AgesInv, AgesTypeOK, Entry, Good
  <2>2. c \in Carried
    BY <1>0, <2>1
  <2>3. InFlight(c)
    BY <2>1 DEF InFlight, AgesAssumption, Ages, Limit
  <2> QED
    BY <1>6, <2>2, <2>3, OneMoves DEF AnswerKept, AgesInv, AgesTypeOK
<1>7. ASSUME NEW l \in Loads, ListProducts(l) PROVE AgesInv'
  <2> DEFINE c == [at |-> "read", age |-> 0, waits |-> 0]
  <2>1. c \in Carried
    BY <1>0
  <2>2. InFlight(c)
    BY DEF InFlight, AgesAssumption
  <2> QED
    BY <1>7, <2>1, <2>2, OneMoves DEF ListProducts, AgesInv, AgesTypeOK
<1>8. ASSUME NEW l \in Loads, StoreList(l) PROVE AgesInv'
  <2> DEFINE c == [at |-> "answered", age |-> load[l].age, waits |-> 0]
  <2>1. /\ load[l] \in Carried /\ load[l].at = "read"
        /\ load[l].age <= load[l].waits /\ load[l].waits <= Flight
    BY <1>8 DEF StoreList, AgesInv, AgesTypeOK, InFlight
  <2>2. load' = [load EXCEPT ![l] = c]
    BY <1>8 DEF StoreList
  <2>3. c \in Carried /\ InFlight(c)
    BY <1>0, <2>1 DEF InFlight, AgesAssumption, Ages, Limit
  <2>4. /\ hot' \in Entry
        /\ Good(hot', HotLife) => hot'.age <= hot'.kept + Flight
    BY <1>0, <1>8, <2>1 DEF StoreList, Stored, Entry, Good, Ages, AgesAssumption, Limit
  <2> QED
    BY <1>8, <2>2, <2>3, <2>4, OneMoves DEF StoreList, AgesInv, AgesTypeOK
<1>9. ASSUME NEW l \in Loads, Show(l) PROVE AgesInv'
  <2>1. /\ load[l] \in Carried
        /\ load[l].age <= HotLife + Flight + load[l].waits /\ load[l].waits <= Flight
    BY <1>9 DEF Show, AgesInv, AgesTypeOK, InFlight
  <2>2. load[l].age <= HotLife + 2 * Flight /\ load[l].age <= Limit /\ load[l].age \in Ages
    BY <2>1 DEF AgesAssumption, Ages, Limit
  <2>3. /\ api' \in Entry
        /\ Good(api', ApiLife) => api'.age <= api'.kept + HotLife + 2 * Flight
    BY <1>0, <1>9, <2>2 DEF Show, Stored, Entry, Good, Ages, AgesAssumption, Limit
  <2> QED
    BY <1>0, <1>9, <2>2, <2>3, OneMoves DEF Show, AgesInv, AgesTypeOK
<1>10. ASSUME NEW l \in Loads, Lost(l) PROVE AgesInv'
  BY <1>0, <1>10, OneMoves DEF Lost, AgesInv, AgesTypeOK
<1>11. CASE UNCHANGED agesVars
  BY <1>11 DEF agesVars, AgesInv, AgesTypeOK
<1> QED
  BY <1>1, <1>2, <1>3, <1>4, <1>5, <1>6, <1>7, <1>8, <1>9, <1>10, <1>11 DEF AgesNext

(***************************************************************************)
(* What a page shows was in the database no longer ago than the lives of   *)
(* the two caches and the two flights it took, for every such life and any *)
(* number of requests that overtake one another (getCached, setCached of   *)
(* productController.js and backendApi.js).                                *)
(***************************************************************************)
THEOREM StalenessBounded == ASSUME AgesAssumption PROVE AgesSpec => []NothingOlder
<1>1. AgesInit => AgesInv
  BY AgesInitially
<1>2. AgesInv /\ [AgesNext]_agesVars => AgesInv'
  BY AgesKept
<1>3. AgesInv => NothingOlder
  BY DEF AgesInv, NothingOlder
<1> QED
  BY <1>1, <1>2, <1>3, PTL DEF AgesSpec

------------------------------------------------------------------------------
(***************************************************************************)
(* Prices.  What an edit is to write agrees with the prices it has seen.   *)
(***************************************************************************)
Meant(w) ==
  LET mrp   == Price!Effective(w.mrp, w.seen[1])
      price == Price!Effective(w.price, w.seen[2])
  IN  price <= mrp /\ w.cut = Price!DiscountPercent(mrp, price)

PriceInv ==
  /\ Price!TypeOK
  /\ \A e \in Handlers : edit[e] # Price!Away => Meant(edit[e])
  /\ Price!PricesAgree

(* Prices are numbers, and no edit at work passes for one that is over.    *)
LEMMA PriceNumbers ==
  /\ Prices \subseteq Nat /\ Keep \notin Nat
  /\ \A w \in Price!Edits : w # Price!Away
BY CatalogueAssumption DEF Price!PriceAssumption, Price!Edits, Price!Away

(* A row of the three prices is one the table can hold.                    *)
LEMMA TagIs ==
  ASSUME NEW m \in Prices, NEW p \in Prices, NEW c \in Prices, NEW d \in Prices
  PROVE  [mrp |-> m, price |-> p, cut |-> Price!DiscountPercent(c, d)] \in Price!Tags
BY DEF Price!Tags

(* No edit is at work and the row agrees with itself.                      *)
LEMMA PriceInit == Price!Init => PriceInv
<1>. SUFFICES ASSUME Price!Init PROVE PriceInv
  OBVIOUS
<1>1. tag \in Price!Tags
  BY DEF Price!Init, Price!Tags
<1>2. Price!PricesAgree
  BY DEF Price!Init, Price!PricesAgree
<1>. QED
  BY <1>1, <1>2 DEF Price!Init, PriceInv, Price!TypeOK

(* An edit writes what agrees with the row as it locked it.                *)
LEMMA PriceStep ==
  ASSUME PriceInv, [Price!Next]_priceVars
  PROVE  PriceInv'
<1>. USE PriceNumbers DEF PriceInv
<1>1. ASSUME NEW e \in Handlers, NEW mrp \in Price!Optional, NEW price \in Price!Optional,
             Price!FindForEdit(e, mrp, price)
      PROVE  PriceInv'
  <2>. DEFINE over  == Price!Effective(mrp, tag.mrp)
              under == Price!Effective(price, tag.price)
              w == [at |-> "writing", mrp |-> mrp, price |-> price,
                    seen |-> <<tag.mrp, tag.price>>, cut |-> Price!DiscountPercent(over, under)]
  <2>1. tag.mrp \in Prices /\ tag.price \in Prices
    BY DEF Price!TypeOK, Price!Tags
  <2>2. over \in Prices /\ under \in Prices /\ under <= over
    BY <1>1, <2>1 DEF Price!FindForEdit, Price!PriceWithinMrp, Price!Effective, Price!Optional
  <2>3. edit' = [edit EXCEPT ![e] = w] /\ UNCHANGED <<tag, mixed>>
    BY <1>1 DEF Price!FindForEdit
  <2>4. w \in Price!Edits
    <3>1. Price!DiscountPercent(over, under)
            \in {Price!DiscountPercent(m, p) : m \in Prices, p \in Prices}
      BY <2>2
    <3>2. mrp \in Price!Optional /\ price \in Price!Optional
      OBVIOUS
    <3>. QED
      BY <2>1, <3>1, <3>2 DEF Price!Edits
  <2>5. Meant(w)
    BY <2>2 DEF Meant
  <2>. HIDE DEF w
  <2>6. edit' \in [Handlers -> Price!Edits \cup {Price!Away}]
    BY <2>3, <2>4 DEF Price!TypeOK
  <2>7. \A d \in Handlers : edit'[d] # Price!Away => Meant(edit'[d])
    BY <2>3, <2>5 DEF Price!TypeOK
  <2>. QED
    BY <2>3, <2>6, <2>7 DEF Price!TypeOK, Price!PricesAgree
<1>2. ASSUME NEW e \in Handlers, Price!UpdatePrices(e)
      PROVE  PriceInv'
  <2>. DEFINE w == edit[e]
  <2>1. /\ w \in Price!Edits /\ Meant(w)
        /\ w.mrp \in Price!Optional /\ w.price \in Price!Optional
        /\ tag.mrp \in Prices /\ tag.price \in Prices
        /\ \E c, d \in Prices : w.cut = Price!DiscountPercent(c, d)
    BY <1>2 DEF Price!UpdatePrices, Price!TypeOK, Price!Edits, Price!Tags
  <2>2. /\ tag' = [mrp |-> Price!Effective(w.mrp, tag.mrp),
                   price |-> Price!Effective(w.price, tag.price), cut |-> w.cut]
        /\ mixed' = \/ w.mrp = Keep /\ w.seen[1] # tag.mrp
                    \/ w.price = Keep /\ w.seen[2] # tag.price
        /\ edit' = [edit EXCEPT ![e] = Price!Away]
    BY <1>2 DEF Price!UpdatePrices
  <2>3. tag' \in Price!Tags
    <3>1. /\ Price!Effective(w.mrp, tag.mrp) \in Prices
          /\ Price!Effective(w.price, tag.price) \in Prices
      BY <2>1 DEF Price!Effective, Price!Optional
    <3>2. PICK c \in Prices, d \in Prices : w.cut = Price!DiscountPercent(c, d)
      BY <2>1
    <3>3. tag' = [mrp |-> Price!Effective(w.mrp, tag.mrp),
                  price |-> Price!Effective(w.price, tag.price),
                  cut |-> Price!DiscountPercent(c, d)]
      BY <2>2, <3>2
    <3>. HIDE DEF w
    <3>. QED
      BY <3>1, <3>3, TagIs
  <2>4. Price!PricesAgree'
    <3>. SUFFICES ASSUME ~mixed'
                  PROVE  tag'.price <= tag'.mrp
                         /\ tag'.cut = Price!DiscountPercent(tag'.mrp, tag'.price)
      BY DEF Price!PricesAgree
    <3>1. /\ Price!Effective(w.mrp, w.seen[1]) = Price!Effective(w.mrp, tag.mrp)
          /\ Price!Effective(w.price, w.seen[2]) = Price!Effective(w.price, tag.price)
      BY <2>2 DEF Price!Effective
    <3>. QED
      BY <2>1, <2>2, <3>1 DEF Meant
  <2>5. edit' \in [Handlers -> Price!Edits \cup {Price!Away}]
    BY <2>2 DEF Price!TypeOK
  <2>6. \A d \in Handlers : edit'[d] # Price!Away => edit'[d] = edit[d]
    BY <2>2 DEF Price!TypeOK
  <2>. QED
    BY <2>2, <2>3, <2>4, <2>5, <2>6 DEF Price!TypeOK
<1>3. ASSUME NEW e \in Handlers, Price!Fail(e)
      PROVE  PriceInv'
  BY <1>3 DEF Price!Fail, Price!TypeOK, Price!PricesAgree
<1>4. CASE UNCHANGED priceVars
  BY <1>4 DEF priceVars, Price!TypeOK, Price!PricesAgree
<1>. QED
  BY <1>1, <1>2, <1>3, <1>4 DEF Price!Next

------------------------------------------------------------------------------
(***************************************************************************)
(* The life of a product.  A sweep that is to write holds the lock, so     *)
(* nobody has extended the product since it was found past; a list that    *)
(* was read and not overtaken shows the product as it stands.              *)
(***************************************************************************)
Shops == [approval : {"none", "pending", "approved"}, user : {"active", "blocked"}]

Sweeping(j) == j.op = "sweep" /\ j.pc = "writing"

JobInv(j) ==
  /\ j.op = "sweep" => j.pc \in {"writing", "clearing"}
  /\ j.pc = "writing" => row.status # "none"
  /\ Sweeping(j) => lock /\ row.expires <= today
  /\ j.pc = "storing" /\ ~j.overtaken => j.shows = Life!Public(row, shop)

JobsInv ==
  /\ job \in [Handlers -> Life!Job]
  /\ \A h \in Handlers : JobInv(job[h])
  /\ \A g, h \in Handlers : Sweeping(job[g]) /\ Sweeping(job[h]) => g = h

LifeInv ==
  /\ Life!TypeOK
  /\ JobsInv
  /\ shop.approval = "none" => row.status = "none"
  /\ Life!CacheKeepsUp

(* A handler that has ended, and what it starts afresh with.               *)
LEMMA RestIs ==
  /\ Life!Rest \in Life!Job /\ Life!Rest.pc = "idle" /\ Life!Rest.op = "list"
  /\ Life!Rest.set = Life!NoChange /\ Life!Rest.shows = FALSE /\ Life!Rest.overtaken = FALSE
  /\ Life!NoChange \in Life!Change
  /\ Life!Empty \in [filled : BOOLEAN, shows : BOOLEAN] /\ Life!Empty.filled = FALSE
  /\ LastDay \in Nat \ {0} /\ 1 \in Life!Days /\ LastDay \in Life!Days
BY CatalogueAssumption
   DEF Life!LifeAssumption, Life!Rest, Life!Job, Life!Change, Life!NoChange, Life!Optional,
       Life!Ops, Life!Empty, Life!Days

(* One handler moves on; row and shop stay as they are.                    *)
LEMMA OneJob ==
  ASSUME JobsInv, NEW h \in Handlers, NEW j \in Life!Job, JobInv(j)',
         job' = [job EXCEPT ![h] = j], UNCHANGED <<row, today>>,
         Life!Public(row, shop') = Life!Public(row, shop),
         \A g \in Handlers \ {h} : Sweeping(job[g]) => lock' /\ ~Sweeping(j)
  PROVE  JobsInv'
<1>1. job' \in [Handlers -> Life!Job] /\ job'[h] = j
      /\ \A g \in Handlers \ {h} : job'[g] = job[g]
  BY DEF JobsInv
<1>2. ASSUME NEW g \in Handlers PROVE JobInv(job[g])'
  <2>1. CASE g = h
    BY <1>1, <2>1 DEF JobInv, Sweeping
  <2>2. CASE g # h
    BY <1>1, <2>2 DEF JobsInv, JobInv, Sweeping
  <2>. QED
    BY <2>1, <2>2
<1>3. \A f, g \in Handlers : Sweeping(job'[f]) /\ Sweeping(job'[g]) => f = g
  BY <1>1 DEF JobsInv
<1>. QED
  BY <1>1, <1>2, <1>3 DEF JobsInv, Sweeping

(* A write of one handler marks the lists that others have read.           *)
LEMMA Marked ==
  ASSUME job \in [Handlers -> Life!Job], NEW h \in Handlers, NEW pc \in {"idle", "clearing"},
         NEW late, Life!Onwards(h, pc, late)
  PROVE  /\ job' \in [Handlers -> Life!Job]
         /\ job'[h].pc = pc /\ job'[h].op = job[h].op
         /\ \A g \in Handlers \ {h} :
              /\ job'[g].pc = job[g].pc /\ job'[g].op = job[g].op /\ job'[g].shows = job[g].shows
              /\ job'[g].overtaken = (job[g].overtaken \/ g \in late)
<1>. DEFINE onward == [job[h] EXCEPT !.pc = pc]
            mark(g) == [job[g] EXCEPT !.overtaken = TRUE]
<1>1. \A g \in Handlers : job'[g] = IF g = h THEN onward ELSE IF g \in late THEN mark(g) ELSE job[g]
  BY DEF Life!Onwards
<1>2. onward \in Life!Job /\ onward.pc = pc /\ onward.op = job[h].op
  BY DEF Life!Job
<1>3. \A g \in Handlers : /\ mark(g) \in Life!Job /\ mark(g).pc = job[g].pc /\ mark(g).op = job[g].op
                          /\ mark(g).shows = job[g].shows /\ mark(g).overtaken = TRUE
  BY DEF Life!Job
<1>4. DOMAIN job' = Handlers /\ job' = [g \in Handlers |-> job'[g]]
  BY DEF Life!Onwards
<1>. HIDE DEF onward, mark
<1>5. job' \in [Handlers -> Life!Job]
  BY <1>1, <1>2, <1>3, <1>4
<1>6. ASSUME NEW g \in Handlers \ {h}
      PROVE  job'[g].overtaken = (job[g].overtaken \/ g \in late)
  <2>1. job[g].overtaken \in BOOLEAN
    BY DEF Life!Job
  <2>2. CASE g \in late
    BY <1>1, <1>3, <2>2
  <2>3. CASE g \notin late
    BY <1>1, <2>1, <2>3
  <2>. QED
    BY <2>2, <2>3
<1>. QED
  BY <1>1, <1>2, <1>3, <1>5, <1>6

(* A handler writes: every other that has read a list is overtaken.        *)
LEMMA WriteKeepsJobs ==
  ASSUME JobsInv, NEW h \in Handlers, NEW pc \in {"idle", "clearing"},
         Life!Onwards(h, pc, Life!Overtaken(h, row', shop)), shop' = shop,
         \A g \in Handlers \ {h} : ~Sweeping(job[g]),
         pc = "clearing" \/ job[h].op # "sweep", row'.status # "none"
  PROVE  JobsInv'
<1>. DEFINE late == Life!Overtaken(h, row', shop)
<1>1. Life!Onwards(h, pc, late)
  OBVIOUS
<1>2. \A g \in Handlers \ {h} :
        job[g].pc = "storing" /\ g \notin late => Life!Public(row', shop) = Life!Public(row, shop)
  BY DEF Life!Overtaken
<1>. HIDE DEF late
<1>3. /\ job' \in [Handlers -> Life!Job]
      /\ job'[h].pc = pc /\ job'[h].op = job[h].op
      /\ \A g \in Handlers \ {h} :
           /\ job'[g].pc = job[g].pc /\ job'[g].op = job[g].op /\ job'[g].shows = job[g].shows
           /\ job'[g].overtaken = (job[g].overtaken \/ g \in late)
  BY <1>1, Marked DEF JobsInv
<1>4. \A g \in Handlers : ~Sweeping(job'[g])
  BY <1>3 DEF Sweeping
<1>5. ASSUME NEW g \in Handlers PROVE JobInv(job[g])'
  <2>1. CASE g = h
    BY <1>3, <1>4, <2>1 DEF JobInv, Sweeping
  <2>2. CASE g # h
    <3>1. job'[g].pc = "storing" /\ ~job'[g].overtaken => job'[g].shows = Life!Public(row', shop)
      BY <1>2, <1>3, <2>2 DEF JobsInv, JobInv
    <3>. QED
      BY <1>3, <1>4, <2>2, <3>1 DEF JobsInv, JobInv, Sweeping, Life!Public
  <2>. QED
    BY <2>1, <2>2
<1>. QED
  BY <1>3, <1>4, <1>5 DEF JobsInv, Sweeping

(* No handler is at work and nothing is cached.                            *)
LEMMA LifeInit == Life!Init => LifeInv
<1>. SUFFICES ASSUME Life!Init PROVE LifeInv
  OBVIOUS
<1>. USE RestIs DEF Life!Init
<1>1. Life!TypeOK
  <2>1. row \in Life!Row
    BY DEF Life!Row
  <2>. QED
    BY <2>1 DEF Life!TypeOK
<1>2. JobsInv
  <2>1. \A h \in Handlers : JobInv(job[h]) /\ ~Sweeping(job[h])
    BY DEF JobInv, Sweeping
  <2>. QED
    BY <2>1 DEF JobsInv
<1>. QED
  BY <1>1, <1>2 DEF LifeInv, Life!CacheKeepsUp

(* A step of one handler that leaves the product and its shop alone.       *)
LEMMA JobStep ==
  ASSUME LifeInv, NEW h \in Handlers, NEW j \in Life!Job, JobInv(j)',
         Life!Become(h, j), UNCHANGED <<row, today>>, NEW s \in Shops, shop' = s,
         Life!Public(row, s) = Life!Public(row, shop), s.approval = "none" => shop.approval = "none",
         lock' \in BOOLEAN, barred' = barred,
         \A g \in Handlers \ {h} : Sweeping(job[g]) => lock' /\ ~Sweeping(j),
         \/ UNCHANGED <<cache, spoilt>> /\ job[h].pc # "clearing"
         \/ cache' = Life!Empty /\ spoilt' \in BOOLEAN
  PROVE  LifeInv'
<1>1. job' = [job EXCEPT ![h] = j]
  BY DEF Life!Become
<1>2. JobsInv'
  BY <1>1, OneJob DEF LifeInv
<1>3. Life!TypeOK'
  BY <1>2, RestIs DEF LifeInv, JobsInv, Life!TypeOK, Shops
<1>4. Life!CacheKeepsUp'
  <2>1. CASE UNCHANGED <<cache, spoilt>> /\ job[h].pc # "clearing"
    <3>1. (\A g \in Handlers : job'[g].pc # "clearing") => \A g \in Handlers : job[g].pc # "clearing"
      BY <1>1, <2>1 DEF LifeInv, JobsInv
    <3>. QED
      BY <2>1, <3>1 DEF LifeInv, Life!CacheKeepsUp
  <2>2. CASE cache' = Life!Empty
    BY <2>2, RestIs DEF Life!CacheKeepsUp
  <2>. QED
    BY <2>1, <2>2
<1>. QED
  BY <1>2, <1>3, <1>4 DEF LifeInv

(* A write that is to be followed by clearHotCache.                        *)
LEMMA WriteStep ==
  ASSUME LifeInv, NEW h \in Handlers, row' \in Life!Row, UNCHANGED <<shop, today, cache>>,
         row'.status # "none", shop.approval # "none",
         Life!Onwards(h, "clearing", Life!Overtaken(h, row', shop)),
         lock' \in BOOLEAN, barred' \in BOOLEAN, spoilt' \in BOOLEAN,
         \A g \in Handlers \ {h} : ~Sweeping(job[g])
  PROVE  LifeInv'
<1>1. JobsInv'
  BY WriteKeepsJobs DEF LifeInv
<1>2. job'[h].pc = "clearing"
  BY Marked DEF LifeInv, JobsInv
<1>. QED
  BY <1>1, <1>2 DEF LifeInv, JobsInv, Life!TypeOK, Life!CacheKeepsUp

(* A write that clears no cache.                                           *)
LEMMA StatusStep ==
  ASSUME LifeInv, NEW h \in Handlers, NEW s \in Life!Statuses,
         Life!SetStatus(h, s), job[h].pc \notin {"clearing", "writing"},
         Life!Onwards(h, "idle", Life!Overtaken(h, row', shop)),
         UNCHANGED <<shop, today, lock, cache>>
  PROVE  LifeInv'
<1>1. /\ ~lock /\ row.status # "none" /\ row' = [row EXCEPT !.status = s] /\ barred' = Life!Barred(h, s)
      /\ spoilt' = (spoilt \/ Life!Public(row', shop) # Life!Public(row, shop))
  BY DEF Life!SetStatus, Life!Exists
<1>2. \A g \in Handlers : ~Sweeping(job[g])
  BY <1>1 DEF LifeInv, JobsInv, JobInv
<1>3. job[h].op # "sweep"
  BY DEF LifeInv, JobsInv, JobInv
<1>4. row' \in Life!Row /\ row'.status = s /\ barred' \in BOOLEAN /\ spoilt' \in BOOLEAN
  BY <1>1 DEF LifeInv, Life!TypeOK, Life!Row, Life!Barred, Life!Statuses
<1>5. JobsInv'
  BY <1>2, <1>3, <1>4, WriteKeepsJobs DEF LifeInv, Life!Statuses
<1>6. Life!CacheKeepsUp'
  <2>1. \A g \in Handlers : job[g].pc = "clearing" => job'[g].pc = "clearing"
    BY Marked DEF LifeInv, JobsInv
  <2>2. ~spoilt' => ~spoilt /\ Life!Public(row', shop) = Life!Public(row, shop)
    BY <1>1
  <2>. QED
    BY <2>1, <2>2 DEF LifeInv, Life!CacheKeepsUp
<1>. QED
  BY <1>1, <1>4, <1>5, <1>6 DEF LifeInv, JobsInv, Life!TypeOK

(* approveSeller and blockUser.                                            *)
LEMMA ShopStep ==
  ASSUME LifeInv, NEW s \in Shops, s.approval = "none" => shop.approval = "none",
         Life!SetShop(s)
  PROVE  LifeInv'
<1>. DEFINE changed == Life!Public(row, s) # Life!Public(row, shop)
            mark(h) == [job[h] EXCEPT !.overtaken = TRUE]
<1>1. /\ shop' = s /\ spoilt' = (spoilt \/ changed) /\ UNCHANGED <<row, today, lock, cache, barred>>
      /\ job' = [h \in Handlers |-> IF job[h].pc = "storing" /\ changed THEN mark(h) ELSE job[h]]
  BY DEF Life!SetShop
<1>2. \A h \in Handlers : /\ mark(h) \in Life!Job /\ mark(h).pc = job[h].pc /\ mark(h).op = job[h].op
                          /\ mark(h).overtaken = TRUE
  BY DEF LifeInv, JobsInv, Life!Job
<1>. HIDE DEF mark
<1>3. \A h \in Handlers : /\ job'[h] \in Life!Job /\ job'[h].pc = job[h].pc /\ job'[h].op = job[h].op
                          /\ job[h].pc = "storing" /\ changed => job'[h].overtaken
                          /\ ~changed => job'[h] = job[h]
  BY <1>1, <1>2 DEF LifeInv, JobsInv
<1>4. job' \in [Handlers -> Life!Job]
  BY <1>1, <1>3
<1>5. ASSUME NEW h \in Handlers PROVE JobInv(job[h])'
  <2>1. job'[h].pc = "storing" /\ ~job'[h].overtaken
          => job'[h].shows = Life!Public(row, s)
    BY <1>3 DEF LifeInv, JobsInv, JobInv
  <2>. QED
    BY <1>1, <1>3, <2>1 DEF LifeInv, JobsInv, JobInv, Sweeping, Life!Public
<1>6. Life!CacheKeepsUp'
  BY <1>1, <1>3 DEF LifeInv, Life!CacheKeepsUp, Life!Public
<1>. QED
  BY <1>1, <1>3, <1>4, <1>5, <1>6 DEF LifeInv, JobsInv, Sweeping, Life!TypeOK, Shops

(* Every handler, the reader of lists, the caches and the day.             *)
LEMMA LifeStep ==
  ASSUME LifeInv, [Life!Next]_lifeVars
  PROVE  LifeInv'
<1>0. /\ shop \in Shops /\ row \in Life!Row /\ today \in Nat
      /\ lock \in BOOLEAN /\ spoilt \in BOOLEAN /\ barred \in BOOLEAN
      /\ JobsInv
      /\ shop.approval = "none" => row.status = "none"
      /\ row.status = "none" => \A g \in Handlers : ~Sweeping(job[g])
      /\ ~lock => \A g \in Handlers : ~Sweeping(job[g])
  BY RestIs DEF LifeInv, JobsInv, JobInv, Sweeping, Life!TypeOK, Life!Days, Shops
<1>1. CASE Life!UpsertProfile
  <2>. DEFINE s == [shop EXCEPT !.approval = "pending"]
  <2>1. s \in Shops /\ s.approval = "pending" /\ shop.approval = "none" /\ shop' = s
    BY <1>0, <1>1 DEF Life!UpsertProfile, Shops
  <2>. HIDE DEF s
  <2>2. UNCHANGED <<row, today, job, lock, cache, barred, spoilt>>
    BY <1>1 DEF Life!UpsertProfile
  <2>3. Life!Public(row, s) = Life!Public(row, shop)
    BY <2>1 DEF Life!Public
  <2>4. \A h \in Handlers : JobInv(job[h])'
    BY <1>0, <2>1, <2>2, <2>3 DEF JobsInv, JobInv, Sweeping
  <2>. QED
    BY <1>0, <2>1, <2>2, <2>3, <2>4
       DEF LifeInv, JobsInv, Sweeping, Life!TypeOK, Life!CacheKeepsUp, Shops
<1>2. ASSUME NEW to \in {"approved", "pending"}, Life!ApproveSeller(to)
      PROVE  LifeInv'
  <2>1. [shop EXCEPT !.approval = to] \in Shops /\ [shop EXCEPT !.approval = to].approval = to
    BY <1>0 DEF Shops
  <2>. QED
    BY <1>2, <2>1, ShopStep DEF Life!ApproveSeller
<1>3. ASSUME NEW to \in {"active", "blocked"}, Life!BlockUser(to)
      PROVE  LifeInv'
  <2>1. [shop EXCEPT !.user = to] \in Shops /\ [shop EXCEPT !.user = to].approval = shop.approval
    BY <1>0 DEF Shops
  <2>. QED
    BY <1>3, <2>1, ShopStep DEF Life!BlockUser
<1>4. ASSUME NEW h \in Handlers, Life!EnsureProfile(h)
      PROVE  LifeInv'
  <2>. DEFINE j == [Life!Rest EXCEPT !.pc = "profile", !.op = "add"]
  <2>1. j \in Life!Job /\ j.pc = "profile" /\ j.op = "add"
    BY RestIs DEF Life!Job, Life!Ops
  <2>2. Life!Become(h, j) /\ job[h].pc = "idle" /\ UNCHANGED <<row, shop, today, lock, cache, barred, spoilt>>
    BY <1>4 DEF Life!EnsureProfile
  <2>. HIDE DEF j
  <2>. QED
    BY <1>0, <2>1, <2>2, JobStep DEF JobInv, Sweeping, JobsInv
<1>5. ASSUME NEW h \in Handlers, Life!InsertProfile(h)
      PROVE  LifeInv'
  <2>. DEFINE s == IF shop.approval = "none" THEN [shop EXCEPT !.approval = "approved"] ELSE shop
  <2>1. s \in Shops /\ (shop.approval # "none" => s = shop) /\ s.approval # "none"
    BY <1>0 DEF Shops
  <2>2. /\ Life!Become(h, Life!Rest) /\ shop' = s /\ job[h].pc = "profile"
        /\ UNCHANGED <<row, today, lock, cache, barred, spoilt>>
    BY <1>5 DEF Life!InsertProfile
  <2>. HIDE DEF s
  <2>3. Life!Public(row, s) = Life!Public(row, shop)
    BY <1>0, <2>1 DEF Life!Public
  <2>. QED
    BY <1>0, <2>1, <2>2, <2>3, RestIs, JobStep DEF JobInv, Sweeping, JobsInv
<1>6. ASSUME NEW h \in Handlers, NEW s \in {"active", "inactive"}, NEW empty \in BOOLEAN,
             NEW expires \in Life!Days, Life!AddProduct(h, s, empty, expires)
      PROVE  LifeInv'
  <2>1. /\ row' = [status |-> Life!FirstStatus(s, empty), expires |-> expires]
        /\ row.status = "none" /\ shop.approval = "approved"
        /\ Life!Onwards(h, "clearing", Life!Overtaken(h, row', shop))
        /\ spoilt' \in BOOLEAN /\ UNCHANGED <<shop, today, lock, cache, barred>>
    BY <1>0, <1>6 DEF Life!AddProduct, Life!Exists, Life!Approved
  <2>2. row' \in Life!Row /\ row'.status # "none"
    BY <2>1 DEF Life!Row, Life!Statuses, Life!FirstStatus
  <2>. QED
    BY <1>0, <2>1, <2>2, WriteStep
<1>7. ASSUME NEW h \in Handlers, NEW j \in Life!Job, j.pc = "writing", Life!Become(h, j),
             job[h].pc = "idle", row.status # "none", lock' = (lock \/ j.op = "sweep"),
             j.op = "sweep" => ~lock /\ row.expires <= today,
             UNCHANGED <<row, shop, today, cache, barred, spoilt>>
      PROVE  LifeInv'
  <2>1. lock' \in BOOLEAN /\ (j.op # "sweep" => lock' = lock) /\ (j.op = "sweep" => lock')
    BY <1>0, <1>7
  <2>2. JobInv(j)'
    BY <1>7, <2>1 DEF JobInv, Sweeping
  <2>3. \A g \in Handlers \ {h} : Sweeping(job[g]) => lock' /\ ~Sweeping(j)
    BY <1>0, <1>7, <2>1 DEF Sweeping, JobsInv, JobInv
  <2>. QED
    BY <1>0, <1>7, <2>1, <2>2, <2>3, JobStep
<1>8. ASSUME NEW h \in Handlers, NEW admin \in BOOLEAN, NEW f \in Life!Forms,
             Life!FindForEdit(h, admin, f)
      PROVE  LifeInv'
  <2>. DEFINE set == [status |-> Life!EditedStatus(f.status, f.empty), expires |-> f.expires]
              j == [Life!Rest EXCEPT !.pc = "writing", !.op = "edit", !.admin = admin, !.set = set]
  <2>1. set \in Life!Change
    BY DEF Life!Forms, Life!EditedStatus, Life!Change, Life!Optional, Life!Statuses
  <2>. HIDE DEF set
  <2>2. j \in Life!Job /\ j.pc = "writing" /\ j.op = "edit"
    BY <2>1, RestIs DEF Life!Job, Life!Ops
  <2>3. /\ Life!Become(h, j) /\ job[h].pc = "idle" /\ row.status # "none"
        /\ UNCHANGED <<row, shop, today, lock, cache, barred, spoilt>>
    BY <1>8 DEF Life!FindForEdit, Life!Exists, set
  <2>. HIDE DEF j
  <2>. QED
    BY <1>0, <1>7, <2>2, <2>3
<1>9. ASSUME NEW s \in Life!Statuses
      PROVE  [Life!NoChange EXCEPT !.status = s] \in Life!Change
  BY RestIs DEF Life!Change, Life!Optional
<1>10. ASSUME NEW h \in Handlers, NEW s \in {"active", "inactive", "out_of_stock"},
              Life!FindForInventory(h, s)
       PROVE  LifeInv'
  <2>. DEFINE set == [Life!NoChange EXCEPT !.status = s]
              j == [Life!Rest EXCEPT !.pc = "writing", !.op = "inventory", !.set = set]
  <2>1. set \in Life!Change
    BY <1>9 DEF Life!Statuses
  <2>. HIDE DEF set
  <2>2. j \in Life!Job /\ j.pc = "writing" /\ j.op = "inventory"
    BY <2>1, RestIs DEF Life!Job, Life!Ops
  <2>3. /\ Life!Become(h, j) /\ job[h].pc = "idle" /\ row.status # "none"
        /\ UNCHANGED <<row, shop, today, lock, cache, barred, spoilt>>
    BY <1>10 DEF Life!FindForInventory, Life!Exists, set
  <2>. HIDE DEF j
  <2>. QED
    BY <1>0, <1>7, <2>2, <2>3
<1>11. ASSUME NEW h \in Handlers, Life!FindForDelete(h)
       PROVE  LifeInv'
  <2>. DEFINE set == [Life!NoChange EXCEPT !.status = "deleted"]
              j == [Life!Rest EXCEPT !.pc = "writing", !.op = "delete", !.set = set]
  <2>1. set \in Life!Change
    BY <1>9 DEF Life!Statuses
  <2>. HIDE DEF set
  <2>2. j \in Life!Job /\ j.pc = "writing" /\ j.op = "delete"
    BY <2>1, RestIs DEF Life!Job, Life!Ops
  <2>3. /\ Life!Become(h, j) /\ job[h].pc = "idle" /\ row.status # "none"
        /\ UNCHANGED <<row, shop, today, lock, cache, barred, spoilt>>
    BY <1>11 DEF Life!FindForDelete, Life!Exists, set
  <2>. HIDE DEF j
  <2>. QED
    BY <1>0, <1>7, <2>2, <2>3
<1>12. ASSUME NEW h \in Handlers, Life!Update(h)
       PROVE  LifeInv'
  <2>. DEFINE set == job[h].set
  <2>1. /\ job[h].pc = "writing" /\ job[h].op # "sweep" /\ ~lock
        /\ row' = Life!Written(set)
        /\ Life!Onwards(h, "clearing", Life!Overtaken(h, row', shop))
        /\ UNCHANGED <<shop, today, lock, cache>>
    BY <1>12 DEF Life!Update
  <2>2. set \in Life!Change /\ row.status # "none" /\ shop.approval # "none"
    BY <1>0, <2>1 DEF JobsInv, JobInv, Life!Job
  <2>3. row' \in Life!Row /\ row'.status # "none"
    <3>1. /\ set.status \in Life!Statuses \cup {Keep}
          /\ set.expires \in Life!Days \cup {Keep}
          /\ "none" \notin Life!Statuses
      BY <2>2 DEF Life!Change, Life!Optional, Life!Statuses
    <3>2. row' = [f \in {"status", "expires"} |-> IF set[f] = Keep THEN row[f] ELSE set[f]]
      BY <1>0, <2>1 DEF Life!Written, Life!Row
    <3>. HIDE DEF set
    <3>3. row' = [status |-> IF set.status = Keep THEN row.status ELSE set.status,
                  expires |-> IF set.expires = Keep THEN row.expires ELSE set.expires]
      BY <3>2
    <3>. QED
      BY <1>0, <2>2, <3>1, <3>3 DEF Life!Row
  <2>4. spoilt' \in BOOLEAN
    BY <1>0, <1>12 DEF Life!Update
  <2>5. barred' \in BOOLEAN
    BY <1>0, <1>12 DEF Life!Update, Life!Barred
  <2>. QED
    BY <1>0, <2>1, <2>2, <2>3, <2>4, <2>5, WriteStep
<1>13. ASSUME NEW h \in Handlers, Life!Clear(h)
       PROVE  LifeInv'
  <2>1. /\ Life!Become(h, Life!Rest) /\ cache' = Life!Empty /\ spoilt' = FALSE
        /\ UNCHANGED <<row, shop, today, lock, barred>>
    BY <1>13 DEF Life!Clear
  <2>. QED
    BY <1>0, <2>1, RestIs, JobStep DEF JobInv, Sweeping, JobsInv
<1>14. ASSUME NEW h \in Handlers, NEW s \in Life!Statuses \ {"deleted"},
              Life!UpdateProductStatus(h, s)
       PROVE  LifeInv'
  BY <1>14, StatusStep DEF Life!UpdateProductStatus
<1>15. ASSUME NEW h \in Handlers, Life!CloseDispute(h)
       PROVE  LifeInv'
  <2>. DEFINE j == [Life!Rest EXCEPT !.pc = "blocking", !.op = "resolve"]
  <2>1. j \in Life!Job /\ j.pc = "blocking" /\ j.op = "resolve"
    BY RestIs DEF Life!Job, Life!Ops
  <2>2. /\ Life!Become(h, j) /\ job[h].pc = "idle"
        /\ UNCHANGED <<row, shop, today, lock, cache, barred, spoilt>>
    BY <1>15 DEF Life!CloseDispute
  <2>. HIDE DEF j
  <2>. QED
    BY <1>0, <2>1, <2>2, JobStep DEF JobInv, Sweeping, JobsInv
<1>16. ASSUME NEW h \in Handlers, Life!BlockDisputed(h)
       PROVE  LifeInv'
  BY <1>16, StatusStep DEF Life!BlockDisputed, Life!Statuses
<1>17. ASSUME NEW h \in Handlers, NEW single \in BOOLEAN, Life!SelectExpired(h, single)
       PROVE  LifeInv'
  <2>. DEFINE set == [Life!NoChange EXCEPT !.status = "deleted"]
              j == [Life!Rest EXCEPT !.pc = "writing", !.op = "sweep", !.set = set]
  <2>1. set \in Life!Change
    BY <1>9 DEF Life!Statuses
  <2>. HIDE DEF set
  <2>2. j \in Life!Job /\ j.pc = "writing" /\ j.op = "sweep"
    BY <2>1, RestIs DEF Life!Job, Life!Ops
  <2>3. /\ Life!Become(h, j) /\ job[h].pc = "idle" /\ row.status # "none" /\ ~lock /\ lock' = TRUE
        /\ UNCHANGED <<row, shop, today, cache, barred, spoilt>>
    BY <1>17 DEF Life!SelectExpired, set
  <2>4. row.expires <= today
    BY <1>0, <1>17 DEF Life!SelectExpired, Life!Past, Life!Row, Life!Days
  <2>. HIDE DEF j
  <2>. QED
    BY <1>0, <1>7, <2>2, <2>3, <2>4
<1>18. ASSUME NEW h \in Handlers, Life!Sweep(h)
       PROVE  LifeInv'
  <2>1. /\ Sweeping(job[h]) /\ row' = [row EXCEPT !.status = "deleted"] /\ lock' = FALSE
        /\ Life!Onwards(h, "clearing", Life!Overtaken(h, row', shop))
        /\ spoilt' \in BOOLEAN /\ UNCHANGED <<shop, today, cache, barred>>
    BY <1>0, <1>18 DEF Life!Sweep, Sweeping
  <2>2. row' \in Life!Row /\ row'.status = "deleted"
    BY <1>0, <2>1 DEF Life!Row, Life!Statuses
  <2>3. row.status # "none" /\ \A g \in Handlers \ {h} : ~Sweeping(job[g])
    BY <1>0, <2>1 DEF JobsInv
  <2>. QED
    BY <1>0, <2>1, <2>2, <2>3, WriteStep
<1>19. ASSUME NEW h \in Handlers, Life!Fail(h)
       PROVE  LifeInv'
  <2>1. /\ job[h].pc \in {"profile", "writing", "blocking", "storing"}
        /\ lock' = (lock /\ job[h].op # "sweep") /\ Life!Become(h, Life!Rest)
        /\ UNCHANGED <<row, shop, today, cache, barred, spoilt>>
    BY <1>19 DEF Life!Fail
  <2>2. \A g \in Handlers \ {h} : Sweeping(job[g]) => lock'
    BY <1>0, <2>1 DEF JobsInv, JobInv, Sweeping
  <2>3. lock' \in BOOLEAN
    BY <2>1
  <2>. QED
    BY <1>0, <2>1, <2>2, <2>3, RestIs, JobStep DEF JobInv, Sweeping
<1>20. ASSUME NEW h \in Handlers, Life!ReadList(h)
       PROVE  LifeInv'
  <2>1. PICK shows \in BOOLEAN : shows = Life!Public(row, shop)
    BY DEF Life!Public
  <2>. DEFINE j == [Life!Rest EXCEPT !.pc = "storing", !.shows = shows]
  <2>2. /\ Life!Become(h, j) /\ job[h].pc = "idle"
        /\ UNCHANGED <<row, shop, today, lock, cache, barred, spoilt>>
    BY <1>20, <2>1 DEF Life!ReadList
  <2>3. j \in Life!Job /\ j.pc = "storing" /\ j.op = "list" /\ j.shows = shows
    BY RestIs DEF Life!Job, Life!Ops
  <2>. HIDE DEF j
  <2>4. JobInv(j)'
    BY <2>1, <2>2, <2>3 DEF JobInv, Sweeping
  <2>. QED
    BY <1>0, <2>2, <2>3, <2>4, JobStep DEF JobInv, Sweeping, JobsInv
<1>21. ASSUME NEW h \in Handlers, Life!StoreList(h)
       PROVE  LifeInv'
  <2>1. /\ job[h].pc = "storing" /\ Life!Become(h, Life!Rest)
        /\ cache' = [filled |-> TRUE, shows |-> job[h].shows] /\ spoilt' = job[h].overtaken
        /\ UNCHANGED <<row, shop, today, lock, barred>>
    BY <1>21 DEF Life!StoreList
  <2>2. job[h].shows \in BOOLEAN /\ job[h].overtaken \in BOOLEAN
    BY <1>0 DEF JobsInv, Life!Job
  <2>3. JobsInv'
    BY <1>0, <2>1, RestIs, OneJob DEF JobsInv, JobInv, Sweeping, Life!Become
  <2>4. Life!CacheKeepsUp'
    BY <1>0, <2>1 DEF JobsInv, JobInv, Life!CacheKeepsUp
  <2>. QED
    BY <1>0, <2>1, <2>2, <2>3, <2>4 DEF LifeInv, JobsInv, Life!TypeOK
<1>22. CASE Life!AgeOut
  <2>1. UNCHANGED <<row, shop, today, job, lock, barred>> /\ cache' = Life!Empty /\ spoilt' = FALSE
    BY <1>22 DEF Life!AgeOut
  <2>. QED
    BY <1>0, <2>1, RestIs DEF LifeInv, JobsInv, JobInv, Sweeping, Life!TypeOK, Life!CacheKeepsUp
<1>23. CASE Life!Midnight
  <2>1. /\ UNCHANGED <<row, shop, job, lock, cache, barred, spoilt>>
        /\ today' = today + 1 /\ today < LastDay
    BY <1>23 DEF Life!Midnight
  <2>2. today' \in Life!Days /\ today <= today' /\ row.expires \in Nat
    BY <1>0, <2>1, RestIs DEF LifeInv, Life!TypeOK, Life!Days, Life!Row
  <2>3. \A h \in Handlers : JobInv(job[h])'
    BY <1>0, <2>1, <2>2 DEF JobsInv, JobInv, Sweeping
  <2>. QED
    BY <1>0, <2>1, <2>2, <2>3 DEF LifeInv, JobsInv, Sweeping, Life!TypeOK, Life!CacheKeepsUp
<1>24. CASE UNCHANGED lifeVars
  BY <1>24 DEF lifeVars, LifeInv, JobsInv, JobInv, Sweeping, Life!TypeOK, Life!CacheKeepsUp
<1>. QED
  BY <1>1, <1>2, <1>3, <1>4, <1>5, <1>6, <1>8, <1>10, <1>11, <1>12, <1>13, <1>14, <1>15, <1>16,
     <1>17, <1>18, <1>19, <1>20, <1>21, <1>22, <1>23, <1>24 DEF Life!Next

(* A sweep writes while the product is past its last day.                  *)
LEMMA SweptIsPast ==
  ASSUME LifeInv
  PROVE  \A h \in Handlers :
           job[h].op = "sweep" /\ job[h].pc = "writing" => row.expires <= today
BY DEF LifeInv, JobsInv, JobInv, Sweeping

------------------------------------------------------------------------------
(***************************************************************************)
(* Image files.  A file is in one row at most, and in none while it is     *)
(* only in hand; what an edit is to replace is in no row but the one it    *)
(* edits, and in none once it has written.  The script knows of every file *)
(* that was in a row when it read them, and the others are young.          *)
(***************************************************************************)
UploadInv(h) ==
  LET i == handler[h].upload IN
  i # NoImage =>
    /\ i \in young
    /\ \A p \in Products : image[p] # i
    /\ \A g \in Handlers : handler[g].upload = i => g = h
    /\ i \notin doomed \cup dying

OldInv(h) ==
  LET i == handler[h].old IN
  i # NoImage =>
    /\ \A g \in Handlers : handler[g].upload # i
    /\ \A p \in Products : image[p] = i =>
         handler[h].pc = "editing" /\ handler[h].product = p

RowInv(p) ==
  /\ image[p] \in disk \cup condemned \cup {NoImage}
  /\ sweeping /\ image[p] \in disk => image[p] \in refs \cup young
  /\ \A q \in Products : image[p] = image[q] => p = q \/ image[p] = NoImage

FileInv ==
  /\ Files!TypeOK
  /\ \A h \in Handlers : UploadInv(h) /\ OldInv(h)
  /\ \A p \in Products : RowInv(p)
  /\ dying \subseteq condemned

(* A request that is over has nothing in hand.                             *)
LEMMA IdleIs ==
  /\ Files!Idle \in Files!Handler
  /\ Files!Idle.pc = "idle" /\ Files!Idle.upload = NoImage /\ Files!Idle.old = NoImage
  /\ NoImage \notin Images
BY CatalogueAssumption DEF Files!ImageAssumption, Files!Idle, Files!Handler

(* Nothing is in hand.                                                     *)
LEMMA FileInit == Files!Init => FileInv
<1>. SUFFICES ASSUME Files!Init PROVE FileInv
  OBVIOUS
<1>. USE IdleIs DEF Files!Init
<1>1. Files!TypeOK
  BY DEF Files!TypeOK
<1>2. \A h \in Handlers : UploadInv(h) /\ OldInv(h)
  BY DEF UploadInv, OldInv
<1>3. \A p \in Products : RowInv(p)
  BY DEF RowInv
<1>. QED
  BY <1>1, <1>2, <1>3 DEF FileInv

(* What the steps before have made sure of, spelled out.                   *)
LEMMA FileFacts ==
  ASSUME FileInv
  PROVE  /\ \A h \in Handlers :
              /\ handler[h] \in Files!Handler
              /\ handler[h].upload \in Images \cup {NoImage}
              /\ handler[h].old \in Images \cup {NoImage}
         /\ \A p \in Products : image[p] \in Images \cup {NoImage}
         /\ young \subseteq disk /\ disk \subseteq Images
BY DEF FileInv, Files!TypeOK, Files!Handler

(* A step after which request h has a record of another make.              *)
LEMMA HandlerMoves ==
  ASSUME FileInv, NEW h \in Handlers, NEW j \in Files!Handler, handler' = [handler EXCEPT ![h] = j],
         j.pc \in {"editing", "replacing"} => j.product \in Products,
         j.pc = "replacing" => j.old # NoImage
  PROVE  /\ handler' \in [Handlers -> Files!Handler] /\ handler'[h] = j
         /\ \A g \in Handlers \ {h} : handler'[g] = handler[g]
         /\ \A g \in Handlers :
              /\ handler'[g].pc \in {"editing", "replacing"} => handler'[g].product \in Products
              /\ handler'[g].pc = "replacing" => handler'[g].old # NoImage
<1>1. /\ handler' \in [Handlers -> Files!Handler] /\ handler'[h] = j
      /\ \A g \in Handlers \ {h} : handler'[g] = handler[g]
  BY DEF FileInv, Files!TypeOK
<1>2. ASSUME NEW g \in Handlers
      PROVE  /\ handler'[g].pc \in {"editing", "replacing"} => handler'[g].product \in Products
             /\ handler'[g].pc = "replacing" => handler'[g].old # NoImage
  BY <1>1 DEF FileInv, Files!TypeOK
<1>. QED
  BY <1>1, <1>2

(* A request ends and takes the file i away, or none.                      *)
LEMMA HandlerEnds ==
  ASSUME FileInv, NEW h \in Handlers, Files!Done(h), NEW i, Files!Unlinked(i),
         \A g \in Handlers \ {h} : handler[g].upload # i \/ i = NoImage,
         \A p \in Products : image[p] # i \/ i = NoImage,
         UNCHANGED <<status, image, doomed, dying, sweeping, refs, condemned>>
  PROVE  FileInv'
<1>1. handler' = [handler EXCEPT ![h] = Files!Idle]
  BY DEF Files!Done
<1>2. /\ handler' \in [Handlers -> Files!Handler] /\ handler'[h] = Files!Idle
      /\ \A g \in Handlers \ {h} : handler'[g] = handler[g]
      /\ \A g \in Handlers :
           /\ handler'[g].pc \in {"editing", "replacing"} => handler'[g].product \in Products
           /\ handler'[g].pc = "replacing" => handler'[g].old # NoImage
  BY <1>1, IdleIs, HandlerMoves
<1>3. young' = young \ {i} /\ disk' = disk \ {i}
  BY DEF Files!Unlinked
<1>4. Files!TypeOK'
  BY <1>2, <1>3 DEF FileInv, Files!TypeOK
<1>5. \A g \in Handlers : UploadInv(g)' /\ OldInv(g)'
  <2>. SUFFICES ASSUME NEW g \in Handlers PROVE UploadInv(g)' /\ OldInv(g)'
    OBVIOUS
  <2>1. CASE g = h
    BY <1>2, <2>1, IdleIs DEF UploadInv, OldInv
  <2>2. CASE g # h
    BY <1>2, <1>3, <2>2, IdleIs DEF FileInv, UploadInv, OldInv
  <2>. QED
    BY <2>1, <2>2
<1>6. \A p \in Products : RowInv(p)'
  BY <1>3 DEF FileInv, RowInv
<1>. QED
  BY <1>4, <1>5, <1>6 DEF FileInv

(* A request writes the row of product p, and what it had in hand is there.*)
LEMMA RowWritten ==
  ASSUME FileInv, NEW h \in Handlers, NEW p \in Products, NEW j \in Files!Handler,
         handler' = [handler EXCEPT ![h] = j], j.upload = NoImage,
         \/ j.old = NoImage /\ j.pc = "idle"
         \/ /\ j.pc = "replacing" /\ j.old = handler[h].old /\ j.old # NoImage
            /\ j.product = p /\ handler[h].product = p,
         image' = [image EXCEPT ![p] = handler[h].upload],
         status' \in [Products -> {"none", "listed", "deleted"}],
         UNCHANGED <<disk, young, doomed, dying, sweeping, refs, condemned>>
  PROVE  FileInv'
<1>. USE FileFacts
<1>2. /\ handler' \in [Handlers -> Files!Handler] /\ handler'[h] = j
      /\ \A g \in Handlers \ {h} : handler'[g] = handler[g]
      /\ \A g \in Handlers :
           /\ handler'[g].pc \in {"editing", "replacing"} => handler'[g].product \in Products
           /\ handler'[g].pc = "replacing" => handler'[g].old # NoImage
  BY HandlerMoves
<1>3. /\ image' \in [Products -> Images \cup {NoImage}] /\ image'[p] = handler[h].upload
      /\ \A q \in Products \ {p} : image'[q] = image[q]
  BY DEF FileInv, Files!TypeOK
<1>4. Files!TypeOK'
  BY <1>2, <1>3 DEF FileInv, Files!TypeOK
<1>5. ASSUME NEW g \in Handlers PROVE UploadInv(g)' /\ OldInv(g)'
  <2>1. CASE g = h
    BY <1>2, <1>3, <2>1 DEF FileInv, UploadInv, OldInv
  <2>2. CASE g # h
    BY <1>2, <1>3, <2>2 DEF FileInv, UploadInv, OldInv
  <2>. QED
    BY <2>1, <2>2
<1>6. ASSUME NEW q \in Products PROVE RowInv(q)'
  <2>1. CASE q = p
    BY <1>3, <2>1, IdleIs DEF FileInv, RowInv, UploadInv
  <2>2. CASE q # p
    BY <1>3, <2>2 DEF FileInv, RowInv, UploadInv
  <2>. QED
    BY <2>1, <2>2
<1>. QED
  BY <1>4, <1>5, <1>6 DEF FileInv

(* Rows and requests stay as they are; the clean-ups' sets may change.     *)
LEMMA CleanupStep ==
  ASSUME FileInv, UNCHANGED <<image, handler, disk, young>>,
         status' \in [Products -> {"none", "listed", "deleted"}],
         doomed' \subseteq Images, dying' \subseteq condemned', condemned \subseteq condemned',
         condemned' \subseteq Images, sweeping' \in BOOLEAN, refs' \subseteq Images,
         doomed' \cup dying' \subseteq doomed \cup dying \cup {image[p] : p \in Products},
         sweeping' => \A p \in Products : image[p] \in disk => image[p] \in refs' \cup young
  PROVE  FileInv'
<1>1. Files!TypeOK'
  BY DEF FileInv, Files!TypeOK
<1>2. \A h \in Handlers : UploadInv(h)' /\ OldInv(h)'
  BY DEF FileInv, UploadInv, OldInv
<1>3. \A p \in Products : RowInv(p)'
  BY DEF FileInv, RowInv
<1>. QED
  BY <1>1, <1>2, <1>3 DEF FileInv

(* Every step of the handlers, of the script and of a crash.               *)
LEMMA FileStep ==
  ASSUME FileInv, [Files!Next]_fileVars
  PROVE  FileInv'
<1>. USE FileFacts, IdleIs
<1>1. ASSUME NEW h \in Handlers, NEW i \in Images, Files!Upload(h, i)
      PROVE  FileInv'
  <2>. DEFINE j == [handler[h] EXCEPT !.pc = "uploaded", !.upload = i]
  <2>1. j \in Files!Handler /\ j.pc = "uploaded" /\ j.upload = i /\ j.old = NoImage
    BY <1>1 DEF Files!Upload, Files!Handler
  <2>2. /\ handler' = [handler EXCEPT ![h] = j]
        /\ disk' = disk \cup {i} /\ young' = young \cup {i}
        /\ UNCHANGED <<status, image, doomed, dying, sweeping, refs, condemned>>
    BY <1>1 DEF Files!Upload, Files!row, Files!clean, FileInv, Files!TypeOK
  <2>3. /\ i \notin disk \cup doomed \cup dying
        /\ \A p \in Products : image[p] # i
        /\ \A g \in Handlers : handler[g].upload # i /\ handler[g].old # i
    BY <1>1 DEF Files!Upload, Files!Fresh, Files!InRows, Files!InHand, Files!Outgoing
  <2>. HIDE DEF j
  <2>4. /\ handler' \in [Handlers -> Files!Handler] /\ handler'[h] = j
        /\ \A g \in Handlers \ {h} : handler'[g] = handler[g]
        /\ \A g \in Handlers :
             /\ handler'[g].pc \in {"editing", "replacing"} => handler'[g].product \in Products
             /\ handler'[g].pc = "replacing" => handler'[g].old # NoImage
    BY <2>1, <2>2, HandlerMoves
  <2>5. Files!TypeOK'
    BY <2>2, <2>4 DEF FileInv, Files!TypeOK
  <2>6. ASSUME NEW g \in Handlers PROVE UploadInv(g)' /\ OldInv(g)'
    <3>1. CASE g = h
      BY <2>1, <2>2, <2>3, <2>4, <3>1 DEF FileInv, UploadInv, OldInv
    <3>2. CASE g # h
      BY <2>1, <2>2, <2>3, <2>4, <3>2 DEF FileInv, UploadInv, OldInv
    <3>. QED
      BY <3>1, <3>2
  <2>7. \A p \in Products : RowInv(p)'
    BY <2>2, <2>3 DEF FileInv, RowInv
  <2>. QED
    BY <2>2, <2>5, <2>6, <2>7 DEF FileInv
<1>2. ASSUME NEW h \in Handlers, Files!Abandon(h)
      PROVE  FileInv'
  <2>1. /\ Files!Done(h) /\ disk' = disk \ {NoImage} /\ young' = young \ {NoImage}
        /\ UNCHANGED <<status, image, doomed, dying, sweeping, refs, condemned>>
    BY <1>2 DEF Files!Abandon, Files!row, Files!files, Files!clean
  <2>. QED
    BY <2>1, HandlerEnds DEF Files!Unlinked
<1>3. ASSUME NEW h \in Handlers, NEW p \in Products, Files!AddProduct(h, p)
      PROVE  FileInv'
  <2>1. /\ handler' = [handler EXCEPT ![h] = Files!Idle]
        /\ image' = [image EXCEPT ![p] = handler[h].upload]
        /\ status' = [status EXCEPT ![p] = "listed"]
        /\ UNCHANGED <<disk, young, doomed, dying, sweeping, refs, condemned>>
    BY <1>3 DEF Files!AddProduct, Files!Done, Files!files, Files!clean
  <2>2. status' \in [Products -> {"none", "listed", "deleted"}]
    BY <2>1 DEF FileInv, Files!TypeOK
  <2>. QED
    BY <2>1, <2>2, RowWritten
<1>4. ASSUME NEW h \in Handlers, NEW p \in Products, Files!FindForEdit(h, p)
      PROVE  FileInv'
  <2>. DEFINE j == [handler[h] EXCEPT !.pc = "editing", !.product = p, !.old = image[p]]
  <2>1. /\ j \in Files!Handler /\ j.pc = "editing" /\ j.upload = handler[h].upload
        /\ j.old = image[p] /\ j.product = p
    BY <1>4 DEF Files!Handler
  <2>2. /\ handler' = [handler EXCEPT ![h] = j]
        /\ UNCHANGED <<status, image, disk, young, doomed, dying, sweeping, refs, condemned>>
    BY <1>4 DEF Files!FindForEdit, Files!row, Files!files, Files!clean, FileInv, Files!TypeOK
  <2>. HIDE DEF j
  <2>3. /\ handler' \in [Handlers -> Files!Handler] /\ handler'[h] = j
        /\ \A g \in Handlers \ {h} : handler'[g] = handler[g]
        /\ \A g \in Handlers :
             /\ handler'[g].pc \in {"editing", "replacing"} => handler'[g].product \in Products
             /\ handler'[g].pc = "replacing" => handler'[g].old # NoImage
    BY <2>1, <2>2, HandlerMoves
  <2>4. Files!TypeOK'
    BY <2>2, <2>3 DEF FileInv, Files!TypeOK
  <2>5. \A g \in Handlers : handler'[g].upload = handler[g].upload
    BY <2>1, <2>3
  <2>6. ASSUME NEW g \in Handlers PROVE UploadInv(g)' /\ OldInv(g)'
    <3>1. UploadInv(g)'
      BY <2>2, <2>5 DEF FileInv, UploadInv
    <3>2. CASE g = h
      BY <2>1, <2>2, <2>3, <2>5, <3>1, <3>2 DEF FileInv, OldInv, UploadInv, RowInv
    <3>3. CASE g # h
      BY <2>2, <2>3, <2>5, <3>1, <3>3 DEF FileInv, OldInv
    <3>. QED
      BY <3>1, <3>2, <3>3
  <2>7. \A q \in Products : RowInv(q)'
    BY <2>2 DEF FileInv, RowInv
  <2>. QED
    BY <2>2, <2>4, <2>6, <2>7 DEF FileInv
<1>5. ASSUME NEW h \in Handlers, NEW relist \in BOOLEAN, Files!UpdateRow(h, relist)
      PROVE  FileInv'
  <2>. DEFINE p == handler[h].product
              ends == [handler[h] EXCEPT !.pc = "replacing", !.upload = NoImage]
  <2>1. /\ handler[h].pc = "editing" /\ p \in Products
        /\ image' = [image EXCEPT ![p] = handler[h].upload]
        /\ status' = [status EXCEPT ![p] = IF relist THEN "listed" ELSE @]
        /\ UNCHANGED <<disk, young, doomed, dying, sweeping, refs, condemned>>
    BY <1>5 DEF Files!UpdateRow, Files!Edited, Files!files, Files!clean, FileInv, Files!TypeOK
  <2>2. status' \in [Products -> {"none", "listed", "deleted"}]
    BY <2>1 DEF FileInv, Files!TypeOK
  <2>3. CASE handler[h].old = NoImage
    <3>1. handler' = [handler EXCEPT ![h] = Files!Idle]
      BY <1>5, <2>3 DEF Files!UpdateRow, Files!Done
    <3>. QED
      BY <2>1, <2>2, <3>1, RowWritten
  <2>4. CASE handler[h].old # NoImage
    <3>1. /\ ends \in Files!Handler /\ ends.pc = "replacing" /\ ends.upload = NoImage
          /\ ends.old = handler[h].old /\ ends.product = p
      BY DEF Files!Handler
    <3>2. handler' = [handler EXCEPT ![h] = ends]
      BY <1>5, <2>4 DEF Files!UpdateRow, FileInv, Files!TypeOK
    <3>. HIDE DEF ends
    <3>. QED
      BY <2>1, <2>2, <2>4, <3>1, <3>2, RowWritten
  <2>. QED
    BY <2>3, <2>4
<1>6. ASSUME NEW h \in Handlers, Files!DropOld(h)
      PROVE  FileInv'
  <2>1. /\ handler[h].pc = "replacing" /\ Files!Unlinked(handler[h].old) /\ Files!Done(h)
        /\ UNCHANGED <<status, image, doomed, dying, sweeping, refs, condemned>>
    BY <1>6 DEF Files!DropOld, Files!row, Files!clean
  <2>2. OldInv(h)
    BY DEF FileInv
  <2>. QED
    BY <2>1, <2>2, HandlerEnds DEF OldInv
<1>7. ASSUME NEW h \in Handlers, Files!WriteFails(h)
      PROVE  FileInv'
  <2>1. /\ Files!Unlinked(handler[h].upload) /\ Files!Done(h)
        /\ UNCHANGED <<status, image, doomed, dying, sweeping, refs, condemned>>
    BY <1>7 DEF Files!WriteFails, Files!row, Files!clean
  <2>2. UploadInv(h)
    BY DEF FileInv
  <2>. QED
    BY <2>1, <2>2, HandlerEnds DEF UploadInv
<1>8. ASSUME NEW p \in Products, Files!DeleteProduct(p) \/ Files!UpdateProductStatus(p)
      PROVE  FileInv'
  <2>1. /\ status' \in [Products -> {"none", "listed", "deleted"}]
        /\ UNCHANGED <<image, disk, young, handler, doomed, dying, sweeping, refs, condemned>>
    BY <1>8 DEF Files!DeleteProduct, Files!UpdateProductStatus, Files!files, Files!clean,
                FileInv, Files!TypeOK
  <2>. QED
    BY <2>1, CleanupStep DEF FileInv, Files!TypeOK, RowInv
<1>9. ASSUME NEW S \in SUBSET Products, Files!DeleteExpired(S)
      PROVE  FileInv'
  <2>1. /\ doomed' = doomed \cup ({image[p] : p \in S} \ {NoImage})
        /\ status' \in [Products -> {"none", "listed", "deleted"}]
        /\ UNCHANGED <<image, disk, young, handler, dying, sweeping, refs, condemned>>
    BY <1>9 DEF Files!DeleteExpired, Files!files, FileInv, Files!TypeOK
  <2>2. doomed' \subseteq Images /\ doomed' \subseteq doomed \cup {image[p] : p \in Products}
    BY <2>1 DEF FileInv, Files!TypeOK
  <2>. QED
    BY <2>1, <2>2, CleanupStep DEF FileInv, Files!TypeOK, RowInv
<1>10. ASSUME NEW i \in Images, Files!CountUses(i)
       PROVE  FileInv'
  <2>1. /\ doomed' = doomed \ {i} /\ i \in doomed
        /\ dying' = IF Files!InUse(i) THEN dying ELSE dying \cup {i}
        /\ condemned' = condemned \cup ({i} \ {image[p] : p \in Files!Listed})
        /\ UNCHANGED <<status, image, disk, young, handler, sweeping, refs>>
    BY <1>10 DEF Files!CountUses, Files!row, Files!files
  <2>2. dying' \subseteq condemned'
    BY <2>1 DEF FileInv, Files!InUse
  <2>. QED
    BY <2>1, <2>2, CleanupStep DEF FileInv, Files!TypeOK, RowInv
<1>11. ASSUME NEW i \in Images, NEW d \in {dying, dying \ {i}}, dying' = d, Files!Unlinked(i),
              \A g \in Handlers : handler[g].upload # i,
              i \in condemned \/ \A p \in Products : image[p] # i,
              UNCHANGED <<status, image, handler, doomed, sweeping, refs, condemned>>
       PROVE  FileInv'
  <2>1. young' = young \ {i} /\ disk' = disk \ {i}
    BY <1>11 DEF Files!Unlinked
  <2>2. Files!TypeOK'
    BY <1>11, <2>1 DEF FileInv, Files!TypeOK
  <2>3. \A g \in Handlers : UploadInv(g)' /\ OldInv(g)'
    BY <1>11, <2>1 DEF FileInv, UploadInv, OldInv
  <2>4. \A p \in Products : RowInv(p)'
    BY <1>11, <2>1 DEF FileInv, RowInv
  <2>. QED
    BY <1>11, <2>2, <2>3, <2>4 DEF FileInv
<1>12. ASSUME NEW i \in Images, Files!UnlinkImage(i)
       PROVE  FileInv'
  <2>1. /\ i \in dying /\ dying' = dying \ {i} /\ Files!Unlinked(i)
        /\ UNCHANGED <<status, image, handler, doomed, sweeping, refs, condemned>>
    BY <1>12 DEF Files!UnlinkImage, Files!row
  <2>2. i \in condemned /\ \A g \in Handlers : handler[g].upload # i
    BY <2>1 DEF FileInv, UploadInv
  <2>. QED
    BY <1>11, <2>1, <2>2
<1>13. ASSUME NEW i \in Images, Files!SweepFile(i)
       PROVE  FileInv'
  <2>1. /\ sweeping /\ i \in disk \ (refs \cup young) /\ Files!Unlinked(i)
        /\ UNCHANGED <<status, image, handler, doomed, dying, sweeping, refs, condemned>>
    BY <1>13 DEF Files!SweepFile, Files!row, Files!clean
  <2>2. /\ \A g \in Handlers : handler[g].upload # i
        /\ \A p \in Products : image[p] # i
    BY <2>1 DEF FileInv, UploadInv, RowInv
  <2>. QED
    BY <1>11, <2>1, <2>2
<1>14. ASSUME NEW i \in Images, Files!Age(i)
       PROVE  FileInv'
  <2>1. /\ ~sweeping /\ young' = young \ {i}
        /\ \A g \in Handlers : handler[g].upload # i
        /\ UNCHANGED <<status, image, disk, handler, doomed, dying, sweeping, refs, condemned>>
    BY <1>14 DEF Files!Age, Files!row, Files!clean, Files!InHand
  <2>2. Files!TypeOK'
    BY <2>1 DEF FileInv, Files!TypeOK
  <2>. QED
    BY <2>1, <2>2 DEF FileInv, UploadInv, OldInv, RowInv
<1>15. CASE Files!ReadRefs
  <2>1. /\ sweeping' = TRUE /\ refs' = Files!InRows
        /\ UNCHANGED <<status, image, disk, young, handler, doomed, dying, condemned>>
    BY <1>15 DEF Files!ReadRefs, Files!row, Files!files
  <2>2. refs' \subseteq Images /\ \A p \in Products : image[p] \in disk => image[p] \in refs'
    BY <2>1 DEF Files!InRows
  <2>. QED
    BY <2>1, <2>2, CleanupStep DEF FileInv, Files!TypeOK
<1>16. CASE Files!EndSweep
  <2>1. /\ sweeping' = FALSE /\ refs' = {}
        /\ UNCHANGED <<status, image, disk, young, handler, doomed, dying, condemned>>
    BY <1>16 DEF Files!EndSweep, Files!row, Files!files
  <2>. QED
    BY <2>1, CleanupStep DEF FileInv, Files!TypeOK
<1>17. CASE Files!Crash
  <2>1. /\ handler' = [h \in Handlers |-> Files!Idle] /\ doomed' = {} /\ dying' = {}
        /\ UNCHANGED <<status, image, disk, young, sweeping, refs, condemned>>
    BY <1>17 DEF Files!Crash, Files!row, Files!files
  <2>. QED
    BY <2>1 DEF FileInv, Files!TypeOK, UploadInv, OldInv, RowInv
<1>18. CASE UNCHANGED fileVars
  BY <1>18 DEF fileVars, FileInv, Files!TypeOK, UploadInv, OldInv, RowInv
<1>. QED
  BY <1>1, <1>2, <1>3, <1>4, <1>5, <1>6, <1>7, <1>8, <1>9, <1>10, <1>12, <1>13, <1>14, <1>15,
     <1>16, <1>17, <1>18 DEF Files!Next

(* What the invariant says of a row is what is promised of it.             *)
LEMMA FilesAreThere == FileInv => Files!ImageThere
BY DEF FileInv, RowInv, Files!ImageThere, Files!Listed

------------------------------------------------------------------------------
(***************************************************************************)
(* The storefront.  While a deletion is under way that nothing has         *)
(* crossed, the client asks for nothing, and keeps no more than the panel  *)
(* left it; once the server has cleared its cache that keeps nothing; and  *)
(* so it stays for as long as the product is gone.                         *)
(***************************************************************************)
Keys     == Store!ApiKeys \cup {"own"}
Requests == [at : {"none", "sent", "read", "answered"}, key : Keys, shows : BOOLEAN,
             live : BOOLEAN]

Unread(loads) ==
  \A l \in Visits : /\ loads[l].at \in {"none", "sent"} => ~loads[l].shows
                    /\ loads[l].at = "read" => loads[l].key \in Store!HotKeys

RemovalInv ==
  removal.at # "none" /\ ~crossed =>
    /\ apiCache \subseteq left /\ \A l \in Visits : visit[l].at = "none"
    /\ removal.at \in {"updated", "cleared"} => product = "deleted"
    /\ removal.at = "cleared" => hotCache = {} /\ held = {}

GoneInv ==
  /\ gone => product = "deleted" /\ removal.at = "none"
  /\ gone /\ ~crossed =>
       /\ apiCache \subseteq left /\ hotCache = {} /\ held = {}
       /\ \A l \in Visits : ~visit[l].shows

StoreInv ==
  /\ Store!TypeOK
  /\ Unread(visit)
  /\ RemovalInv
  /\ GoneInv

(* What the pages ask for and what they show when it does not come.        *)
LEMMA PagesAre ==
  /\ \A p \in Store!Pages : /\ p # "panel" => Store!View[p].asks \in Keys
                            /\ Store!View[p].fails \in {"error", "no", "same"}
  /\ Store!HomePages \subseteq Store!Pages \ {"panel"}
BY DEF Store!Pages, Store!View, Keys, Store!ApiKeys, Store!HotKeys, Store!Home, Store!HomeNearby,
       Store!Category, Store!Location, Store!Profile, Store!ProductDetails, Store!AdminPanel,
       Store!HomePages

(* A request that is over, and a deletion that is.                         *)
LEMMA NoLoadIs ==
  /\ Store!NoLoad \in Requests /\ Store!NoLoad.at = "none" /\ Store!NoLoad.shows = FALSE
  /\ Store!NoRemoval.at = "none" /\ Store!NoRemoval \in
       [at : {"none", "sent", "found", "updated", "cleared", "failed"}, from : Store!Pages,
        live : BOOLEAN]
BY DEF Store!NoLoad, Requests, Keys, Store!ApiKeys, Store!HotKeys, Store!NoRemoval, Store!Pages,
       Store!View

(* Nothing is asked for, cached or being deleted.                          *)
LEMMA StoreInit == Store!Init => StoreInv
<1>. SUFFICES ASSUME Store!Init PROVE StoreInv
  OBVIOUS
<1>. USE NoLoadIs DEF Store!Init
<1>1. Store!TypeOK
  BY DEF Store!TypeOK, Requests, Keys
<1>2. Unread(visit)
  BY DEF Unread
<1>. QED
  BY <1>1, <1>2 DEF StoreInv, RemovalInv, GoneInv

(* A page asks: the answer is kept already, or one request more is sent,   *)
(* which crosses the deletion that is under way.                           *)
LEMMA FetchIs ==
  ASSUME NEW loads \in [Visits -> Requests], NEW k \in Keys, NEW live \in BOOLEAN,
         screen \in {"yes", "no", "error"}, crossed \in BOOLEAN, Store!Fetch(k, loads, live)
  PROVE  /\ visit' \in [Visits -> Requests] /\ screen' \in {"yes", "no", "error"}
         /\ crossed' \in BOOLEAN /\ (crossed => crossed')
         /\ ~crossed' /\ removal'.at # "none" => visit' = loads
         /\ \A l \in Visits : \/ visit'[l] = loads[l]
                              \/ visit'[l].at = "sent" /\ visit'[l].shows = FALSE
<1>1. CASE Store!Kept(k, loads, live)
  BY <1>1 DEF Store!Kept, Store!Show
<1>2. CASE Store!Ask(k, loads, live)
  <2>. DEFINE j == [at |-> "sent", key |-> k, shows |-> FALSE, live |-> live]
  <2>1. j \in Requests /\ j.at = "sent" /\ j.shows = FALSE
    BY DEF Requests
  <2>2. /\ \E l \in Visits : visit' = [loads EXCEPT ![l] = j]
        /\ screen' \in {"yes", "no", "error"}
        /\ crossed' = (crossed \/ removal'.at # "none")
    BY <1>2 DEF Store!Ask, Store!Show
  <2>. HIDE DEF j
  <2>. QED
    BY <2>1, <2>2
<1>. QED
  BY <1>1, <1>2 DEF Store!Fetch

(* A page asks while the caches and the product stay as they are.          *)
LEMMA FetchStep ==
  ASSUME StoreInv, NEW loads \in [Visits -> Requests], NEW k \in Keys, NEW live \in BOOLEAN,
         Unread(loads),
         \A l \in Visits : /\ loads[l].shows => visit[l].shows
                           /\ visit[l].at = "none" => loads[l].at = "none",
         Store!Fetch(k, loads, live), page' \in route,
         removal' \in [at : {removal.at}, from : Store!Pages, live : BOOLEAN],
         UNCHANGED <<route, role, product, hotCache, held, apiCache, gone, left>>
  PROVE  StoreInv'
<1>1. /\ visit' \in [Visits -> Requests] /\ screen' \in {"yes", "no", "error"}
      /\ crossed' \in BOOLEAN /\ (crossed => crossed')
      /\ ~crossed' /\ removal'.at # "none" => visit' = loads
      /\ \A l \in Visits : \/ visit'[l] = loads[l]
                           \/ visit'[l].at = "sent" /\ visit'[l].shows = FALSE
  BY FetchIs DEF StoreInv, Store!TypeOK
<1>2. removal'.at = removal.at /\ removal.at \in {"none", "sent", "found", "updated", "cleared", "failed"}
  BY DEF StoreInv, Store!TypeOK
<1>3. Store!TypeOK'
  BY <1>1, <1>2 DEF StoreInv, Store!TypeOK, Requests, Keys
<1>4. Unread(visit)'
  BY <1>1 DEF Unread
<1>5. RemovalInv'
  BY <1>1, <1>2 DEF StoreInv, RemovalInv
<1>6. GoneInv'
  BY <1>1, <1>2 DEF StoreInv, GoneInv
<1>. QED
  BY <1>3, <1>4, <1>5, <1>6 DEF StoreInv

(* One request of the visitor moves on; what it stores, or shows, it has   *)
(* read before or reads now.                                               *)
LEMMA LoadStep ==
  ASSUME StoreInv, NEW l \in Visits, visit[l].at # "none",
         NEW j \in Requests, visit' = [visit EXCEPT ![l] = j],
         j.at \in {"none", "sent"} => ~j.shows, j.at = "read" => j.key \in Store!HotKeys,
         j.shows => visit[l].shows \/ product = "active" \/ hotCache # {},
         hotCache' \in SUBSET Store!HotKeys, apiCache' \in SUBSET Store!ApiKeys,
         ~visit[l].shows => hotCache' \subseteq hotCache /\ apiCache' \subseteq apiCache,
         screen' \in {"yes", "no", "error"},
         UNCHANGED <<route, role, product, held, page, removal, gone, left, crossed>>
  PROVE  StoreInv'
<1>1. /\ visit' \in [Visits -> Requests] /\ visit'[l] = j
      /\ \A m \in Visits \ {l} : visit'[m] = visit[m]
  BY DEF StoreInv, Store!TypeOK, Requests, Keys
<1>2. Store!TypeOK'
  BY <1>1 DEF StoreInv, Store!TypeOK, Requests, Keys
<1>3. Unread(visit)'
  BY <1>1 DEF StoreInv, Unread
<1>4. RemovalInv'
  BY DEF StoreInv, RemovalInv
<1>5. GoneInv'
  BY <1>1 DEF StoreInv, GoneInv
<1>. QED
  BY <1>2, <1>3, <1>4, <1>5 DEF StoreInv

(* Every step of the visitor, the caches, the others and the deletion.     *)
LEMMA StoreStep ==
  ASSUME StoreInv, [Store!Next]_storeVars
  PROVE  StoreInv'
<1>. USE NoLoadIs, PagesAre
<1>0. /\ visit \in [Visits -> Requests] /\ route \subseteq Store!Pages /\ page \in route
      /\ \A l \in Visits : /\ visit[l] \in Requests /\ visit[l].key \in Keys
                           /\ visit[l].shows \in BOOLEAN /\ visit[l].live \in BOOLEAN
      /\ removal.from \in Store!Pages /\ removal.live \in BOOLEAN
      /\ removal.at \in {"none", "sent", "found", "updated", "cleared", "failed"}
      /\ gone \in BOOLEAN /\ crossed \in BOOLEAN /\ left \subseteq Store!ApiKeys
      /\ hotCache \subseteq Store!HotKeys /\ held \subseteq Store!HotKeys
      /\ apiCache \subseteq Store!ApiKeys /\ Store!HotKeys \subseteq Store!ApiKeys
      /\ screen \in {"yes", "no", "error"} /\ "around" \in Keys /\ "seller" \in Keys
      /\ {"near", "item"} \subseteq Store!ApiKeys
  BY DEF StoreInv, Store!TypeOK, Requests, Keys, Store!ApiKeys, Store!HotKeys
<1>1. /\ Store!Away \in [Visits -> Requests] /\ Unread(Store!Away)
      /\ \A l \in Visits : Store!Away[l].shows = visit[l].shows /\ Store!Away[l].at = visit[l].at
  <2>1. \A l \in Visits : /\ [visit[l] EXCEPT !.live = FALSE] \in Requests
                          /\ [visit[l] EXCEPT !.live = FALSE].shows = visit[l].shows
                          /\ [visit[l] EXCEPT !.live = FALSE].at = visit[l].at
                          /\ [visit[l] EXCEPT !.live = FALSE].key = visit[l].key
    BY <1>0 DEF Requests
  <2>. QED
    BY <2>1 DEF Store!Away, StoreInv, Unread
<1>2. \A l \in Visits :
        /\ Store!Without(l) \in [Visits -> Requests] /\ Unread(Store!Without(l))
        /\ \A m \in Visits : /\ Store!Without(l)[m].shows => visit[m].shows
                             /\ visit[m].at = "none" => Store!Without(l)[m].at = "none"
  BY <1>0 DEF Store!Without, StoreInv, Unread
<1>3. ASSUME NEW p \in Store!Pages, Store!Visit(p)
      PROVE  StoreInv'
  <2>. DEFINE loads == Store!Left(p)
  <2>1. /\ loads \in [Visits -> Requests] /\ Unread(loads)
        /\ \A l \in Visits : loads[l].shows = visit[l].shows /\ loads[l].at = visit[l].at
    BY <1>0, <1>1 DEF Store!Left, StoreInv
  <2>2. /\ p \in route /\ page' = p /\ Store!Fetch(Store!View[p].asks, loads, TRUE)
        /\ UNCHANGED <<route, role, product, hotCache, held, apiCache, gone, left>>
        /\ p # "panel"
    BY <1>3 DEF Store!Visit, Store!server
  <2>3. removal' \in [at : {removal.at}, from : Store!Pages, live : BOOLEAN]
    <3>1. removal' = [removal EXCEPT !.live = @ /\ {page, p} \subseteq Store!HomePages]
      BY <1>3 DEF Store!Visit
    <3>. QED
      BY <1>0, <3>1 DEF StoreInv, Store!TypeOK
  <2>. HIDE DEF loads
  <2>. QED
    BY <2>1, <2>2, <2>3, FetchStep
<1>4. CASE Store!Retry
  <2>1. /\ Store!Fetch(Store!View[page].asks, visit, TRUE)
        /\ UNCHANGED <<route, role, product, hotCache, held, apiCache, page, gone, left, removal>>
        /\ page # "panel" /\ page \in Store!Pages
    BY <1>4 DEF Store!Retry, Store!server
  <2>2. removal' \in [at : {removal.at}, from : Store!Pages, live : BOOLEAN]
    BY <1>0, <2>1 DEF StoreInv, Store!TypeOK
  <2>. QED
    BY <1>0, <2>1, <2>2, FetchStep DEF StoreInv
<1>. DEFINE Same == UNCHANGED <<route, role, product, held, page, removal, gone, left, crossed>>
<1>5. ASSUME NEW l \in Visits, visit[l].at # "none", NEW at \in {"read", "answered"},
             at = "read" => visit[l].key \in Store!HotKeys,
             NEW b \in BOOLEAN, b => visit[l].shows \/ product = "active" \/ hotCache # {},
             visit' = [visit EXCEPT ![l].at = at, ![l].shows = b],
             hotCache' \in SUBSET Store!HotKeys, ~visit[l].shows => hotCache' \subseteq hotCache,
             UNCHANGED <<apiCache, screen>>, Same
      PROVE  StoreInv'
  <2>. DEFINE j == [visit[l] EXCEPT !.at = at, !.shows = b]
  <2>1. j \in Requests /\ j.at = at /\ j.shows = b /\ j.key = visit[l].key
    BY <1>0 DEF Requests
  <2>2. visit' = [visit EXCEPT ![l] = j]
    BY <1>0, <1>5
  <2>. HIDE DEF j
  <2>3. /\ apiCache' \in SUBSET Store!ApiKeys /\ apiCache' \subseteq apiCache
        /\ screen' \in {"yes", "no", "error"}
        /\ UNCHANGED <<route, role, product, held, page, removal, gone, left, crossed>>
    BY <1>0, <1>5
  <2>4. (j.at \in {"none", "sent"} => ~j.shows) /\ (j.at = "read" => j.key \in Store!HotKeys)
    BY <1>5, <2>1
  <2>. QED
    BY <1>5, <2>1, <2>2, <2>3, <2>4, LoadStep
<1>6. ASSUME NEW l \in Visits, Store!GetAllProducts(l)
      PROVE  StoreInv'
  <2>1. PICK b \in BOOLEAN : b <=> visit[l].key \in hotCache
    OBVIOUS
  <2>. QED
    BY <1>0, <1>5, <1>6, <2>1 DEF Store!GetAllProducts, Store!Answer, Store!server
<1>7. ASSUME NEW l \in Visits, Store!ListProducts(l)
      PROVE  StoreInv'
  <2>1. PICK b \in BOOLEAN : b = Store!Public
    BY DEF Store!Public
  <2>. QED
    BY <1>0, <1>5, <1>7, <2>1 DEF Store!ListProducts, Store!Public, Store!server
<1>8. ASSUME NEW l \in Visits, Store!StoreList(l)
      PROVE  StoreInv'
  <2>1. visit[l].key \in Store!HotKeys
    BY <1>8 DEF StoreInv, Unread, Store!StoreList
  <2>. QED
    BY <1>0, <1>5, <1>8, <2>1 DEF Store!StoreList, Store!Answer, Store!Keeping
<1>9. ASSUME NEW l \in Visits, NEW k \in Keys, Store!Unstored(l, k)
      PROVE  StoreInv'
  <2>1. PICK b \in BOOLEAN : b = Store!Public
    BY DEF Store!Public
  <2>. QED
    BY <1>0, <1>5, <1>9, <2>1 DEF Store!Unstored, Store!Answer, Store!Public, Store!server
<1>10. ASSUME NEW l \in Visits, visit[l].at # "none", visit' = Store!Without(l),
              apiCache' \in SUBSET Store!ApiKeys, ~visit[l].shows => apiCache' \subseteq apiCache,
              screen' \in {"yes", "no", "error"}, UNCHANGED hotCache, Same
       PROVE  StoreInv'
  <2>1. /\ hotCache' \in SUBSET Store!HotKeys /\ hotCache' \subseteq hotCache
        /\ UNCHANGED <<route, role, product, held, page, removal, gone, left, crossed>>
        /\ visit' = [visit EXCEPT ![l] = Store!NoLoad]
    BY <1>0, <1>10 DEF Store!Without
  <2>. QED
    BY <1>10, <2>1, LoadStep
<1>11. ASSUME NEW l \in Visits, NEW k \in Keys, Store!Fetch(k, Store!Without(l), visit[l].live),
              UNCHANGED <<route, role, product, hotCache, held, apiCache, page, removal, gone, left>>
       PROVE  StoreInv'
  <2>1. removal' \in [at : {removal.at}, from : Store!Pages, live : BOOLEAN]
    BY <1>0, <1>11 DEF StoreInv, Store!TypeOK
  <2>2. visit[l].live \in BOOLEAN /\ page' \in route
    BY <1>0, <1>11
  <2>. QED
    BY <1>2, <1>11, <2>1, <2>2, FetchStep
<1>12. ASSUME NEW l \in Visits, Store!FetchProducts(l)
       PROVE  StoreInv'
  BY <1>0, <1>10, <1>12 DEF Store!FetchProducts, Store!Keeping, Store!Show, Store!Yes, Store!server
<1>13. ASSUME NEW l \in Visits, Store!FetchNearbyProducts(l)
       PROVE  StoreInv'
  <2>1. CASE Store!Fetch("around", Store!Without(l), visit[l].live) /\ UNCHANGED apiCache
    BY <1>0, <1>11, <1>13, <2>1 DEF Store!FetchNearbyProducts, Store!server
  <2>2. CASE /\ apiCache' = Store!Keeping(apiCache, "near", visit[l].shows)
             /\ Store!Show(visit[l].live, Store!Yes(visit[l].shows))
             /\ visit' = Store!Without(l)
             /\ UNCHANGED crossed
    BY <1>0, <1>10, <1>13, <2>2
       DEF Store!FetchNearbyProducts, Store!Keeping, Store!Show, Store!Yes, Store!server
  <2>. QED
    BY <1>13, <2>1, <2>2 DEF Store!FetchNearbyProducts
<1>14. ASSUME NEW l \in Visits, Store!FetchProductById(l)
       PROVE  StoreInv'
  BY <1>0, <1>10, <1>14 DEF Store!FetchProductById, Store!Show, Store!Yes, Store!server
<1>15. ASSUME NEW l \in Visits, Store!FetchMyItems(l)
       PROVE  StoreInv'
  BY <1>0, <1>10, <1>15 DEF Store!FetchMyItems, Store!Show, Store!Yes, Store!server
<1>16. ASSUME NEW l \in Visits, Store!Lost(l)
       PROVE  StoreInv'
  <2>1. CASE Store!Fetch("seller", Store!Without(l), visit[l].live)
    BY <1>0, <1>11, <1>16, <2>1 DEF Store!Lost, Store!server
  <2>2. CASE /\ LET f == Store!View[page].fails
                IN  Store!Show(visit[l].live /\ f # "same", f)
             /\ visit' = Store!Without(l)
             /\ UNCHANGED crossed
    <3>1. Store!View[page].fails \in {"error", "no", "same"}
      BY <1>0
    <3>2. screen' \in {"yes", "no", "error"}
      BY <1>0, <2>2, <3>1 DEF Store!Show
    <3>. QED
      BY <1>0, <1>10, <1>16, <2>2, <3>2 DEF Store!Lost, Store!server
  <2>. QED
    BY <1>16, <2>1, <2>2 DEF Store!Lost
<1>. USE DEF StoreInv
<1>17. ASSUME NEW k \in Store!HotKeys, Store!OtherReads(k) \/ Store!OtherStores(k) \/ Store!HotGone(k)
       PROVE  StoreInv'
  <2>1. CASE Store!OtherReads(k)
    BY <1>0, <2>1 DEF Store!OtherReads, Store!Public, Store!TypeOK, Unread, RemovalInv, GoneInv
  <2>2. CASE Store!OtherStores(k)
    BY <1>0, <2>2 DEF Store!OtherStores, Store!TypeOK, Unread, RemovalInv, GoneInv
  <2>3. CASE Store!HotGone(k)
    BY <1>0, <2>3 DEF Store!HotGone, Store!TypeOK, Unread, RemovalInv, GoneInv
  <2>. QED
    BY <1>17, <2>1, <2>2, <2>3
<1>18. ASSUME NEW k \in Store!ApiKeys, Store!ApiGone(k)
       PROVE  StoreInv'
  BY <1>0, <1>18 DEF Store!ApiGone, Store!server, Store!TypeOK, Unread, RemovalInv, GoneInv
<1>19. CASE Store!HandleDelete
  <2>1. PICK r \in [at : {"sent"}, from : Store!Pages, live : BOOLEAN] : removal' = r
    BY <1>0, <1>19 DEF Store!HandleDelete, Store!SendDeletion
  <2>. QED
    BY <1>0, <1>19, <2>1
       DEF Store!HandleDelete, Store!SendDeletion, Store!server, Store!TypeOK, Unread,
           RemovalInv, GoneInv
<1>20. ASSUME NEW at \in {"found", "failed", "updated", "cleared"},
              removal' = [removal EXCEPT !.at = at]
       PROVE  /\ removal'.at = at
              /\ removal' \in [at : {"none", "sent", "found", "updated", "cleared", "failed"},
                               from : Store!Pages, live : BOOLEAN]
  BY <1>20 DEF Store!TypeOK
<1>21. CASE Store!FindProduct
  <2>1. PICK at \in {"found", "failed"} : removal' = [removal EXCEPT !.at = at]
    BY <1>21 DEF Store!FindProduct
  <2>. QED
    BY <1>0, <1>20, <1>21, <2>1
       DEF Store!FindProduct, Store!server, Store!TypeOK, Unread, RemovalInv, GoneInv
<1>22. CASE Store!DeleteProduct
  BY <1>0, <1>20, <1>22 DEF Store!DeleteProduct, Store!TypeOK, Unread, RemovalInv, GoneInv
<1>23. CASE Store!ClearHotCache
  BY <1>0, <1>20, <1>23 DEF Store!ClearHotCache, Store!TypeOK, Unread, RemovalInv, GoneInv
<1>24. CASE Store!DeleteBack
  <2>1. CASE UNCHANGED <<page, visit, crossed>> /\ screen' \in {"yes", "no", "error"}
    BY <1>0, <1>24, <2>1
       DEF Store!DeleteBack, Store!server, Store!TypeOK, Unread, RemovalInv, GoneInv
  <2>2. ASSUME NEW p \in Store!HomePages \cap route, page' = p,
               Store!Fetch(Store!View[p].asks, Store!Away, TRUE)
        PROVE  StoreInv'
    <3>1. /\ visit' \in [Visits -> Requests] /\ screen' \in {"yes", "no", "error"}
          /\ crossed' \in BOOLEAN /\ (crossed => crossed')
          /\ \A l \in Visits : \/ visit'[l] = Store!Away[l]
                               \/ visit'[l].at = "sent" /\ visit'[l].shows = FALSE
      BY <1>0, <1>1, <2>2, FetchIs
    <3>2. /\ removal' = Store!NoRemoval /\ gone' = (product = "deleted")
          /\ removal.at = "cleared" /\ UNCHANGED <<route, role, product, hotCache, held, apiCache, left>>
      BY <1>24 DEF Store!DeleteBack, Store!server
    <3>3. Store!TypeOK'
      BY <1>0, <2>2, <3>1, <3>2 DEF Store!TypeOK, Requests, Keys
    <3>4. Unread(visit)'
      BY <1>1, <3>1 DEF Unread
    <3>5. RemovalInv' /\ GoneInv'
      BY <1>0, <1>1, <3>1, <3>2 DEF RemovalInv, GoneInv, Unread
    <3>. QED
      BY <3>3, <3>4, <3>5
  <2>. QED
    BY <1>0, <1>24, <2>1, <2>2 DEF Store!DeleteBack
<1>25. CASE Store!DeleteFails
  BY <1>0, <1>25 DEF Store!DeleteFails, Store!server, Store!TypeOK, Unread, RemovalInv, GoneInv
<1>26. ASSUME NEW s \in {"active", "deleted"}, Store!Elsewhere(s)
       PROVE  StoreInv'
  BY <1>0, <1>26 DEF Store!Elsewhere, Store!TypeOK, Unread, RemovalInv, GoneInv
<1>27. CASE UNCHANGED storeVars
  BY <1>27 DEF storeVars, Store!TypeOK, Unread, RemovalInv, GoneInv
<1>28. {"near", "item", "own"} \subseteq Keys
  BY <1>0 DEF Keys
<1>29. CASE Store!VisitPanel
  <2>1. PICK r \in [at : {removal.at}, from : Store!Pages, live : BOOLEAN] : removal' = r
    BY <1>0, <1>29 DEF Store!VisitPanel, Store!TypeOK
  <2>2. /\ page' \in route /\ visit' = Store!Away /\ screen' = "no"
        /\ UNCHANGED <<route, role, product, hotCache, held, apiCache, gone, left, crossed>>
    BY <1>29 DEF Store!VisitPanel, Store!server
  <2>3. Store!TypeOK'
    BY <1>0, <1>1, <2>1, <2>2 DEF Store!TypeOK, Requests, Keys
  <2>4. Unread(visit)'
    BY <1>1, <2>2
  <2>5. RemovalInv' /\ GoneInv'
    BY <1>0, <1>1, <2>1, <2>2 DEF RemovalInv, GoneInv
  <2>. QED
    BY <2>3, <2>4, <2>5
<1>30. CASE Store!DeleteFromPanel
  <2>1. PICK r \in [at : {"sent"}, from : Store!Pages, live : BOOLEAN] : removal' = r
    BY <1>0, <1>30 DEF Store!DeleteFromPanel, Store!SendDeletion
  <2>. QED
    BY <1>0, <1>30, <2>1
       DEF Store!DeleteFromPanel, Store!SendDeletion, Store!server, Store!TypeOK, Unread,
           RemovalInv, GoneInv
<1>. QED
  BY <1>3, <1>4, <1>6, <1>7, <1>8, <1>9, <1>12, <1>13, <1>14, <1>15, <1>16, <1>17, <1>18, <1>19,
     <1>21, <1>22, <1>23, <1>24, <1>25, <1>26, <1>27, <1>28, <1>29, <1>30
     DEF Store!Next, Store!NearbyProducts, Store!GetProductById, Store!ListSellerProducts

------------------------------------------------------------------------------
(***************************************************************************)
(* The parts together: the one that runs keeps its invariant.              *)
(***************************************************************************)
CatalogueInv ==
  /\ part \in Parts
  /\ part = "life" => LifeInv
  /\ part = "prices" => PriceInv
  /\ part = "files" => FileInv
  /\ part = "store" => StoreInv
  /\ part = "ages" => AgesInv

(* The part that is chosen starts in its invariant.                        *)
LEMMA CatalogueInit == Init => CatalogueInv
<1>. SUFFICES ASSUME Init PROVE CatalogueInv
  OBVIOUS
<1>1. part \in Parts
  BY DEF Init
<1>2. part = "life" => LifeInv
  BY LifeInit DEF Init
<1>3. part = "prices" => PriceInv
  BY PriceInit DEF Init
<1>4. part = "files" => FileInv
  BY FileInit DEF Init
<1>5. part = "store" => StoreInv
  BY StoreInit DEF Init
<1>6. part = "ages" => AgesInv
  BY AgesInitially, CatalogueAssumption DEF Init
<1>. QED
  BY <1>1, <1>2, <1>3, <1>4, <1>5, <1>6 DEF CatalogueInv

(* A step is one of the part that runs, or leaves all of its variables.    *)
LEMMA PartStep ==
  ASSUME part \in Parts, [Next]_vars
  PROVE  /\ part' = part
         /\ part = "life" => [Life!Next]_lifeVars
         /\ part = "prices" => [Price!Next]_priceVars
         /\ part = "files" => [Files!Next]_fileVars
         /\ part = "store" => [Store!Next]_storeVars
         /\ part = "ages" => [AgesNext]_agesVars
<1>1. CASE Next
  BY <1>1 DEF Next
<1>2. CASE UNCHANGED vars
  BY <1>2 DEF vars
<1>. QED
  BY <1>1, <1>2

(* The part that runs keeps its invariant, and stays the part that runs.   *)
LEMMA CatalogueStep ==
  ASSUME CatalogueInv, [Next]_vars
  PROVE  CatalogueInv'
<1>0. part \in Parts /\ part' = part
  BY PartStep DEF CatalogueInv
<1>1. CASE part = "life"
  BY <1>0, <1>1, PartStep, LifeStep DEF CatalogueInv
<1>2. CASE part = "prices"
  BY <1>0, <1>2, PartStep, PriceStep DEF CatalogueInv
<1>3. CASE part = "files"
  BY <1>0, <1>3, PartStep, FileStep DEF CatalogueInv
<1>4. CASE part = "store"
  BY <1>0, <1>4, PartStep, StoreStep DEF CatalogueInv
<1>5. CASE part = "ages"
  BY <1>0, <1>5, PartStep, AgesKept, CatalogueAssumption DEF CatalogueInv
<1>. QED
  BY <1>0, <1>1, <1>2, <1>3, <1>4, <1>5 DEF Parts

(* Hence it holds for good, from which the theorems follow.                *)
LEMMA CatalogueKeeps == Spec => []CatalogueInv
<1>1. Init => CatalogueInv
  BY CatalogueInit
<1>2. CatalogueInv /\ [Next]_vars => CatalogueInv'
  BY CatalogueStep
<1>. QED
  BY <1>1, <1>2, PTL DEF Spec

(* The variables of every part keep to their types.                        *)
THEOREM TypeCorrect == Spec => []TypeOK
<1>1. CatalogueInv => TypeOK
  BY DEF CatalogueInv, TypeOK, LifeInv, PriceInv, FileInv, StoreInv, AgesInv
<1>. QED
  BY <1>1, CatalogueKeeps, PTL

(* PriceEdits: however edits cross, the row's selling price stays within   *)
(* its MRP and its discount is the one of its prices, unless the last one  *)
(* to write left out a price that another had written since (mixed).       *)
THEOREM PricesStayTogether == Spec => []PricesAgree
<1>1. CatalogueInv => PricesAgree
  BY DEF CatalogueInv, PriceInv, PricesAgree
<1>. QED
  BY <1>1, CatalogueKeeps, PTL

(* ProductImages: whatever edits, deletions, crashes and clean-up runs     *)
(* overlap, a listed product keeps the file its row names.                 *)
THEOREM ListedImageIsThere == Spec => []ImageThere
<1>1. CatalogueInv => ImageThere
  BY FilesAreThere DEF CatalogueInv, ImageThere
<1>. QED
  BY <1>1, CatalogueKeeps, PTL

(* ProductLife: a list in the cache shows the product as its row and its   *)
(* shop stand, unless its reader was overtaken by a write or the last      *)
(* write was by a handler that clears nothing.                             *)
THEOREM CachedListIsCurrent == Spec => []CacheKeepsUp
<1>1. CatalogueInv => CacheKeepsUp
  BY DEF CatalogueInv, LifeInv, CacheKeepsUp
<1>. QED
  BY <1>1, CatalogueKeeps, PTL

(* Storefront: what the visitor deleted comes back from neither cache and  *)
(* by no load, but by a load that crossed the deletion, or from what the   *)
(* client's cache held when the admin panel sent the deletion.             *)
THEOREM DeletedStaysAway == Spec => []DeletedIsGone
<1>1. CatalogueInv => DeletedIsGone
  BY DEF CatalogueInv, StoreInv, GoneInv, DeletedIsGone, Store!DeletedIsGone
<1>. QED
  BY <1>1, CatalogueKeeps, PTL

(* ProductLife: the clean-up deletes only what is past its last day, even  *)
(* if its seller extends the product while the clean-up runs.              *)
THEOREM SweepTakesThePast == Spec => OnlyPastIsSwept
<1>1. CatalogueInv => (part = "life" =>
        \A h \in Handlers :
          job[h].op = "sweep" /\ job[h].pc = "writing" /\ job'[h].pc = "clearing"
            => row.expires <= today)
  BY SweptIsPast DEF CatalogueInv
<1>. QED
  BY <1>1, CatalogueKeeps, PTL DEF OnlyPastIsSwept
=============================================================================
