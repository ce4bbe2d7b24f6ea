--------------------------- MODULE AccountsProofs ---------------------------
(***************************************************************************)
(* Theorems about the parts of MCAccounts, for every number of visits,     *)
(* answers, codes, addresses, tokens and requests, and every limit and     *)
(* lifetime.  A part moves by its own steps or not at all, so each has an  *)
(* inductive invariant of its own.                                         *)
(***************************************************************************)
EXTENDS MCAccounts, FiniteSetTheorems, TLAPS

------------------------------------------------------------------------------
(***************************************************************************)
(* Two-step sign-in.  Whoever burns a code holds its row, and a challenge  *)
(* that is still there has as many attempts as wrong codes it answered,    *)
(* but for those that crossed and what each of them set back.              *)
(***************************************************************************)
Drawing == {"purging", "inserting"}
Bare    == {"idle", "purging", "inserting", "totp", "setup", "enabling"}
Past    == {"consuming", "admitting", "in"}

Untouched(v) == kind[v] = "none" /\ attempts[v] = 0 /\ told[v] = 0

VisitInv(v) ==
  /\ wanted[v] = "none" => Untouched(v)
  /\ kind[v] = "none" \/ kind[v] = wanted[v]
  /\ attempts[v] < MaxAttempts
  /\ kind[v] # "none" => told[v] <= MaxAttempts * crossed[v] + attempts[v]
  /\ told[v] <= MaxAttempts * crossed[v] + MaxAttempts

AnswerInv(r) ==
  /\ IF pc[r] = "idle" THEN visit[r] = None
                      ELSE visit[r] \in Visits /\ wanted[visit[r]] # "none"
  /\ pc[r] \in Drawing => /\ Untouched(visit[r])
                          /\ \A s \in Answers : visit[s] = visit[r] => s = r
  /\ pc[r] \in Bare => typed[r] = None
  /\ pc[r] = "counting" => seen[r] < MaxAttempts
  /\ pc[r] = "burning" =>
       typed[r] \in Codes /\ lock[typed[r]] = r /\ code[typed[r]] = "live"
  /\ pc[r] \in Past /\ typed[r] # None => code[typed[r]] \in {"burnt", "deleted"}

LockInv(c) == lock[c] # None => pc[lock[c]] = "burning" /\ typed[lock[c]] = c

SecondStepInv ==
  /\ SecondStep!TypeOK
  /\ \A v \in Visits : VisitInv(v)
  /\ \A r \in Answers : AnswerInv(r)
  /\ \A c \in Codes : LockInv(c)
  /\ RecoveryCodeOnce
  /\ EnabledHasCodes

(* Each answer that crossed another buys MaxAttempts more.                 *)
LEMMA Buys ==
  \A m, k \in Nat : m * k \in Nat /\ m * (k + 1) = m * k + m /\ m * (1 + k) = m * k + m
OBVIOUS

(* Nobody is there, every code is live or none is issued.                  *)
LEMMA SecondStepInit == SecondStep!Init => SecondStepInv
<1>. SUFFICES ASSUME SecondStep!Init
              PROVE  SecondStepInv
  OBVIOUS
<1>0. /\ MaxAttempts \in Nat \ {0}
      /\ None \notin Visits /\ None \notin Answers /\ None \notin Codes
  BY AccountsAssumption DEF SecondStep!TwoFactorAssumption
<1>. USE <1>0 DEF SecondStep!Init
<1>1. SecondStep!TypeOK
  <2>1. code \in [Codes -> {"unissued", "live"}]
    OBVIOUS
  <2>2. /\ attempts \in [Visits -> 0..MaxAttempts] /\ seen \in [Answers -> 0..MaxAttempts]
        /\ told \in [Visits -> Nat] /\ crossed \in [Visits -> Nat]
    OBVIOUS
  <2>3. enabled \in BOOLEAN
    OBVIOUS
  <2>. QED
    BY <2>1, <2>2, <2>3
       DEF SecondStep!TypeOK, SecondStep!Present, SecondStep!Kinds,
           SecondStep!Steps
<1>2. \A v \in Visits : VisitInv(v)
  <2>. SUFFICES ASSUME NEW v \in Visits
                PROVE  VisitInv(v)
    OBVIOUS
  <2>1. /\ wanted[v] = "none" /\ kind[v] = "none"
        /\ told[v] = 0 /\ crossed[v] = 0 /\ attempts[v] = 0
    OBVIOUS
  <2>. QED
    BY <2>1 DEF VisitInv, Untouched
<1>3. \A r \in Answers : AnswerInv(r)
  <2>. SUFFICES ASSUME NEW r \in Answers
                PROVE  AnswerInv(r)
    OBVIOUS
  <2>1. pc[r] = "idle" /\ visit[r] = None /\ typed[r] = None
    OBVIOUS
  <2>. QED
    BY <2>1 DEF AnswerInv, Drawing, Past
<1>4. \A c \in Codes : LockInv(c)
  BY DEF LockInv
<1>5. RecoveryCodeOnce
  BY DEF RecoveryCodeOnce, SecondStep!RecoveryCodeOnce, SecondStep!Redeemed
<1>6. EnabledHasCodes
  BY DEF EnabledHasCodes, SecondStep!EnabledHasCodes, SecondStep!Present
<1>. QED
  BY <1>1, <1>2, <1>3, <1>4, <1>5, <1>6 DEF SecondStepInv

(* Every step of a handler, of the settings page and of the clock.         *)
LEMMA SecondStepStep ==
  ASSUME SecondStepInv, SecondStep!Next \/ UNCHANGED secondStepVars
  PROVE  SecondStepInv'
<1>0. /\ MaxAttempts \in Nat \ {0}
      /\ None \notin Visits /\ None \notin Answers /\ None \notin Codes
  BY AccountsAssumption DEF SecondStep!TwoFactorAssumption
<1>. USE <1>0
     DEF SecondStepInv, SecondStep!tables, SecondStep!memory, SecondStep!history,
         SecondStep!Goto, SecondStep!Go, SecondStep!End, SecondStep!Gone
<1>1. ASSUME NEW r \in Answers, NEW v \in Visits, SecondStep!Greet(r, v)
      PROVE  SecondStepInv'
  <2>1. SecondStep!TypeOK'
    BY <1>1
       DEF SecondStep!Greet, SecondStep!Draw, SecondStep!TypeOK,
           SecondStep!Present, SecondStep!Kinds, SecondStep!Steps
  <2>2. \A w \in Visits : VisitInv(w)'
    BY <1>1
       DEF SecondStep!Greet, SecondStep!Draw, VisitInv, Untouched, AnswerInv,
           Drawing, SecondStep!TypeOK
  <2>3. \A s \in Answers : AnswerInv(s)'
    BY <1>1
       DEF SecondStep!Greet, SecondStep!Draw, AnswerInv, VisitInv, Untouched,
           Drawing, Bare, Past, LockInv, SecondStep!TypeOK
  <2>4. \A d \in Codes : LockInv(d)'
    BY <1>1
       DEF SecondStep!Greet, SecondStep!Draw, LockInv, AnswerInv,
           SecondStep!TypeOK
  <2>5. RecoveryCodeOnce'
    BY <1>1
       DEF SecondStep!Greet, SecondStep!Draw, RecoveryCodeOnce,
           SecondStep!RecoveryCodeOnce, SecondStep!Redeemed, AnswerInv, Bare,
           Past, SecondStep!TypeOK
  <2>6. EnabledHasCodes'
    BY <1>1
       DEF SecondStep!Greet, SecondStep!Draw, EnabledHasCodes,
           SecondStep!EnabledHasCodes, SecondStep!Present, SecondStep!TypeOK
  <2>. QED
    BY <2>1, <2>2, <2>3, <2>4, <2>5, <2>6
<1>2. ASSUME NEW r \in Answers, NEW v \in Visits, SecondStep!InitiateSetup(r, v)
      PROVE  SecondStepInv'
  <2>1. SecondStep!TypeOK'
    BY <1>2
       DEF SecondStep!InitiateSetup, SecondStep!Draw, SecondStep!TypeOK,
           SecondStep!Present, SecondStep!Kinds, SecondStep!Steps
  <2>2. \A w \in Visits : VisitInv(w)'
    BY <1>2
       DEF SecondStep!InitiateSetup, SecondStep!Draw, VisitInv, Untouched,
           AnswerInv, Drawing, SecondStep!TypeOK
  <2>3. \A s \in Answers : AnswerInv(s)'
    BY <1>2
       DEF SecondStep!InitiateSetup, SecondStep!Draw, AnswerInv, VisitInv,
           Untouched, Drawing, Bare, Past, LockInv, SecondStep!TypeOK
  <2>4. \A d \in Codes : LockInv(d)'
    BY <1>2
       DEF SecondStep!InitiateSetup, SecondStep!Draw, LockInv, AnswerInv,
           SecondStep!TypeOK
  <2>5. RecoveryCodeOnce'
    BY <1>2
       DEF SecondStep!InitiateSetup, SecondStep!Draw, RecoveryCodeOnce,
           SecondStep!RecoveryCodeOnce, SecondStep!Redeemed, AnswerInv, Bare,
           Past, SecondStep!TypeOK
  <2>6. EnabledHasCodes'
    BY <1>2
       DEF SecondStep!InitiateSetup, SecondStep!Draw, EnabledHasCodes,
           SecondStep!EnabledHasCodes, SecondStep!Present, SecondStep!TypeOK
  <2>. QED
    BY <2>1, <2>2, <2>3, <2>4, <2>5, <2>6
<1>3. ASSUME NEW r \in Answers, NEW v \in Visits, SecondStep!BeginTotp(r, v)
      PROVE  SecondStepInv'
  <2>1. SecondStep!TypeOK'
    BY <1>3
       DEF SecondStep!BeginTotp, SecondStep!Open, SecondStep!TypeOK,
           SecondStep!Present, SecondStep!Kinds, SecondStep!Steps
  <2>2. \A w \in Visits : VisitInv(w)'
    BY <1>3
       DEF SecondStep!BeginTotp, SecondStep!Open, VisitInv, Untouched,
           AnswerInv, Drawing, SecondStep!TypeOK
  <2>3. \A s \in Answers : AnswerInv(s)'
    BY <1>3
       DEF SecondStep!BeginTotp, SecondStep!Open, AnswerInv, VisitInv,
           Untouched, Drawing, Bare, Past, LockInv, SecondStep!TypeOK,
           SecondStep!Active
  <2>4. \A d \in Codes : LockInv(d)'
    BY <1>3
       DEF SecondStep!BeginTotp, SecondStep!Open, LockInv, AnswerInv,
           SecondStep!TypeOK
  <2>5. RecoveryCodeOnce'
    BY <1>3
       DEF SecondStep!BeginTotp, SecondStep!Open, RecoveryCodeOnce,
           SecondStep!RecoveryCodeOnce, SecondStep!Redeemed, AnswerInv, Bare,
           Past, SecondStep!TypeOK
  <2>6. EnabledHasCodes'
    BY <1>3
       DEF SecondStep!BeginTotp, SecondStep!Open, EnabledHasCodes,
           SecondStep!EnabledHasCodes, SecondStep!Present, SecondStep!TypeOK
  <2>. QED
    BY <2>1, <2>2, <2>3, <2>4, <2>5, <2>6
<1>4. ASSUME NEW r \in Answers, NEW v \in Visits, SecondStep!BeginSetup(r, v)
      PROVE  SecondStepInv'
  <2>1. SecondStep!TypeOK'
    BY <1>4
       DEF SecondStep!BeginSetup, SecondStep!Open, SecondStep!TypeOK,
           SecondStep!Present, SecondStep!Kinds, SecondStep!Steps
  <2>2. \A w \in Visits : VisitInv(w)'
    BY <1>4
       DEF SecondStep!BeginSetup, SecondStep!Open, VisitInv, Untouched,
           AnswerInv, Drawing, SecondStep!TypeOK
  <2>3. \A s \in Answers : AnswerInv(s)'
    BY <1>4
       DEF SecondStep!BeginSetup, SecondStep!Open, AnswerInv, VisitInv,
           Untouched, Drawing, Bare, Past, LockInv, SecondStep!TypeOK,
           SecondStep!Active
  <2>4. \A d \in Codes : LockInv(d)'
    BY <1>4
       DEF SecondStep!BeginSetup, SecondStep!Open, LockInv, AnswerInv,
           SecondStep!TypeOK
  <2>5. RecoveryCodeOnce'
    BY <1>4
       DEF SecondStep!BeginSetup, SecondStep!Open, RecoveryCodeOnce,
           SecondStep!RecoveryCodeOnce, SecondStep!Redeemed, AnswerInv, Bare,
           Past, SecondStep!TypeOK
  <2>6. EnabledHasCodes'
    BY <1>4
       DEF SecondStep!BeginSetup, SecondStep!Open, EnabledHasCodes,
           SecondStep!EnabledHasCodes, SecondStep!Present, SecondStep!TypeOK
  <2>. QED
    BY <2>1, <2>2, <2>3, <2>4, <2>5, <2>6
<1>5. ASSUME NEW r \in Answers, NEW v \in Visits, NEW c \in Codes \cup {None}, SecondStep!BeginRecovery(r, v, c)
      PROVE  SecondStepInv'
  <2>1. SecondStep!TypeOK'
    BY <1>5
       DEF SecondStep!BeginRecovery, SecondStep!Open, SecondStep!TypeOK,
           SecondStep!Present, SecondStep!Kinds, SecondStep!Steps
  <2>2. \A w \in Visits : VisitInv(w)'
    BY <1>5
       DEF SecondStep!BeginRecovery, SecondStep!Open, VisitInv, Untouched,
           AnswerInv, Drawing, SecondStep!TypeOK
  <2>3. \A s \in Answers : AnswerInv(s)'
    BY <1>5
       DEF SecondStep!BeginRecovery, SecondStep!Open, AnswerInv, VisitInv,
           Untouched, Drawing, Bare, Past, LockInv, SecondStep!TypeOK,
           SecondStep!Active
  <2>4. \A d \in Codes : LockInv(d)'
    BY <1>5
       DEF SecondStep!BeginRecovery, SecondStep!Open, LockInv, AnswerInv,
           SecondStep!TypeOK
  <2>5. RecoveryCodeOnce'
    BY <1>5
       DEF SecondStep!BeginRecovery, SecondStep!Open, RecoveryCodeOnce,
           SecondStep!RecoveryCodeOnce, SecondStep!Redeemed, AnswerInv, Bare,
           Past, SecondStep!TypeOK
  <2>6. EnabledHasCodes'
    BY <1>5
       DEF SecondStep!BeginRecovery, SecondStep!Open, EnabledHasCodes,
           SecondStep!EnabledHasCodes, SecondStep!Present, SecondStep!TypeOK
  <2>. QED
    BY <2>1, <2>2, <2>3, <2>4, <2>5, <2>6
<1>6. ASSUME NEW r \in Answers, SecondStep!Purge(r)
      PROVE  SecondStepInv'
  <2>1. SecondStep!TypeOK'
    BY <1>6
       DEF SecondStep!Purge, SecondStep!TypeOK, SecondStep!Present,
           SecondStep!Kinds, SecondStep!Steps
  <2>2. \A w \in Visits : VisitInv(w)'
    BY <1>6
       DEF SecondStep!Purge, VisitInv, Untouched, AnswerInv, Drawing,
           SecondStep!TypeOK
  <2>3. \A s \in Answers : AnswerInv(s)'
    BY <1>6
       DEF SecondStep!Purge, AnswerInv, VisitInv, Untouched, Drawing, Bare,
           Past, LockInv, SecondStep!TypeOK
  <2>4. \A d \in Codes : LockInv(d)'
    BY <1>6
       DEF SecondStep!Purge, LockInv, AnswerInv, SecondStep!TypeOK
  <2>5. RecoveryCodeOnce'
    BY <1>6
       DEF SecondStep!Purge, RecoveryCodeOnce, SecondStep!RecoveryCodeOnce,
           SecondStep!Redeemed, AnswerInv, Bare, Past, SecondStep!TypeOK
  <2>6. EnabledHasCodes'
    BY <1>6
       DEF SecondStep!Purge, EnabledHasCodes, SecondStep!EnabledHasCodes,
           SecondStep!Present, SecondStep!TypeOK
  <2>. QED
    BY <2>1, <2>2, <2>3, <2>4, <2>5, <2>6
<1>7. ASSUME NEW r \in Answers, SecondStep!InsertChallenge(r)
      PROVE  SecondStepInv'
  <2>1. SecondStep!TypeOK'
    <3>1. visit[r] \in Visits
      BY <1>7 DEF SecondStep!InsertChallenge, AnswerInv
    <3>. QED
      BY <1>7, <3>1
         DEF SecondStep!InsertChallenge, SecondStep!TypeOK, SecondStep!Kinds,
             SecondStep!Steps
  <2>2. \A w \in Visits : VisitInv(w)'
    BY <1>7
       DEF SecondStep!InsertChallenge, VisitInv, Untouched, AnswerInv, Drawing,
           SecondStep!TypeOK
  <2>3. \A s \in Answers : AnswerInv(s)'
    BY <1>7
       DEF SecondStep!InsertChallenge, AnswerInv, VisitInv, Untouched, Drawing,
           Bare, Past, LockInv, SecondStep!TypeOK
  <2>4. \A d \in Codes : LockInv(d)'
    BY <1>7
       DEF SecondStep!InsertChallenge, LockInv, AnswerInv, SecondStep!TypeOK
  <2>5. RecoveryCodeOnce'
    BY <1>7
       DEF SecondStep!InsertChallenge, RecoveryCodeOnce,
           SecondStep!RecoveryCodeOnce, SecondStep!Redeemed, AnswerInv, Bare,
           Past, SecondStep!TypeOK
  <2>6. EnabledHasCodes'
    BY <1>7
       DEF SecondStep!InsertChallenge, EnabledHasCodes,
           SecondStep!EnabledHasCodes, SecondStep!Present, SecondStep!TypeOK
  <2>. QED
    BY <2>1, <2>2, <2>3, <2>4, <2>5, <2>6
<1>8. ASSUME NEW r \in Answers, NEW right \in BOOLEAN, SecondStep!CheckTotp(r, right)
      PROVE  SecondStepInv'
  <2>1. SecondStep!TypeOK'
    BY <1>8
       DEF SecondStep!CheckTotp, SecondStep!TypeOK, SecondStep!Present,
           SecondStep!Kinds, SecondStep!Steps
  <2>2. \A w \in Visits : VisitInv(w)'
    BY <1>8
       DEF SecondStep!CheckTotp, VisitInv, Untouched, AnswerInv, Drawing,
           SecondStep!TypeOK
  <2>3. \A s \in Answers : AnswerInv(s)'
    BY <1>8
       DEF SecondStep!CheckTotp, AnswerInv, VisitInv, Untouched, Drawing, Bare,
           Past, LockInv, SecondStep!TypeOK
  <2>4. \A d \in Codes : LockInv(d)'
    BY <1>8
       DEF SecondStep!CheckTotp, LockInv, AnswerInv, SecondStep!TypeOK
  <2>5. RecoveryCodeOnce'
    BY <1>8
       DEF SecondStep!CheckTotp, RecoveryCodeOnce, SecondStep!RecoveryCodeOnce,
           SecondStep!Redeemed, AnswerInv, Bare, Past, SecondStep!TypeOK
  <2>6. EnabledHasCodes'
    BY <1>8
       DEF SecondStep!CheckTotp, EnabledHasCodes, SecondStep!EnabledHasCodes,
           SecondStep!Present, SecondStep!TypeOK
  <2>. QED
    BY <2>1, <2>2, <2>3, <2>4, <2>5, <2>6
<1>9. ASSUME NEW r \in Answers, NEW right \in BOOLEAN, SecondStep!CheckSetup(r, right)
      PROVE  SecondStepInv'
  <2>1. SecondStep!TypeOK'
    BY <1>9
       DEF SecondStep!CheckSetup, SecondStep!TypeOK, SecondStep!Present,
           SecondStep!Kinds, SecondStep!Steps
  <2>2. \A w \in Visits : VisitInv(w)'
    BY <1>9
       DEF SecondStep!CheckSetup, VisitInv, Untouched, AnswerInv, Drawing,
           SecondStep!TypeOK
  <2>3. \A s \in Answers : AnswerInv(s)'
    BY <1>9
       DEF SecondStep!CheckSetup, AnswerInv, VisitInv, Untouched, Drawing,
           Bare, Past, LockInv, SecondStep!TypeOK
  <2>4. \A d \in Codes : LockInv(d)'
    BY <1>9
       DEF SecondStep!CheckSetup, LockInv, AnswerInv, SecondStep!TypeOK
  <2>5. RecoveryCodeOnce'
    BY <1>9
       DEF SecondStep!CheckSetup, RecoveryCodeOnce,
           SecondStep!RecoveryCodeOnce, SecondStep!Redeemed, AnswerInv, Bare,
           Past, SecondStep!TypeOK
  <2>6. EnabledHasCodes'
    BY <1>9
       DEF SecondStep!CheckSetup, EnabledHasCodes, SecondStep!EnabledHasCodes,
           SecondStep!Present, SecondStep!TypeOK
  <2>. QED
    BY <2>1, <2>2, <2>3, <2>4, <2>5, <2>6
<1>10. ASSUME NEW r \in Answers, SecondStep!LockCode(r)
       PROVE  SecondStepInv'
  <2>1. SecondStep!TypeOK'
    BY <1>10
       DEF SecondStep!LockCode, SecondStep!TypeOK, SecondStep!Present,
           SecondStep!Kinds, SecondStep!Steps
  <2>2. \A w \in Visits : VisitInv(w)'
    BY <1>10
       DEF SecondStep!LockCode, VisitInv, Untouched, AnswerInv, Drawing,
           SecondStep!TypeOK
  <2>3. \A s \in Answers : AnswerInv(s)'
    BY <1>10
       DEF SecondStep!LockCode, AnswerInv, VisitInv, Untouched, Drawing, Bare,
           Past, LockInv, SecondStep!TypeOK
  <2>4. \A d \in Codes : LockInv(d)'
    BY <1>10
       DEF SecondStep!LockCode, LockInv, AnswerInv, SecondStep!TypeOK
  <2>5. RecoveryCodeOnce'
    BY <1>10
       DEF SecondStep!LockCode, RecoveryCodeOnce, SecondStep!RecoveryCodeOnce,
           SecondStep!Redeemed, AnswerInv, Bare, Past, SecondStep!TypeOK
  <2>6. EnabledHasCodes'
    BY <1>10
       DEF SecondStep!LockCode, EnabledHasCodes, SecondStep!EnabledHasCodes,
           SecondStep!Present, SecondStep!TypeOK
  <2>. QED
    BY <2>1, <2>2, <2>3, <2>4, <2>5, <2>6
<1>11. ASSUME NEW r \in Answers, SecondStep!BurnCode(r)
       PROVE  SecondStepInv'
  <2>1. SecondStep!TypeOK'
    BY <1>11
       DEF SecondStep!BurnCode, SecondStep!TypeOK, SecondStep!Present,
           SecondStep!Kinds, SecondStep!Steps
  <2>2. \A w \in Visits : VisitInv(w)'
    BY <1>11
       DEF SecondStep!BurnCode, VisitInv, Untouched, AnswerInv, Drawing,
           SecondStep!TypeOK
  <2>3. \A s \in Answers : AnswerInv(s)'
    BY <1>11
       DEF SecondStep!BurnCode, AnswerInv, VisitInv, Untouched, Drawing, Bare,
           Past, LockInv, SecondStep!TypeOK
  <2>4. \A d \in Codes : LockInv(d)'
    BY <1>11
       DEF SecondStep!BurnCode, LockInv, AnswerInv, SecondStep!TypeOK
  <2>5. RecoveryCodeOnce'
    BY <1>11
       DEF SecondStep!BurnCode, RecoveryCodeOnce, SecondStep!RecoveryCodeOnce,
           SecondStep!Redeemed, AnswerInv, Bare, Past, SecondStep!TypeOK
  <2>6. EnabledHasCodes'
    BY <1>11
       DEF SecondStep!BurnCode, EnabledHasCodes, SecondStep!EnabledHasCodes,
           SecondStep!Present, SecondStep!TypeOK
  <2>. QED
    BY <2>1, <2>2, <2>3, <2>4, <2>5, <2>6
<1>12. ASSUME NEW r \in Answers, NEW c \in Codes, SecondStep!Enable(r, c)
       PROVE  SecondStepInv'
  <2>1. SecondStep!TypeOK'
    BY <1>12
       DEF SecondStep!Enable, SecondStep!StoreCodes, SecondStep!Stored,
           SecondStep!TypeOK, SecondStep!Present, SecondStep!Kinds,
           SecondStep!Steps
  <2>2. \A w \in Visits : VisitInv(w)'
    BY <1>12
       DEF SecondStep!Enable, SecondStep!StoreCodes, SecondStep!Stored,
           VisitInv, Untouched, AnswerInv, Drawing, SecondStep!TypeOK
  <2>3. \A s \in Answers : AnswerInv(s)'
    BY <1>12
       DEF SecondStep!Enable, SecondStep!StoreCodes, SecondStep!Stored,
           AnswerInv, VisitInv, Untouched, Drawing, Bare, Past, LockInv,
           SecondStep!TypeOK
  <2>4. \A d \in Codes : LockInv(d)'
    BY <1>12
       DEF SecondStep!Enable, SecondStep!StoreCodes, SecondStep!Stored,
           LockInv, AnswerInv, SecondStep!TypeOK
  <2>5. RecoveryCodeOnce'
    BY <1>12
       DEF SecondStep!Enable, SecondStep!StoreCodes, SecondStep!Stored,
           RecoveryCodeOnce, SecondStep!RecoveryCodeOnce, SecondStep!Redeemed,
           AnswerInv, Bare, Past, SecondStep!TypeOK
  <2>6. EnabledHasCodes'
    BY <1>12
       DEF SecondStep!Enable, SecondStep!StoreCodes, SecondStep!Stored,
           EnabledHasCodes, SecondStep!EnabledHasCodes, SecondStep!Present,
           SecondStep!TypeOK
  <2>. QED
    BY <2>1, <2>2, <2>3, <2>4, <2>5, <2>6
<1>13. ASSUME NEW r \in Answers, SecondStep!ReadAttempts(r)
       PROVE  SecondStepInv'
  <2>1. SecondStep!TypeOK'
    <3>1. visit[r] \in Visits
      BY <1>13 DEF SecondStep!ReadAttempts, AnswerInv
    <3>2. \A t \in [Visits -> Nat], w \in Visits : [t EXCEPT ![w] = @ + 1] \in [Visits -> Nat]
      OBVIOUS
    <3>3. told' \in [Visits -> Nat] /\ crossed' \in [Visits -> Nat]
      BY <1>13, <3>1, <3>2
         DEF SecondStep!ReadAttempts, SecondStep!Tell, SecondStep!TypeOK
    <3>4. /\ attempts[visit[r]] \in 0..MaxAttempts
          /\ pc' \in [Answers -> SecondStep!Steps]
      BY <1>13, <3>1
         DEF SecondStep!ReadAttempts, SecondStep!TypeOK, SecondStep!Steps
    <3>5. visit' \in [Answers -> Visits \cup {None}] /\ typed' \in [Answers -> Codes \cup {None}]
      BY <1>13 DEF SecondStep!ReadAttempts, SecondStep!TypeOK
    <3>6. \/ seen' = [seen EXCEPT ![r] = attempts[visit[r]]]
          \/ seen' = [seen EXCEPT ![r] = 0]
      BY <1>13 DEF SecondStep!ReadAttempts
    <3>7. seen \in [Answers -> 0..MaxAttempts] /\ 0 \in 0..MaxAttempts
      BY DEF SecondStep!TypeOK
    <3>8. seen' \in [Answers -> 0..MaxAttempts]
      BY <3>4, <3>6, <3>7
    <3>. QED
      BY <1>13, <3>3, <3>4, <3>5, <3>8
         DEF SecondStep!ReadAttempts, SecondStep!TypeOK, SecondStep!Steps
  <2>2. \A w \in Visits : VisitInv(w)'
    BY <1>13
       DEF SecondStep!ReadAttempts, SecondStep!Tell, VisitInv, Untouched,
           AnswerInv, Drawing, SecondStep!TypeOK
  <2>3. \A s \in Answers : AnswerInv(s)'
    BY <1>13
       DEF SecondStep!ReadAttempts, SecondStep!Tell, AnswerInv, VisitInv,
           Untouched, Drawing, Bare, Past, LockInv, SecondStep!TypeOK
  <2>4. \A d \in Codes : LockInv(d)'
    BY <1>13
       DEF SecondStep!ReadAttempts, SecondStep!Tell, LockInv, AnswerInv,
           SecondStep!TypeOK
  <2>5. RecoveryCodeOnce'
    BY <1>13
       DEF SecondStep!ReadAttempts, SecondStep!Tell, RecoveryCodeOnce,
           SecondStep!RecoveryCodeOnce, SecondStep!Redeemed, AnswerInv, Bare,
           Past, SecondStep!TypeOK
  <2>6. EnabledHasCodes'
    BY <1>13
       DEF SecondStep!ReadAttempts, SecondStep!Tell, EnabledHasCodes,
           SecondStep!EnabledHasCodes, SecondStep!Present, SecondStep!TypeOK
  <2>. QED
    BY <2>1, <2>2, <2>3, <2>4, <2>5, <2>6
<1>14. ASSUME NEW r \in Answers, SecondStep!CountFailure(r)
       PROVE  SecondStepInv'
  <2>1. SecondStep!TypeOK'
    <3>1. visit[r] \in Visits
      BY <1>14 DEF SecondStep!CountFailure, AnswerInv
    <3>2. \A t \in [Visits -> Nat], w \in Visits :
            /\ [t EXCEPT ![w] = @ + 1] \in [Visits -> Nat]
            /\ \A b \in BOOLEAN : [t EXCEPT ![w] = IF b THEN @ + 1 ELSE @] \in [Visits -> Nat]
      OBVIOUS
    <3>3. SecondStep!Stale(r) \in BOOLEAN
      BY DEF SecondStep!Stale
    <3>4. told' \in [Visits -> Nat] /\ crossed' \in [Visits -> Nat]
      BY <1>14, <3>1, <3>2, <3>3
         DEF SecondStep!CountFailure, SecondStep!Tell, SecondStep!TypeOK
    <3>5. attempts' \in [Visits -> 0..MaxAttempts]
      BY <1>14, <3>1 DEF SecondStep!CountFailure, SecondStep!TypeOK
    <3>. QED
      BY <1>14, <3>1, <3>4, <3>5
         DEF SecondStep!CountFailure, SecondStep!TypeOK, SecondStep!Kinds,
             SecondStep!Steps
  <2>2. \A w \in Visits : VisitInv(w)'
    BY <1>14
       DEF SecondStep!CountFailure, SecondStep!Tell, SecondStep!Stale,
           VisitInv, Untouched, AnswerInv, Drawing, SecondStep!TypeOK
  <2>3. \A s \in Answers : AnswerInv(s)'
    BY <1>14
       DEF SecondStep!CountFailure, SecondStep!Tell, SecondStep!Stale,
           AnswerInv, VisitInv, Untouched, Drawing, Bare, Past, LockInv,
           SecondStep!TypeOK
  <2>4. \A d \in Codes : LockInv(d)'
    BY <1>14
       DEF SecondStep!CountFailure, SecondStep!Tell, SecondStep!Stale, LockInv,
           AnswerInv, SecondStep!TypeOK
  <2>5. RecoveryCodeOnce'
    BY <1>14
       DEF SecondStep!CountFailure, SecondStep!Tell, SecondStep!Stale,
           RecoveryCodeOnce, SecondStep!RecoveryCodeOnce, SecondStep!Redeemed,
           AnswerInv, Bare, Past, SecondStep!TypeOK
  <2>6. EnabledHasCodes'
    BY <1>14
       DEF SecondStep!CountFailure, SecondStep!Tell, SecondStep!Stale,
           EnabledHasCodes, SecondStep!EnabledHasCodes, SecondStep!Present,
           SecondStep!TypeOK
  <2>. QED
    BY <2>1, <2>2, <2>3, <2>4, <2>5, <2>6
<1>15. ASSUME NEW r \in Answers, SecondStep!Consume(r)
       PROVE  SecondStepInv'
  <2>1. SecondStep!TypeOK'
    BY <1>15
       DEF SecondStep!Consume, SecondStep!TypeOK, SecondStep!Present,
           SecondStep!Kinds, SecondStep!Steps
  <2>2. \A w \in Visits : VisitInv(w)'
    BY <1>15
       DEF SecondStep!Consume, VisitInv, Untouched, AnswerInv, Drawing,
           SecondStep!TypeOK
  <2>3. \A s \in Answers : AnswerInv(s)'
    BY <1>15
       DEF SecondStep!Consume, AnswerInv, VisitInv, Untouched, Drawing, Bare,
           Past, LockInv, SecondStep!TypeOK
  <2>4. \A d \in Codes : LockInv(d)'
    BY <1>15
       DEF SecondStep!Consume, LockInv, AnswerInv, SecondStep!TypeOK
  <2>5. RecoveryCodeOnce'
    BY <1>15
       DEF SecondStep!Consume, RecoveryCodeOnce, SecondStep!RecoveryCodeOnce,
           SecondStep!Redeemed, AnswerInv, Bare, Past, SecondStep!TypeOK
  <2>6. EnabledHasCodes'
    BY <1>15
       DEF SecondStep!Consume, EnabledHasCodes, SecondStep!EnabledHasCodes,
           SecondStep!Present, SecondStep!TypeOK
  <2>. QED
    BY <2>1, <2>2, <2>3, <2>4, <2>5, <2>6
<1>16. ASSUME NEW r \in Answers, NEW active \in BOOLEAN, SecondStep!Admit(r, active)
       PROVE  SecondStepInv'
  <2>1. SecondStep!TypeOK'
    BY <1>16
       DEF SecondStep!Admit, SecondStep!TypeOK, SecondStep!Present,
           SecondStep!Kinds, SecondStep!Steps
  <2>2. \A w \in Visits : VisitInv(w)'
    BY <1>16
       DEF SecondStep!Admit, VisitInv, Untouched, AnswerInv, Drawing,
           SecondStep!TypeOK
  <2>3. \A s \in Answers : AnswerInv(s)'
    BY <1>16
       DEF SecondStep!Admit, AnswerInv, VisitInv, Untouched, Drawing, Bare,
           Past, LockInv, SecondStep!TypeOK
  <2>4. \A d \in Codes : LockInv(d)'
    BY <1>16
       DEF SecondStep!Admit, LockInv, AnswerInv, SecondStep!TypeOK
  <2>5. RecoveryCodeOnce'
    BY <1>16
       DEF SecondStep!Admit, RecoveryCodeOnce, SecondStep!RecoveryCodeOnce,
           SecondStep!Redeemed, AnswerInv, Bare, Past, SecondStep!TypeOK
  <2>6. EnabledHasCodes'
    BY <1>16
       DEF SecondStep!Admit, EnabledHasCodes, SecondStep!EnabledHasCodes,
           SecondStep!Present, SecondStep!TypeOK
  <2>. QED
    BY <2>1, <2>2, <2>3, <2>4, <2>5, <2>6
<1>17. ASSUME NEW r \in Answers, SecondStep!Fail(r)
       PROVE  SecondStepInv'
  <2>1. SecondStep!TypeOK'
    BY <1>17
       DEF SecondStep!Fail, SecondStep!TypeOK, SecondStep!Present,
           SecondStep!Kinds, SecondStep!Steps
  <2>2. \A w \in Visits : VisitInv(w)'
    BY <1>17
       DEF SecondStep!Fail, VisitInv, Untouched, AnswerInv, Drawing,
           SecondStep!TypeOK
  <2>3. \A s \in Answers : AnswerInv(s)'
    BY <1>17
       DEF SecondStep!Fail, AnswerInv, VisitInv, Untouched, Drawing, Bare,
           Past, LockInv, SecondStep!TypeOK
  <2>4. \A d \in Codes : LockInv(d)'
    BY <1>17
       DEF SecondStep!Fail, LockInv, AnswerInv, SecondStep!TypeOK
  <2>5. RecoveryCodeOnce'
    BY <1>17
       DEF SecondStep!Fail, RecoveryCodeOnce, SecondStep!RecoveryCodeOnce,
           SecondStep!Redeemed, AnswerInv, Bare, Past, SecondStep!TypeOK
  <2>6. EnabledHasCodes'
    BY <1>17
       DEF SecondStep!Fail, EnabledHasCodes, SecondStep!EnabledHasCodes,
           SecondStep!Present, SecondStep!TypeOK
  <2>. QED
    BY <2>1, <2>2, <2>3, <2>4, <2>5, <2>6
<1>18. ASSUME NEW v \in Visits, SecondStep!Lapse(v)
       PROVE  SecondStepInv'
  <2>1. SecondStep!TypeOK'
    BY <1>18
       DEF SecondStep!Lapse, SecondStep!TypeOK, SecondStep!Present,
           SecondStep!Kinds, SecondStep!Steps
  <2>2. \A w \in Visits : VisitInv(w)'
    BY <1>18
       DEF SecondStep!Lapse, VisitInv, Untouched, AnswerInv, Drawing,
           SecondStep!TypeOK
  <2>3. \A s \in Answers : AnswerInv(s)'
    BY <1>18
       DEF SecondStep!Lapse, AnswerInv, VisitInv, Untouched, Drawing, Bare,
           Past, LockInv, SecondStep!TypeOK
  <2>4. \A d \in Codes : LockInv(d)'
    BY <1>18
       DEF SecondStep!Lapse, LockInv, AnswerInv, SecondStep!TypeOK
  <2>5. RecoveryCodeOnce'
    BY <1>18
       DEF SecondStep!Lapse, RecoveryCodeOnce, SecondStep!RecoveryCodeOnce,
           SecondStep!Redeemed, AnswerInv, Bare, Past, SecondStep!TypeOK
  <2>6. EnabledHasCodes'
    BY <1>18
       DEF SecondStep!Lapse, EnabledHasCodes, SecondStep!EnabledHasCodes,
           SecondStep!Present, SecondStep!TypeOK
  <2>. QED
    BY <2>1, <2>2, <2>3, <2>4, <2>5, <2>6
<1>19. ASSUME NEW op \in {"regenerating", "disabling"}, SecondStep!BeginDesk(op)
       PROVE  SecondStepInv'
  <2>1. SecondStep!TypeOK'
    BY <1>19
       DEF SecondStep!BeginDesk, SecondStep!TypeOK, SecondStep!Present,
           SecondStep!Kinds, SecondStep!Steps
  <2>2. \A w \in Visits : VisitInv(w)'
    BY <1>19
       DEF SecondStep!BeginDesk, VisitInv, Untouched, AnswerInv, Drawing,
           SecondStep!TypeOK
  <2>3. \A s \in Answers : AnswerInv(s)'
    BY <1>19
       DEF SecondStep!BeginDesk, AnswerInv, VisitInv, Untouched, Drawing, Bare,
           Past, LockInv, SecondStep!TypeOK
  <2>4. \A d \in Codes : LockInv(d)'
    BY <1>19
       DEF SecondStep!BeginDesk, LockInv, AnswerInv, SecondStep!TypeOK
  <2>5. RecoveryCodeOnce'
    BY <1>19
       DEF SecondStep!BeginDesk, RecoveryCodeOnce, SecondStep!RecoveryCodeOnce,
           SecondStep!Redeemed, AnswerInv, Bare, Past, SecondStep!TypeOK
  <2>6. EnabledHasCodes'
    BY <1>19
       DEF SecondStep!BeginDesk, EnabledHasCodes, SecondStep!EnabledHasCodes,
           SecondStep!Present, SecondStep!TypeOK
  <2>. QED
    BY <2>1, <2>2, <2>3, <2>4, <2>5, <2>6
<1>20. ASSUME NEW c \in Codes, SecondStep!Regenerate(c)
       PROVE  SecondStepInv'
  <2>1. SecondStep!TypeOK'
    BY <1>20
       DEF SecondStep!Regenerate, SecondStep!StoreCodes, SecondStep!Stored,
           SecondStep!TypeOK, SecondStep!Present, SecondStep!Kinds,
           SecondStep!Steps
  <2>2. \A w \in Visits : VisitInv(w)'
    BY <1>20
       DEF SecondStep!Regenerate, SecondStep!StoreCodes, SecondStep!Stored,
           VisitInv, Untouched, AnswerInv, Drawing, SecondStep!TypeOK
  <2>3. \A s \in Answers : AnswerInv(s)'
    BY <1>20
       DEF SecondStep!Regenerate, SecondStep!StoreCodes, SecondStep!Stored,
           AnswerInv, VisitInv, Untouched, Drawing, Bare, Past, LockInv,
           SecondStep!TypeOK
  <2>4. \A d \in Codes : LockInv(d)'
    BY <1>20
       DEF SecondStep!Regenerate, SecondStep!StoreCodes, SecondStep!Stored,
           LockInv, AnswerInv, SecondStep!TypeOK
  <2>5. RecoveryCodeOnce'
    BY <1>20
       DEF SecondStep!Regenerate, SecondStep!StoreCodes, SecondStep!Stored,
           RecoveryCodeOnce, SecondStep!RecoveryCodeOnce, SecondStep!Redeemed,
           AnswerInv, Bare, Past, SecondStep!TypeOK
  <2>6. EnabledHasCodes'
    BY <1>20
       DEF SecondStep!Regenerate, SecondStep!StoreCodes, SecondStep!Stored,
           EnabledHasCodes, SecondStep!EnabledHasCodes, SecondStep!Present,
           SecondStep!TypeOK
  <2>. QED
    BY <2>1, <2>2, <2>3, <2>4, <2>5, <2>6
<1>21. CASE SecondStep!Disable
  <2>1. SecondStep!TypeOK'
    BY <1>21
       DEF SecondStep!Disable, SecondStep!TypeOK, SecondStep!Present,
           SecondStep!Kinds, SecondStep!Steps
  <2>2. \A w \in Visits : VisitInv(w)'
    BY <1>21
       DEF SecondStep!Disable, VisitInv, Untouched, AnswerInv, Drawing,
           SecondStep!TypeOK
  <2>3. \A s \in Answers : AnswerInv(s)'
    BY <1>21
       DEF SecondStep!Disable, AnswerInv, VisitInv, Untouched, Drawing, Bare,
           Past, LockInv, SecondStep!TypeOK
  <2>4. \A d \in Codes : LockInv(d)'
    BY <1>21
       DEF SecondStep!Disable, LockInv, AnswerInv, SecondStep!TypeOK
  <2>5. RecoveryCodeOnce'
    BY <1>21
       DEF SecondStep!Disable, RecoveryCodeOnce, SecondStep!RecoveryCodeOnce,
           SecondStep!Redeemed, AnswerInv, Bare, Past, SecondStep!TypeOK
  <2>6. EnabledHasCodes'
    BY <1>21
       DEF SecondStep!Disable, EnabledHasCodes, SecondStep!EnabledHasCodes,
           SecondStep!Present, SecondStep!TypeOK
  <2>. QED
    BY <2>1, <2>2, <2>3, <2>4, <2>5, <2>6
<1>22. CASE SecondStep!AbandonDesk
  <2>1. SecondStep!TypeOK'
    BY <1>22
       DEF SecondStep!AbandonDesk, SecondStep!TypeOK, SecondStep!Present,
           SecondStep!Kinds, SecondStep!Steps
  <2>2. \A w \in Visits : VisitInv(w)'
    BY <1>22
       DEF SecondStep!AbandonDesk, VisitInv, Untouched, AnswerInv, Drawing,
           SecondStep!TypeOK
  <2>3. \A s \in Answers : AnswerInv(s)'
    BY <1>22
       DEF SecondStep!AbandonDesk, AnswerInv, VisitInv, Untouched, Drawing,
           Bare, Past, LockInv, SecondStep!TypeOK
  <2>4. \A d \in Codes : LockInv(d)'
    BY <1>22
       DEF SecondStep!AbandonDesk, LockInv, AnswerInv, SecondStep!TypeOK
  <2>5. RecoveryCodeOnce'
    BY <1>22
       DEF SecondStep!AbandonDesk, RecoveryCodeOnce,
           SecondStep!RecoveryCodeOnce, SecondStep!Redeemed, AnswerInv, Bare,
           Past, SecondStep!TypeOK
  <2>6. EnabledHasCodes'
    BY <1>22
       DEF SecondStep!AbandonDesk, EnabledHasCodes, SecondStep!EnabledHasCodes,
           SecondStep!Present, SecondStep!TypeOK
  <2>. QED
    BY <2>1, <2>2, <2>3, <2>4, <2>5, <2>6
<1>23. CASE UNCHANGED secondStepVars
  BY <1>23
     DEF secondStepVars, SecondStep!TypeOK, VisitInv, Untouched, AnswerInv, LockInv,
         RecoveryCodeOnce, SecondStep!RecoveryCodeOnce, SecondStep!Redeemed,
         EnabledHasCodes, SecondStep!EnabledHasCodes
<1>. QED
  BY <1>1, <1>2, <1>3, <1>4, <1>5, <1>6, <1>7, <1>8, <1>9, <1>10, <1>11,
     <1>12, <1>13, <1>14, <1>15, <1>16, <1>17, <1>18, <1>19, <1>20, <1>21, <1>22,
     <1>23
     DEF SecondStep!Next, SecondStep!Begin, SecondStep!Verify

------------------------------------------------------------------------------
(***************************************************************************)
(* Lockouts.  A record that has not gone stale counts no more failures     *)
(* than the address had since the record's first; failures of one instant  *)
(* are numbered from 0.                                                    *)
(***************************************************************************)
Entry == [count : Nat, first : Nat, until : Nat]

Since(k, i)  == {f \in streak[k] : f[1] >= i}
AtOnce(k, i) == {f \in streak[k] : f[1] = i}

StreakInv(k) ==
  /\ IsFiniteSet(streak[k])
  /\ \A f \in streak[k] : f[1] \in Nat /\ f[1] <= now /\ f[2] \in Nat
  /\ \A f \in AtOnce(k, now) : f[2] < Cardinality(AtOnce(k, now))

KeyInv(k) ==
  /\ record[k] \in Entry
  /\ record[k].count = 0 <=> record[k] = Lockout!Absent
  /\ record[k].first <= now
  /\ StreakInv(k)
  /\ ~Lockout!Stale(record[k]) =>
       record[k].count <= Cardinality(Since(k, record[k].first))

LockoutInv ==
  /\ Lockout!TypeOK
  /\ \A k \in Lockout!Keys : KeyInv(k)

(* A key without failures, and the set sizes the module counts.            *)
LEMMA LockoutNumbers ==
  /\ MaxAttempts \in Nat \ {0} /\ Window \in Nat /\ Horizon \in Nat \ {0}
  /\ Lockout!Absent \in Entry
  /\ Lockout!Absent.count = 0 /\ Lockout!Absent.first = 0 /\ Lockout!Absent.until = 0
  /\ \A S : Lockout!Cardinality(S) = Cardinality(S)
<1>1. MaxAttempts \in Nat \ {0} /\ Window \in Nat /\ Horizon \in Nat \ {0}
  BY AccountsAssumption DEF Lockout!LockoutAssumption
<1>2. \A S : Lockout!Cardinality(S) = Cardinality(S)
  BY DEF Lockout!Cardinality, Cardinality
<1>. QED
  BY <1>1, <1>2 DEF Lockout!Absent, Lockout!Never, Entry

(* What recordFailure makes of a record.                                   *)
LEMMA FailedIs ==
  ASSUME NEW r \in Entry, now \in Nat
  PROVE  /\ Lockout!Failed(r) \in Entry
         /\ Lockout!Stale(r) =>
              Lockout!Failed(r).count = 1 /\ Lockout!Failed(r).first = now
         /\ ~Lockout!Stale(r) => /\ Lockout!Failed(r).count = r.count + 1
                                 /\ Lockout!Failed(r).first = r.first
         /\ Lockout!Failed(r).until > r.until => Lockout!Failed(r).count >= MaxAttempts
<1>. DEFINE counted == IF Lockout!Stale(r)
                         THEN [count |-> 1, first |-> now, until |-> 0]
                         ELSE [r EXCEPT !.count = @ + 1]
            end == now + Lockout!Duration(counted.count)
<1>1. /\ counted \in Entry
      /\ Lockout!Stale(r) => counted.count = 1 /\ counted.first = now
      /\ ~Lockout!Stale(r) => counted.count = r.count + 1 /\ counted.first = r.first
      /\ counted.until = 0 \/ counted.until = r.until
  BY DEF Entry
<1>. HIDE DEF counted
<1>2. end \in Nat
  BY <1>1, LockoutNumbers DEF Lockout!Duration, Entry
<1>. HIDE DEF end
<1>3. Lockout!Failed(r) = IF counted.count >= MaxAttempts
                            THEN [counted EXCEPT !.until = end] ELSE counted
  BY DEF Lockout!Failed, counted, end, Lockout!Never
<1>. QED
  BY <1>1, <1>2, <1>3, LockoutNumbers DEF Entry

(* One failure more.                                                       *)
LEMMA KeyFails ==
  ASSUME now \in Nat, NEW k \in Lockout!Keys, KeyInv(k),
         record'[k] = Lockout!Failed(record[k]),
         streak'[k] = streak[k] \cup {Lockout!NextFailure(k)}, now' = now
  PROVE  /\ KeyInv(k)'
         /\ record'[k].until > record[k].until => Cardinality(streak'[k]) >= MaxAttempts
<1>. DEFINE n == Cardinality(AtOnce(k, now))
<1>. USE DEF KeyInv, StreakInv
<1>1. /\ IsFiniteSet(AtOnce(k, now)) /\ n \in Nat
      /\ \A i \in Nat : IsFiniteSet(Since(k, i)) /\ Cardinality(Since(k, i)) \in Nat
  <2>1. AtOnce(k, now) \in SUBSET streak[k] /\ \A i \in Nat : Since(k, i) \in SUBSET streak[k]
    BY DEF AtOnce, Since
  <2>. QED
    BY <2>1, FS_Subset, FS_CardinalityType
<1>2. Lockout!NextFailure(k) = <<now, n>>
  BY LockoutNumbers DEF Lockout!NextFailure, AtOnce
<1>. HIDE DEF n
<1>3. <<now, n>> \notin streak[k]
  <2>1. ~(<<now, n>>[2] < n) /\ <<now, n>>[1] = now
    BY <1>1
  <2>. QED
    BY <2>1 DEF AtOnce, n
<1>4. AtOnce(k, now)' = AtOnce(k, now) \cup {<<now, n>>}
  BY <1>2 DEF AtOnce
<1>5. Cardinality(AtOnce(k, now)') = n + 1
  <2>1. <<now, n>> \notin AtOnce(k, now)
    BY <1>3 DEF AtOnce
  <2>. QED
    BY <1>1, <1>4, <2>1, FS_AddElement DEF n
<1>6. IsFiniteSet(streak'[k])
  BY FS_AddElement
<1>7. StreakInv(k)'
  <2>1. \A f \in streak'[k] : f[1] \in Nat /\ f[1] <= now /\ f[2] \in Nat
    BY <1>1, <1>2
  <2>2. \A f \in AtOnce(k, now)' : f[2] < n + 1
    <3>1. \A f \in AtOnce(k, now) : f[2] < n /\ f[2] \in Nat
      BY DEF n, AtOnce
    <3>. QED
      BY <1>1, <1>4, <3>1
  <2>. QED
    BY <1>5, <1>6, <2>1, <2>2
<1>8. ASSUME NEW i \in Nat, i <= now
      PROVE  /\ Cardinality(Since(k, i)') = Cardinality(Since(k, i)) + 1
             /\ Cardinality(Since(k, i)') <= Cardinality(streak'[k])
  <2>1. /\ Since(k, i)' = Since(k, i) \cup {<<now, n>>}
        /\ <<now, n>> \notin Since(k, i) /\ Since(k, i)' \in SUBSET streak'[k]
    BY <1>2, <1>3, <1>8 DEF Since
  <2>. QED
    BY <1>1, <1>6, <2>1, FS_AddElement, FS_Subset
<1>9. /\ record'[k] \in Entry /\ record'[k].count \in Nat \ {0}
      /\ record'[k].first \in Nat /\ record'[k].first <= now
  BY FailedIs DEF Entry
<1>10. record'[k].count <= Cardinality(Since(k, record[k].first)')
  <2>. DEFINE recent(i) == {f \in streak'[k] : f[1] >= i}
  <2>1. \A i : Since(k, i)' = recent(i)
    BY DEF Since
  <2>2. Since(k, record[k].first)' = recent(record'[k].first)
    BY DEF Since
  <2>. HIDE DEF recent
  <2>3. CASE Lockout!Stale(record[k])
    <3>1. record'[k].count = 1 /\ record'[k].first = now
      BY <2>3, FailedIs
    <3>. QED
      BY <1>1, <1>8, <2>1, <2>2, <3>1
  <2>4. CASE ~Lockout!Stale(record[k])
    <3>1. /\ record'[k].count = record[k].count + 1 /\ record'[k].first = record[k].first
          /\ record[k].first \in Nat /\ record[k].count \in Nat
      BY <2>4, FailedIs DEF Entry
    <3>. QED
      BY <1>1, <1>8, <2>1, <2>2, <2>4, <3>1
  <2>. QED
    BY <2>3, <2>4
<1>11. Cardinality(Since(k, record[k].first)') <= Cardinality(streak'[k])
  <2>1. Since(k, record[k].first)' \in SUBSET streak'[k]
    BY DEF Since
  <2>. QED
    BY <1>6, <2>1, FS_Subset
<1>12. KeyInv(k)'
  <2>1. record'[k].count # 0 /\ record'[k] # Lockout!Absent
    BY <1>9, LockoutNumbers
  <2>. QED
    BY <1>7, <1>9, <1>10, <2>1
<1>13. /\ Cardinality(streak'[k]) \in Nat
       /\ Cardinality(Since(k, record[k].first)') \in Nat
  <2>1. Since(k, record[k].first)' \in SUBSET streak'[k]
    BY DEF Since
  <2>. QED
    BY <1>6, <2>1, FS_Subset, FS_CardinalityType
<1>. QED
  BY <1>9, <1>10, <1>11, <1>12, <1>13, FailedIs, LockoutNumbers

(* A key whose record is dropped, whose failures are kept or not.          *)
LEMMA KeyDropped ==
  ASSUME now \in Nat, NEW k, KeyInv(k), now' = now,
         record'[k] = Lockout!Absent, streak'[k] \in {streak[k], {}}
  PROVE  KeyInv(k)' /\ ~(record'[k].until > record[k].until)
<1>1. IsFiniteSet({})
  BY FS_EmptySet
<1>2. StreakInv(k)'
  <2>1. CASE streak'[k] = streak[k]
    BY <2>1 DEF KeyInv, StreakInv, AtOnce
  <2>2. CASE streak'[k] = {}
    BY <1>1, <2>2 DEF StreakInv, AtOnce
  <2>. QED
    BY <2>1, <2>2
<1>3. Lockout!Stale(record[k])'
  BY LockoutNumbers DEF Lockout!Stale
<1>. QED
  BY <1>2, <1>3, LockoutNumbers DEF KeyInv, Entry

(* A key that is left alone.                                               *)
LEMMA KeyKept ==
  ASSUME NEW k, KeyInv(k), now' = now,
         record'[k] = record[k], streak'[k] = streak[k]
  PROVE  KeyInv(k)' /\ ~(record'[k].until > record[k].until)
BY DEF KeyInv, StreakInv, AtOnce, Since, Lockout!Stale, Entry

(* The clock moves on and forgets what is older than the window.           *)
LEMMA KeyAges ==
  ASSUME now \in Nat, NEW k, KeyInv(k), now' = now + 1, record'[k] = record[k],
         streak'[k] = {f \in streak[k] : now' - f[1] <= Window}
  PROVE  KeyInv(k)' /\ ~(record'[k].until > record[k].until)
<1>. USE DEF KeyInv
<1>1. IsFiniteSet(streak'[k])
  BY FS_Subset DEF StreakInv
<1>2. AtOnce(k, now)' = {}
  BY DEF StreakInv, AtOnce
<1>3. StreakInv(k)'
  BY <1>1, <1>2 DEF StreakInv
<1>4. ASSUME ~Lockout!Stale(record[k])'
      PROVE  record'[k].count <= Cardinality(Since(k, record[k].first)')
  <2>1. /\ record[k].count # 0 /\ ~(now' - record[k].first > Window)
        /\ record[k].first \in Nat
    BY <1>4 DEF Lockout!Stale, Entry
  <2>2. ~Lockout!Stale(record[k])
    BY <2>1, LockoutNumbers DEF Lockout!Stale
  <2>3. Since(k, record[k].first)' = Since(k, record[k].first)
    BY <2>1, LockoutNumbers DEF Since, StreakInv
  <2>. QED
    BY <2>2, <2>3
<1>. QED
  BY <1>3, <1>4 DEF Entry

(* No key has failed.                                                      *)
LEMMA LockoutInit == Lockout!Init => LockoutInv
<1>. SUFFICES ASSUME Lockout!Init PROVE LockoutInv
  OBVIOUS
<1>1. IsFiniteSet({})
  BY FS_EmptySet
<1>2. now = 1 /\ \A k \in Lockout!Keys : record[k] = Lockout!Absent /\ streak[k] = {}
  BY DEF Lockout!Init
<1>3. ASSUME NEW k \in Lockout!Keys PROVE KeyInv(k)
  <2>1. StreakInv(k)
    BY <1>1, <1>2 DEF StreakInv, AtOnce
  <2>2. Lockout!Stale(record[k])
    BY <1>2, LockoutNumbers DEF Lockout!Stale
  <2>. QED
    BY <1>2, <2>1, <2>2, LockoutNumbers DEF KeyInv
<1>4. Lockout!TypeOK
  <2>1. login \in [Logins -> Lockout!Checks \cup {Lockout!Away}]
    BY DEF Lockout!Init
  <2>. QED
    BY <1>2, <2>1, LockoutNumbers DEF Lockout!TypeOK, Lockout!Times
<1>. QED
  BY <1>3, <1>4 DEF LockoutInv

(* Every step keeps the invariant and locks only a key that failed so      *)
(* often within the window.                                                *)
LEMMA LockoutStep ==
  ASSUME LockoutInv, [Lockout!Next]_lockoutVars
  PROVE  /\ LockoutInv'
         /\ \A k \in Lockout!Keys : record'[k].until > record[k].until
                                      => Cardinality(streak'[k]) >= MaxAttempts
<1>. DEFINE Good(k) == /\ KeyInv(k)'
                       /\ record'[k].until > record[k].until
                            => Cardinality(streak'[k]) >= MaxAttempts
            Signed == login' \in [Logins -> Lockout!Checks \cup {Lockout!Away}]
<1>1. /\ now \in Nat /\ now <= Horizon /\ \A k \in Lockout!Keys : KeyInv(k)
      /\ login \in [Logins -> Lockout!Checks \cup {Lockout!Away}]
  BY LockoutNumbers DEF LockoutInv, Lockout!TypeOK, Lockout!Times
<1>. SUFFICES /\ \A k \in Lockout!Keys : Good(k)
              /\ Signed /\ now' \in Nat /\ now' <= Horizon
  <2>1. ASSUME \A k \in Lockout!Keys : KeyInv(k)', Signed, now' \in Nat, now' <= Horizon
        PROVE  Lockout!TypeOK'
    <3>1. ASSUME NEW k \in Lockout!Keys
          PROVE  /\ record'[k].count \in Nat /\ record'[k].first \in Lockout!Times
                 /\ record'[k].until \in Nat
                 /\ (record'[k].count = 0) = (record'[k] = Lockout!Absent)
      BY <2>1, <3>1, LockoutNumbers DEF KeyInv, Entry, Lockout!Times
    <3>2. now' \in Lockout!Times
      BY <2>1, LockoutNumbers DEF Lockout!Times
    <3>. QED
      BY <2>1, <3>1, <3>2 DEF Lockout!TypeOK
  <2>. QED
    BY <2>1 DEF LockoutInv
<1>. HIDE DEF Good
<1>2. ASSUME NEW r \in Logins, login' = [login EXCEPT ![r] = Lockout!Away]
      PROVE  Signed
  BY <1>1, <1>2
<1>3. ASSUME NEW r \in Logins, NEW e \in Emails, NEW a \in Addresses, Lockout!Ask(r, e, a)
      PROVE  now' = now /\ Signed /\ \A k \in Lockout!Keys : Good(k)
  <2>1. /\ UNCHANGED <<now, record, streak>>
        /\ login' = [login EXCEPT ![r] = [at |-> "comparing", email |-> e, from |-> a]]
    BY <1>3 DEF Lockout!Ask
  <2>2. [at |-> "comparing", email |-> e, from |-> a] \in Lockout!Checks
    BY DEF Lockout!Checks
  <2>3. Signed
    BY <1>1, <2>1, <2>2
  <2>. QED
    BY <1>1, <2>1, <2>3, KeyKept DEF Good
<1>4. ASSUME NEW r \in Logins, Lockout!RecordFailure(r)
      PROVE  now' = now /\ Signed /\ \A k \in Lockout!Keys : Good(k)
  <2>. DEFINE keys == {login[r].email, login[r].from}
  <2>1. /\ now' = now /\ login' = [login EXCEPT ![r] = Lockout!Away]
        /\ \A k \in Lockout!Keys :
             IF k \in keys THEN /\ record'[k] = Lockout!Failed(record[k])
                                /\ streak'[k] = streak[k] \cup {Lockout!NextFailure(k)}
                           ELSE record'[k] = record[k] /\ streak'[k] = streak[k]
    BY <1>4 DEF Lockout!RecordFailure
  <2>. HIDE DEF keys
  <2>. QED
    BY <1>1, <1>2, <2>1, KeyFails, KeyKept DEF Good
<1>5. ASSUME NEW keys, Lockout!Drop(keys), now' = now
      PROVE  \A k \in Lockout!Keys : Good(k)
  <2>1. \A k \in Lockout!Keys :
          IF k \in keys THEN record'[k] = Lockout!Absent /\ streak'[k] = {}
                        ELSE record'[k] = record[k] /\ streak'[k] = streak[k]
    BY <1>5 DEF Lockout!Drop
  <2>. QED
    BY <1>1, <1>5, <2>1, KeyDropped, KeyKept DEF Good
<1>6. ASSUME NEW r \in Logins, Lockout!RecordSuccess(r) \/ Lockout!LeaveUnrecorded(r)
      PROVE  now' = now /\ Signed /\ \A k \in Lockout!Keys : Good(k)
  <2>1. CASE Lockout!RecordSuccess(r)
    BY <1>2, <1>5, <2>1 DEF Lockout!RecordSuccess
  <2>2. CASE Lockout!LeaveUnrecorded(r)
    BY <1>1, <1>2, <2>2, KeyKept DEF Lockout!LeaveUnrecorded, Good
  <2>. QED
    BY <1>6, <2>1, <2>2
<1>7. ASSUME NEW k \in Lockout!Keys, Lockout!ClearLockout(k)
      PROVE  now' = now /\ login' = login /\ \A q \in Lockout!Keys : Good(q)
  BY <1>5, <1>7 DEF Lockout!ClearLockout
<1>8. ASSUME Lockout!CleanupExpired
      PROVE  now' = now /\ login' = login /\ \A q \in Lockout!Keys : Good(q)
  <2>1. /\ now' = now /\ login' = login /\ streak' = streak
        /\ \A k \in Lockout!Keys : record'[k] = Lockout!Absent \/ record'[k] = record[k]
    BY <1>8 DEF Lockout!CleanupExpired
  <2>. QED
    BY <1>1, <2>1, KeyDropped, KeyKept DEF Good
<1>9. ASSUME Lockout!Restart
      PROVE  now' = now /\ Signed /\ \A q \in Lockout!Keys : Good(q)
  <2>1. now' = now /\ Lockout!Drop(Lockout!Keys) /\ Signed
    BY <1>9 DEF Lockout!Restart
  <2>. QED
    BY <1>5, <2>1
<1>10. ASSUME Lockout!Tick
       PROVE  /\ now' \in Nat /\ now' <= Horizon /\ login' = login
              /\ \A q \in Lockout!Keys : Good(q)
  <2>1. /\ now < Horizon /\ now' = now + 1 /\ login' = login /\ record' = record
        /\ \A k \in Lockout!Keys :
             streak'[k] = {f \in streak[k] : now' - f[1] <= Window}
    BY <1>10 DEF Lockout!Tick
  <2>2. \A k \in Lockout!Keys : Good(k)
    BY <1>1, <2>1, KeyAges DEF Good
  <2>. QED
    BY <1>1, <2>1, <2>2, LockoutNumbers
<1>11. CASE UNCHANGED lockoutVars
  BY <1>1, <1>11, KeyKept DEF lockoutVars, Good
<1>12. CASE Lockout!Next
  BY <1>1, <1>3, <1>4, <1>6, <1>7, <1>8, <1>9, <1>10, <1>12 DEF Lockout!Next
<1>. QED
  BY <1>11, <1>12

------------------------------------------------------------------------------
(***************************************************************************)
(* Signed-out tokens.  The row of one outlives it; a request that asked    *)
(* the table and was not refused has a token that is past its expiry.      *)
(***************************************************************************)
ShortLived == \A t \in Tokens : expiry[t] <= clock + Life

Recorded ==
  \A t \in signedOut :
    /\ expiry[t] # Blacklist!Absent
    /\ expiry[t] <= table[t] \/ expiry[t] <= clock

Presented ==
  /\ \A r \in Handlers : request[r].pc # "idle" =>
       request[r].token \in Tokens /\ expiry[request[r].token] # Blacklist!Absent
  /\ \A r \in late : request[r].pc # "idle" /\ request[r].token \in signedOut

LateIsPast == \A r \in late : request[r].pc = "verify" => expiry[request[r].token] <= clock

BlacklistInv ==
  /\ Blacklist!TypeOK
  /\ ShortLived /\ Recorded /\ Presented /\ LateIsPast
  /\ SignedOutIsRefused

(* No token has been issued.                                               *)
LEMMA BlacklistInit == Blacklist!Init => BlacklistInv
<1>. SUFFICES ASSUME Blacklist!Init
              PROVE  BlacklistInv
  OBVIOUS
<1>0. Life \in Nat /\ Held \in Nat /\ Horizon \in Nat \ {0}
  BY AccountsAssumption DEF Blacklist!BlacklistAssumption
<1>. USE <1>0 DEF Blacklist!Init, Blacklist!Absent, Blacklist!Quiet
<1>1. Blacklist!TypeOK
  <2>1. 0 \in Blacklist!Times /\ 1 \in 1..Horizon
    BY DEF Blacklist!Times
  <2>. QED
    BY <2>1 DEF Blacklist!TypeOK, Blacklist!Steps
<1>. QED
  BY <1>1
     DEF BlacklistInv, ShortLived, Recorded, Presented, LateIsPast,
         SignedOutIsRefused, Blacklist!SignedOutIsRefused

(* Every step of a request, the table, the memory, the clock and a         *)
(* restart.                                                                *)
LEMMA BlacklistStep ==
  ASSUME BlacklistInv, Blacklist!Next \/ UNCHANGED blacklistVars
  PROVE  BlacklistInv'
<1>0. /\ Life \in Nat /\ Held \in Nat /\ Held >= Life /\ Horizon \in Nat
      /\ None \notin Tokens
  BY AccountsAssumption DEF Blacklist!BlacklistAssumption
<1>. USE <1>0 DEF BlacklistInv, ShortLived, Recorded, Presented, LateIsPast
<1>1. ASSUME NEW t \in Tokens, Blacklist!Issue(t)
      PROVE  BlacklistInv'
  <2>1. Blacklist!TypeOK'
    BY <1>1 DEF Blacklist!Issue, Blacklist!TypeOK, Blacklist!Times
  <2>2. ShortLived'
    BY <1>1 DEF Blacklist!Issue, Blacklist!TypeOK
  <2>3. Recorded'
    <3>1. expiry[t] = Blacklist!Absent /\ UNCHANGED <<signedOut, table, clock>>
      BY <1>1 DEF Blacklist!Issue
    <3>2. \A u \in Tokens \ {t} : expiry'[u] = expiry[u]
      BY <1>1 DEF Blacklist!Issue
    <3>3. t \notin signedOut
      BY <3>1
    <3>4. signedOut \subseteq Tokens
      BY DEF Blacklist!TypeOK
    <3>. QED
      BY <3>1, <3>2, <3>3, <3>4
  <2>4. Presented'
    BY <1>1 DEF Blacklist!Issue
  <2>5. LateIsPast'
    BY <1>1 DEF Blacklist!Issue
  <2>6. SignedOutIsRefused'
    BY <1>1
       DEF Blacklist!Issue, SignedOutIsRefused, Blacklist!SignedOutIsRefused
  <2>. QED
    BY <2>1, <2>2, <2>3, <2>4, <2>5, <2>6
<1>2. ASSUME NEW r \in Handlers, NEW t \in Tokens, Blacklist!Send(r, t)
      PROVE  BlacklistInv'
  <2>1. Blacklist!TypeOK'
    BY <1>2 DEF Blacklist!Send, Blacklist!TypeOK, Blacklist!Steps
  <2>2. ShortLived'
    BY <1>2 DEF Blacklist!Send
  <2>3. Recorded'
    BY <1>2 DEF Blacklist!Send
  <2>4. Presented'
    BY <1>2 DEF Blacklist!Send, Blacklist!TypeOK
  <2>5. LateIsPast'
    BY <1>2 DEF Blacklist!Send
  <2>6. SignedOutIsRefused'
    BY <1>2
       DEF Blacklist!Send, SignedOutIsRefused, Blacklist!SignedOutIsRefused
  <2>. QED
    BY <2>1, <2>2, <2>3, <2>4, <2>5, <2>6
<1>3. ASSUME NEW r \in Handlers, Blacklist!AskMemory(r)
      PROVE  BlacklistInv'
  <2>1. Blacklist!TypeOK'
    BY <1>3
       DEF Blacklist!AskMemory, Blacklist!TypeOK, Blacklist!Times,
           Blacklist!Steps, Blacklist!Absent, Blacklist!Goto
  <2>2. ShortLived'
    BY <1>3 DEF Blacklist!AskMemory
  <2>3. Recorded'
    BY <1>3 DEF Blacklist!AskMemory
  <2>4. Presented'
    BY <1>3 DEF Blacklist!AskMemory, Blacklist!Goto
  <2>5. LateIsPast'
    BY <1>3 DEF Blacklist!AskMemory, Blacklist!Goto
  <2>6. SignedOutIsRefused'
    BY <1>3
       DEF Blacklist!AskMemory, SignedOutIsRefused,
           Blacklist!SignedOutIsRefused, Blacklist!Goto
  <2>. QED
    BY <2>1, <2>2, <2>3, <2>4, <2>5, <2>6
<1>4. ASSUME NEW r \in Handlers, Blacklist!AskTable(r)
      PROVE  BlacklistInv'
  <2>1. Blacklist!TypeOK'
    BY <1>4
       DEF Blacklist!AskTable, Blacklist!TypeOK, Blacklist!Steps,
           Blacklist!Goto
  <2>2. ShortLived'
    BY <1>4 DEF Blacklist!AskTable
  <2>3. Recorded'
    BY <1>4 DEF Blacklist!AskTable
  <2>4. Presented'
    BY <1>4
       DEF Blacklist!AskTable, Blacklist!TypeOK, Blacklist!Times,
           Blacklist!Steps, Blacklist!Quiet, Blacklist!Absent, Blacklist!Goto
  <2>5. LateIsPast'
    BY <1>4
       DEF Blacklist!AskTable, Blacklist!TypeOK, Blacklist!Times,
           Blacklist!Goto
  <2>6. SignedOutIsRefused'
    BY <1>4
       DEF Blacklist!AskTable, SignedOutIsRefused,
           Blacklist!SignedOutIsRefused, Blacklist!TypeOK, Blacklist!Goto
  <2>. QED
    BY <2>1, <2>2, <2>3, <2>4, <2>5, <2>6
<1>5. ASSUME NEW r \in Handlers, Blacklist!Verify(r)
      PROVE  BlacklistInv'
  <2>1. Blacklist!TypeOK'
    BY <1>5
       DEF Blacklist!Verify, Blacklist!TypeOK, Blacklist!Steps, Blacklist!Goto
  <2>2. ShortLived'
    BY <1>5 DEF Blacklist!Verify
  <2>3. Recorded'
    BY <1>5 DEF Blacklist!Verify
  <2>4. Presented'
    BY <1>5 DEF Blacklist!Verify, Blacklist!Goto
  <2>5. LateIsPast'
    BY <1>5 DEF Blacklist!Verify, Blacklist!Goto
  <2>6. SignedOutIsRefused'
    BY <1>5
       DEF Blacklist!Verify, SignedOutIsRefused, Blacklist!SignedOutIsRefused,
           Blacklist!TypeOK, Blacklist!Times, Blacklist!Goto
  <2>. QED
    BY <2>1, <2>2, <2>3, <2>4, <2>5, <2>6
<1>6. ASSUME NEW r \in Handlers, Blacklist!TableFails(r)
      PROVE  BlacklistInv'
  <2>1. Blacklist!TypeOK'
    BY <1>6
       DEF Blacklist!TableFails, Blacklist!TypeOK, Blacklist!Steps,
           Blacklist!Goto
  <2>2. ShortLived'
    BY <1>6 DEF Blacklist!TableFails
  <2>3. Recorded'
    BY <1>6 DEF Blacklist!TableFails
  <2>4. Presented'
    BY <1>6 DEF Blacklist!TableFails, Blacklist!Goto
  <2>5. LateIsPast'
    BY <1>6 DEF Blacklist!TableFails, Blacklist!Goto
  <2>6. SignedOutIsRefused'
    BY <1>6
       DEF Blacklist!TableFails, SignedOutIsRefused,
           Blacklist!SignedOutIsRefused, Blacklist!Goto
  <2>. QED
    BY <2>1, <2>2, <2>3, <2>4, <2>5, <2>6
<1>7. ASSUME NEW r \in Handlers, Blacklist!Deny(r)
      PROVE  BlacklistInv'
  <2>1. Blacklist!TypeOK'
    BY <1>7
       DEF Blacklist!Deny, Blacklist!TypeOK, Blacklist!Steps, Blacklist!Goto
  <2>2. ShortLived'
    BY <1>7 DEF Blacklist!Deny
  <2>3. Recorded'
    BY <1>7 DEF Blacklist!Deny
  <2>4. Presented'
    BY <1>7 DEF Blacklist!Deny, Blacklist!Goto
  <2>5. LateIsPast'
    BY <1>7 DEF Blacklist!Deny, Blacklist!Goto
  <2>6. SignedOutIsRefused'
    BY <1>7
       DEF Blacklist!Deny, SignedOutIsRefused, Blacklist!SignedOutIsRefused,
           Blacklist!Goto
  <2>. QED
    BY <2>1, <2>2, <2>3, <2>4, <2>5, <2>6
<1>8. ASSUME NEW r \in Handlers, Blacklist!Finish(r)
      PROVE  BlacklistInv'
  <2>1. Blacklist!TypeOK'
    BY <1>8
       DEF Blacklist!Finish, Blacklist!TypeOK, Blacklist!Steps,
           Blacklist!Quiet
  <2>2. ShortLived'
    BY <1>8 DEF Blacklist!Finish
  <2>3. Recorded'
    BY <1>8 DEF Blacklist!Finish
  <2>4. Presented'
    BY <1>8 DEF Blacklist!Finish, Blacklist!Quiet
  <2>5. LateIsPast'
    BY <1>8 DEF Blacklist!Finish
  <2>6. SignedOutIsRefused'
    BY <1>8
       DEF Blacklist!Finish, SignedOutIsRefused, Blacklist!SignedOutIsRefused
  <2>. QED
    BY <2>1, <2>2, <2>3, <2>4, <2>5, <2>6
<1>9. ASSUME NEW r \in Handlers, Blacklist!Logout(r)
      PROVE  BlacklistInv'
  <2>1. Blacklist!TypeOK'
    BY <1>9
       DEF Blacklist!Logout, Blacklist!TypeOK, Blacklist!Times,
           Blacklist!Steps, Blacklist!Goto
  <2>2. ShortLived'
    BY <1>9 DEF Blacklist!Logout
  <2>3. Recorded'
    BY <1>9 DEF Blacklist!Logout
  <2>4. Presented'
    BY <1>9 DEF Blacklist!Logout, Blacklist!Goto
  <2>5. LateIsPast'
    BY <1>9 DEF Blacklist!Logout, Blacklist!Goto
  <2>6. SignedOutIsRefused'
    BY <1>9
       DEF Blacklist!Logout, SignedOutIsRefused, Blacklist!SignedOutIsRefused,
           Blacklist!Goto
  <2>. QED
    BY <2>1, <2>2, <2>3, <2>4, <2>5, <2>6
<1>10. ASSUME NEW r \in Handlers, NEW stored \in BOOLEAN, Blacklist!Store(r, stored)
      PROVE  BlacklistInv'
  <2>1. Blacklist!TypeOK'
    BY <1>10
       DEF Blacklist!Store, Blacklist!TypeOK, Blacklist!Times,
           Blacklist!Steps, Blacklist!Quiet
  <2>2. ShortLived'
    BY <1>10 DEF Blacklist!Store
  <2>3. Recorded'
    BY <1>10 DEF Blacklist!Store, Blacklist!TypeOK, Blacklist!Times
  <2>4. Presented'
    BY <1>10 DEF Blacklist!Store, Blacklist!Quiet
  <2>5. LateIsPast'
    BY <1>10 DEF Blacklist!Store
  <2>6. SignedOutIsRefused'
    BY <1>10
       DEF Blacklist!Store, SignedOutIsRefused, Blacklist!SignedOutIsRefused
  <2>. QED
    BY <2>1, <2>2, <2>3, <2>4, <2>5, <2>6
<1>11. ASSUME NEW read \in BOOLEAN, Blacklist!Load(read)
      PROVE  BlacklistInv'
  <2>1. Blacklist!TypeOK'
    BY <1>11
       DEF Blacklist!Load, Blacklist!TypeOK, Blacklist!Times, Blacklist!Steps,
           Blacklist!Quiet, Blacklist!Absent, Blacklist!Goto
  <2>2. ShortLived'
    BY <1>11 DEF Blacklist!Load
  <2>3. Recorded'
    BY <1>11 DEF Blacklist!Load
  <2>4. Presented'
    BY <1>11 DEF Blacklist!Load
  <2>5. LateIsPast'
    BY <1>11 DEF Blacklist!Load
  <2>6. SignedOutIsRefused'
    BY <1>11
       DEF Blacklist!Load, SignedOutIsRefused, Blacklist!SignedOutIsRefused
  <2>. QED
    BY <2>1, <2>2, <2>3, <2>4, <2>5, <2>6
<1>12. CASE Blacklist!CleanupMemory
  <2>1. Blacklist!TypeOK'
    BY <1>12
       DEF Blacklist!CleanupMemory, Blacklist!TypeOK, Blacklist!Times,
           Blacklist!Absent
  <2>2. ShortLived'
    BY <1>12 DEF Blacklist!CleanupMemory
  <2>3. Recorded'
    BY <1>12 DEF Blacklist!CleanupMemory
  <2>4. Presented'
    BY <1>12 DEF Blacklist!CleanupMemory
  <2>5. LateIsPast'
    BY <1>12 DEF Blacklist!CleanupMemory
  <2>6. SignedOutIsRefused'
    BY <1>12
       DEF Blacklist!CleanupMemory, SignedOutIsRefused,
           Blacklist!SignedOutIsRefused
  <2>. QED
    BY <2>1, <2>2, <2>3, <2>4, <2>5, <2>6
<1>13. CASE Blacklist!CleanupTable
  <2>1. Blacklist!TypeOK'
    BY <1>13
       DEF Blacklist!CleanupTable, Blacklist!TypeOK, Blacklist!Times,
           Blacklist!Absent
  <2>2. ShortLived'
    BY <1>13 DEF Blacklist!CleanupTable
  <2>3. Recorded'
    BY <1>13 DEF Blacklist!CleanupTable, Blacklist!TypeOK, Blacklist!Times
  <2>4. Presented'
    BY <1>13 DEF Blacklist!CleanupTable
  <2>5. LateIsPast'
    BY <1>13 DEF Blacklist!CleanupTable
  <2>6. SignedOutIsRefused'
    BY <1>13
       DEF Blacklist!CleanupTable, SignedOutIsRefused,
           Blacklist!SignedOutIsRefused
  <2>. QED
    BY <2>1, <2>2, <2>3, <2>4, <2>5, <2>6
<1>14. CASE Blacklist!Restart
  <2>1. Blacklist!TypeOK'
    BY <1>14
       DEF Blacklist!Restart, Blacklist!TypeOK, Blacklist!Times,
           Blacklist!Steps, Blacklist!Quiet, Blacklist!Absent
  <2>2. ShortLived'
    BY <1>14 DEF Blacklist!Restart
  <2>3. Recorded'
    BY <1>14 DEF Blacklist!Restart
  <2>4. Presented'
    BY <1>14 DEF Blacklist!Restart, Blacklist!Quiet
  <2>5. LateIsPast'
    BY <1>14 DEF Blacklist!Restart
  <2>6. SignedOutIsRefused'
    BY <1>14
       DEF Blacklist!Restart, SignedOutIsRefused, Blacklist!SignedOutIsRefused
  <2>. QED
    BY <2>1, <2>2, <2>3, <2>4, <2>5, <2>6
<1>15. CASE Blacklist!Tick
  <2>1. Blacklist!TypeOK'
    BY <1>15 DEF Blacklist!Tick, Blacklist!TypeOK
  <2>2. ShortLived'
    BY <1>15 DEF Blacklist!Tick, Blacklist!TypeOK, Blacklist!Times
  <2>3. Recorded'
    BY <1>15 DEF Blacklist!Tick, Blacklist!TypeOK, Blacklist!Times
  <2>4. Presented'
    BY <1>15 DEF Blacklist!Tick
  <2>5. LateIsPast'
    BY <1>15 DEF Blacklist!Tick, Blacklist!TypeOK, Blacklist!Times
  <2>6. SignedOutIsRefused'
    BY <1>15
       DEF Blacklist!Tick, SignedOutIsRefused, Blacklist!SignedOutIsRefused
  <2>. QED
    BY <2>1, <2>2, <2>3, <2>4, <2>5, <2>6
<1>16. CASE UNCHANGED blacklistVars
  BY <1>16
     DEF blacklistVars, SignedOutIsRefused, Blacklist!SignedOutIsRefused,
         Blacklist!TypeOK
<1>. QED
  BY <1>1, <1>2, <1>3, <1>4, <1>5, <1>6, <1>7, <1>8, <1>9, <1>10, <1>11,
     <1>12, <1>13, <1>14, <1>15, <1>16
     DEF Blacklist!Next

------------------------------------------------------------------------------
(***************************************************************************)
(* Accounts.  A password that stands beside a verified address is the      *)
(* owner's; a Google sign-in that read a row it need not clear finds one   *)
(* when it writes, too.                                                    *)
(***************************************************************************)
HasRow == {"linking", "verifying", "renewing", "preparing", "changing"}

RowThere == \A r \in Askers : asked[r].pc \in HasRow => user.exists

PasswordOwned ==
  /\ user.verified /\ user.password # None => proven
  /\ \A r \in Askers : asked[r].pc = "linking" /\ ~asked[r].unproved =>
       user.password = None \/ proven

AccountInv == Account!TypeOK /\ RowThere /\ PasswordOwned /\ LinkedPasswordIsOwned

(* No account yet, and a request that has not begun.                       *)
LEMMA AccountRest ==
  /\ None \notin Askers
  /\ Account!NoRow \in Account!Row /\ Account!Fresh.pc = "new"
  /\ Account!NoRow.exists = FALSE /\ Account!NoRow.password = None
  /\ Account!NoRow.verified = FALSE /\ Account!NoRow.google = FALSE
  /\ Account!NoRow.link = None /\ Account!NoRow.reset = None
  /\ Account!Fresh \in [pc : Account!Steps, unproved : BOOLEAN]
BY AccountsAssumption
   DEF Account!AccountAssumption, Account!NoRow, Account!Row, Account!Secret,
       Account!Fresh, Account!Steps

(* No account yet.                                                         *)
LEMMA AccountInit == Account!Init => AccountInv
BY AccountRest
   DEF Account!Init, AccountInv, RowThere, PasswordOwned, Account!TypeOK, HasRow,
       LinkedPasswordIsOwned, Account!LinkedPasswordIsOwned

(* Every step of every request about the account.                          *)
LEMMA AccountStep ==
  ASSUME AccountInv, Account!Next \/ UNCHANGED accountVars
  PROVE  AccountInv'
<1>. USE AccountRest DEF AccountInv, RowThere, PasswordOwned
<1>1. ASSUME NEW r \in Askers, Account!Register(r)
      PROVE  AccountInv'
  <2>1. Account!TypeOK'
    BY <1>1 DEF Account!Register, Account!Goto, Account!TypeOK, Account!Steps
  <2>2. RowThere'
    BY <1>1 DEF Account!Register, Account!Goto, HasRow
  <2>3. PasswordOwned'
    BY <1>1 DEF Account!Register, Account!Goto
  <2>4. LinkedPasswordIsOwned'
    BY <1>1
       DEF Account!Register, LinkedPasswordIsOwned,
           Account!LinkedPasswordIsOwned
  <2>. QED
    BY <2>1, <2>2, <2>3, <2>4
<1>2. ASSUME NEW r \in Askers, NEW auto \in BOOLEAN, Account!InsertRegistered(r, auto)
      PROVE  AccountInv'
  <2>. DEFINE row == [Account!NoRow EXCEPT !.exists = TRUE, !.password = r, !.link = r,
                                           !.verified = auto]
  <2>1. /\ row \in Account!Row /\ row.exists = TRUE /\ row.google = FALSE
        /\ row.verified = auto
    BY DEF Account!Row, Account!Secret
  <2>2. /\ user.exists => UNCHANGED <<user, proven>>
        /\ ~user.exists => user' = row /\ proven' = auto
        /\ UNCHANGED mailed
    BY <1>2 DEF Account!InsertRegistered
  <2>. HIDE DEF row
  <2>3. /\ asked' \in [Askers -> [pc : Account!Steps, unproved : BOOLEAN]]
        /\ \A q \in Askers : asked'[q].pc \in HasRow => asked'[q] = asked[q]
    BY <1>2
       DEF Account!InsertRegistered, Account!Goto, Account!TypeOK,
           Account!Steps, HasRow
  <2>4. Account!TypeOK'
    BY <2>1, <2>2, <2>3 DEF Account!TypeOK
  <2>5. RowThere'
    BY <2>1, <2>2, <2>3
  <2>6. user'.verified /\ user'.password # None => proven'
    BY <2>1, <2>2
  <2>7. \A q \in Askers : asked'[q].pc = "linking" /\ ~asked'[q].unproved =>
          user'.password = None \/ proven'
    BY <2>2, <2>3 DEF HasRow
  <2>8. LinkedPasswordIsOwned'
    BY <2>1, <2>2 DEF LinkedPasswordIsOwned, Account!LinkedPasswordIsOwned
  <2>. QED
    BY <2>4, <2>5, <2>6, <2>7, <2>8
<1>3. ASSUME NEW r \in Askers, NEW sent \in BOOLEAN, Account!Mail(r, sent)
      PROVE  AccountInv'
  <2>1. Account!TypeOK'
    BY <1>3 DEF Account!Mail, Account!Goto, Account!TypeOK, Account!Steps
  <2>2. RowThere'
    BY <1>3 DEF Account!Mail, Account!Goto, HasRow
  <2>3. PasswordOwned'
    BY <1>3 DEF Account!Mail, Account!Goto
  <2>4. LinkedPasswordIsOwned'
    BY <1>3
       DEF Account!Mail, LinkedPasswordIsOwned, Account!LinkedPasswordIsOwned
  <2>. QED
    BY <2>1, <2>2, <2>3, <2>4
<1>4. ASSUME NEW r \in Askers, Account!GoogleLogin(r)
      PROVE  AccountInv'
  <2>1. Account!TypeOK'
    BY <1>4 DEF Account!GoogleLogin, Account!TypeOK, Account!Steps
  <2>2. RowThere'
    BY <1>4 DEF Account!GoogleLogin, HasRow
  <2>3. PasswordOwned'
    BY <1>4 DEF Account!GoogleLogin, Account!TypeOK, Account!Row
  <2>4. LinkedPasswordIsOwned'
    BY <1>4
       DEF Account!GoogleLogin, LinkedPasswordIsOwned,
           Account!LinkedPasswordIsOwned
  <2>. QED
    BY <2>1, <2>2, <2>3, <2>4
<1>5. ASSUME NEW r \in Askers, Account!InsertGoogle(r)
      PROVE  AccountInv'
  <2>1. Account!TypeOK'
    BY <1>5
       DEF Account!InsertGoogle, Account!At, Account!Goto, Account!TypeOK,
           Account!Row, Account!Secret, Account!Steps, HasRow
  <2>2. RowThere'
    BY <1>5 DEF Account!InsertGoogle, Account!Goto, HasRow
  <2>3. PasswordOwned'
    BY <1>5
       DEF Account!InsertGoogle, Account!At, Account!Goto, Account!TypeOK,
           Account!Row, Account!Secret, Account!Steps, HasRow
  <2>4. LinkedPasswordIsOwned'
    BY <1>5
       DEF Account!InsertGoogle, LinkedPasswordIsOwned,
           Account!LinkedPasswordIsOwned, Account!At, Account!Goto,
           Account!TypeOK, Account!Row, Account!Secret, Account!Steps, HasRow
  <2>. QED
    BY <2>1, <2>2, <2>3, <2>4
<1>6. ASSUME NEW r \in Askers, Account!LinkGoogle(r)
      PROVE  AccountInv'
  <2>1. Account!TypeOK'
    BY <1>6
       DEF Account!LinkGoogle, Account!At, Account!Goto, Account!TypeOK,
           Account!Row, Account!Secret, Account!Steps, HasRow
  <2>2. RowThere'
    BY <1>6 DEF Account!LinkGoogle, Account!Goto, HasRow
  <2>3. PasswordOwned'
    BY <1>6 DEF Account!LinkGoogle, Account!At
  <2>4. LinkedPasswordIsOwned'
    BY <1>6
       DEF Account!LinkGoogle, LinkedPasswordIsOwned,
           Account!LinkedPasswordIsOwned, Account!At
  <2>. QED
    BY <2>1, <2>2, <2>3, <2>4
<1>7. ASSUME NEW r \in Askers, NEW link \in Askers, Account!VerifyEmail(r, link)
      PROVE  AccountInv'
  <2>1. Account!TypeOK'
    BY <1>7
       DEF Account!VerifyEmail, Account!Goto, Account!TypeOK, Account!Steps
  <2>2. RowThere'
    BY <1>7 DEF Account!VerifyEmail, Account!Goto, Account!TypeOK, HasRow
  <2>3. PasswordOwned'
    BY <1>7 DEF Account!VerifyEmail, Account!Goto
  <2>4. LinkedPasswordIsOwned'
    BY <1>7
       DEF Account!VerifyEmail, LinkedPasswordIsOwned,
           Account!LinkedPasswordIsOwned
  <2>. QED
    BY <2>1, <2>2, <2>3, <2>4
<1>8. ASSUME NEW r \in Askers, NEW link \in Askers, Account!ResetPassword(r, link)
      PROVE  AccountInv'
  <2>1. Account!TypeOK'
    BY <1>8
       DEF Account!ResetPassword, Account!Goto, Account!TypeOK, Account!Steps
  <2>2. RowThere'
    BY <1>8 DEF Account!ResetPassword, Account!Goto, Account!TypeOK, HasRow
  <2>3. PasswordOwned'
    BY <1>8 DEF Account!ResetPassword, Account!Goto
  <2>4. LinkedPasswordIsOwned'
    BY <1>8
       DEF Account!ResetPassword, LinkedPasswordIsOwned,
           Account!LinkedPasswordIsOwned
  <2>. QED
    BY <2>1, <2>2, <2>3, <2>4
<1>9. ASSUME NEW r \in Askers, Account!SetVerified(r)
      PROVE  AccountInv'
  <2>1. Account!TypeOK'
    BY <1>9
       DEF Account!SetVerified, Account!At, Account!Goto, Account!TypeOK,
           Account!Row, Account!Secret, Account!Steps, HasRow
  <2>2. RowThere'
    BY <1>9 DEF Account!SetVerified, Account!Goto, HasRow
  <2>3. PasswordOwned'
    BY <1>9 DEF Account!SetVerified
  <2>4. LinkedPasswordIsOwned'
    BY <1>9
       DEF Account!SetVerified, LinkedPasswordIsOwned,
           Account!LinkedPasswordIsOwned
  <2>. QED
    BY <2>1, <2>2, <2>3, <2>4
<1>10. ASSUME NEW r \in Askers, Account!ResendVerification(r)
      PROVE  AccountInv'
  <2>1. Account!TypeOK'
    BY <1>10
       DEF Account!ResendVerification, Account!Goto, Account!TypeOK,
           Account!Steps
  <2>2. RowThere'
    BY <1>10 DEF Account!ResendVerification, Account!Goto, HasRow
  <2>3. PasswordOwned'
    BY <1>10 DEF Account!ResendVerification, Account!Goto
  <2>4. LinkedPasswordIsOwned'
    BY <1>10
       DEF Account!ResendVerification, LinkedPasswordIsOwned,
           Account!LinkedPasswordIsOwned
  <2>. QED
    BY <2>1, <2>2, <2>3, <2>4
<1>11. ASSUME NEW r \in Askers, Account!RenewLink(r)
      PROVE  AccountInv'
  <2>1. Account!TypeOK'
    BY <1>11
       DEF Account!RenewLink, Account!At, Account!Goto, Account!TypeOK,
           Account!Row, Account!Secret, Account!Steps, HasRow
  <2>2. RowThere'
    BY <1>11 DEF Account!RenewLink, Account!Goto, HasRow
  <2>3. PasswordOwned'
    BY <1>11 DEF Account!RenewLink, Account!Goto
  <2>4. LinkedPasswordIsOwned'
    BY <1>11
       DEF Account!RenewLink, LinkedPasswordIsOwned,
           Account!LinkedPasswordIsOwned
  <2>. QED
    BY <2>1, <2>2, <2>3, <2>4
<1>12. ASSUME NEW r \in Askers, Account!ForgotPassword(r)
      PROVE  AccountInv'
  <2>1. Account!TypeOK'
    BY <1>12
       DEF Account!ForgotPassword, Account!Goto, Account!TypeOK, Account!Steps
  <2>2. RowThere'
    BY <1>12 DEF Account!ForgotPassword, Account!Goto, HasRow
  <2>3. PasswordOwned'
    BY <1>12 DEF Account!ForgotPassword, Account!Goto
  <2>4. LinkedPasswordIsOwned'
    BY <1>12
       DEF Account!ForgotPassword, LinkedPasswordIsOwned,
           Account!LinkedPasswordIsOwned
  <2>. QED
    BY <2>1, <2>2, <2>3, <2>4
<1>13. ASSUME NEW r \in Askers, Account!SetReset(r)
      PROVE  AccountInv'
  <2>1. Account!TypeOK'
    BY <1>13
       DEF Account!SetReset, Account!At, Account!Goto, Account!TypeOK,
           Account!Row, Account!Secret, Account!Steps, HasRow
  <2>2. RowThere'
    BY <1>13 DEF Account!SetReset, Account!Goto, HasRow
  <2>3. PasswordOwned'
    BY <1>13 DEF Account!SetReset, Account!Goto
  <2>4. LinkedPasswordIsOwned'
    BY <1>13
       DEF Account!SetReset, LinkedPasswordIsOwned,
           Account!LinkedPasswordIsOwned
  <2>. QED
    BY <2>1, <2>2, <2>3, <2>4
<1>14. ASSUME NEW r \in Askers, Account!ChangePassword(r)
      PROVE  AccountInv'
  <2>1. Account!TypeOK'
    BY <1>14
       DEF Account!ChangePassword, Account!At, Account!Goto, Account!TypeOK,
           Account!Row, Account!Secret, Account!Steps, HasRow
  <2>2. RowThere'
    BY <1>14 DEF Account!ChangePassword, Account!Goto, HasRow
  <2>3. PasswordOwned'
    BY <1>14 DEF Account!ChangePassword
  <2>4. LinkedPasswordIsOwned'
    BY <1>14
       DEF Account!ChangePassword, LinkedPasswordIsOwned,
           Account!LinkedPasswordIsOwned
  <2>. QED
    BY <2>1, <2>2, <2>3, <2>4
<1>15. ASSUME NEW r \in Askers, Account!Fail(r)
      PROVE  AccountInv'
  <2>1. Account!TypeOK'
    BY <1>15 DEF Account!Fail, Account!Goto, Account!TypeOK, Account!Steps
  <2>2. RowThere'
    BY <1>15 DEF Account!Fail, Account!Goto, HasRow
  <2>3. PasswordOwned'
    BY <1>15 DEF Account!Fail, Account!Goto
  <2>4. LinkedPasswordIsOwned'
    BY <1>15
       DEF Account!Fail, LinkedPasswordIsOwned, Account!LinkedPasswordIsOwned
  <2>. QED
    BY <2>1, <2>2, <2>3, <2>4
<1>16. CASE Account!LapseLink
  <2>1. Account!TypeOK'
    BY <1>16 DEF Account!LapseLink, Account!TypeOK, Account!Row
  <2>2. RowThere'
    BY <1>16 DEF Account!LapseLink, Account!TypeOK, Account!Row
  <2>3. PasswordOwned'
    BY <1>16 DEF Account!LapseLink, Account!TypeOK, Account!Row
  <2>4. LinkedPasswordIsOwned'
    BY <1>16
       DEF Account!LapseLink, LinkedPasswordIsOwned,
           Account!LinkedPasswordIsOwned, Account!TypeOK, Account!Row
  <2>. QED
    BY <2>1, <2>2, <2>3, <2>4
<1>17. CASE UNCHANGED accountVars
  BY <1>17
     DEF accountVars, LinkedPasswordIsOwned, Account!LinkedPasswordIsOwned,
         Account!TypeOK
<1>. QED
  BY <1>1, <1>2, <1>3, <1>4, <1>5, <1>6, <1>7, <1>8, <1>9, <1>10, <1>11,
     <1>12, <1>13, <1>14, <1>15, <1>16, <1>17
     DEF Account!Next

------------------------------------------------------------------------------
(***************************************************************************)
(* The parts together.                                                     *)
(***************************************************************************)
AccountsInv ==
  /\ part \in Parts
  /\ SecondStepInv /\ LockoutInv /\ BlacklistInv /\ AccountInv

(* Every part starts in its invariant.                                     *)
LEMMA AccountsInit == Init => AccountsInv
BY SecondStepInit, LockoutInit, BlacklistInit, AccountInit DEF Init, AccountsInv

(* A step is one of the part that runs and leaves the others alone.        *)
LEMMA PartStep ==
  ASSUME part \in Parts, [Next]_vars
  PROVE  /\ part' = part
         /\ SecondStep!Next \/ UNCHANGED secondStepVars
         /\ [Lockout!Next]_lockoutVars
         /\ Blacklist!Next \/ UNCHANGED blacklistVars
         /\ Account!Next \/ UNCHANGED accountVars
<1>1. CASE Next
  BY <1>1 DEF Next
<1>2. CASE UNCHANGED vars
  BY <1>2 DEF vars
<1>. QED
  BY <1>1, <1>2

(* The parts keep their invariants.                                        *)
LEMMA AccountsStep ==
  ASSUME AccountsInv, [Next]_vars
  PROVE  AccountsInv'
<1>1. SecondStepInv'
  BY PartStep, SecondStepStep DEF AccountsInv
<1>2. LockoutInv'
  BY PartStep, LockoutStep DEF AccountsInv
<1>3. BlacklistInv'
  BY PartStep, BlacklistStep DEF AccountsInv
<1>4. AccountInv'
  BY PartStep, AccountStep DEF AccountsInv
<1>. QED
  BY PartStep, <1>1, <1>2, <1>3, <1>4 DEF AccountsInv

(* Hence they hold for good, from which the theorems follow.               *)
LEMMA AccountsKeep == Spec => []AccountsInv
<1>1. Init => AccountsInv
  BY AccountsInit
<1>2. AccountsInv /\ [Next]_vars => AccountsInv'
  BY AccountsStep
<1>. QED
  BY <1>1, <1>2, PTL DEF Spec

(* The variables of every part keep to their types.                        *)
THEOREM TypeCorrect == Spec => []TypeOK
<1>1. AccountsInv => TypeOK
  BY DEF AccountsInv, TypeOK, SecondStepInv, LockoutInv, BlacklistInv, AccountInv
<1>. QED
  BY <1>1, AccountsKeep, PTL

(* TwoFactor: however visits that present one recovery code overlap, and   *)
(* whatever becomes of its row, one of them at most signs in by it.        *)
THEOREM RecoverySignsInOnce == Spec => []RecoveryCodeOnce
<1>1. AccountsInv => RecoveryCodeOnce
  BY DEF AccountsInv, SecondStepInv
<1>. QED
  BY <1>1, AccountsKeep, PTL

(* TwoFactor: an administrator with two-step sign-in has the recovery      *)
(* codes of an issue, through enrolments, renewals and disabling that      *)
(* overlap.                                                                *)
THEOREM EnabledCanRecover == Spec => []EnabledHasCodes
<1>1. AccountsInv => EnabledHasCodes
  BY DEF AccountsInv, SecondStepInv
<1>. QED
  BY <1>1, AccountsKeep, PTL

(* TwoFactor: recordChallengeFailure's SELECT and UPDATE hold no lock.     *)
(* While no answer to a challenge crossed another it answers at most       *)
(* MAX_CHALLENGE_ATTEMPTS wrong codes; each that crossed lets it answer so *)
(* many more at most.                                                      *)
THEOREM GuessesAreLimited == Spec => []AttemptLimit
<1>1. AccountsInv => AttemptLimit
  <2>. SUFFICES ASSUME AccountsInv, NEW v \in Visits
                PROVE  told[v] <= MaxAttempts * (1 + crossed[v])
    BY DEF AttemptLimit, SecondStep!AttemptLimit
  <2>1. told[v] <= MaxAttempts * crossed[v] + MaxAttempts
    BY DEF AccountsInv, SecondStepInv, VisitInv
  <2>2. MaxAttempts \in Nat /\ crossed[v] \in Nat
    BY AccountsAssumption
       DEF AccountsInv, SecondStepInv, SecondStep!TypeOK, SecondStep!TwoFactorAssumption
  <2>. QED
    BY <2>1, <2>2, Buys
<1>. QED
  BY <1>1, AccountsKeep, PTL

(* TokenBlacklist: once a token was signed out and its row stored, no      *)
(* request that begins later is let in with it, through any order of       *)
(* loads, clean-ups and restarts.  Left out are tokens whose INSERT failed *)
(* and requests whose own SELECT fails: the code lets those through.       *)
THEOREM SignedOutStaysOut == Spec => []SignedOutIsRefused
<1>1. AccountsInv => SignedOutIsRefused
  BY DEF AccountsInv, BlacklistInv
<1>. QED
  BY <1>1, AccountsKeep, PTL

(* EmailAccounts: in an account that is signed in to by Google stands no   *)
(* password that the owner of the address has not chosen or approved.      *)
THEOREM GoogleOwnerIsAlone == Spec => []LinkedPasswordIsOwned
<1>1. AccountsInv => LinkedPasswordIsOwned
  BY DEF AccountsInv, AccountInv
<1>. QED
  BY <1>1, AccountsKeep, PTL

(* AccountLockout: a key is locked, or locked for longer, only after so    *)
(* many failures within one window since its last success.                 *)
THEOREM OnlyFailuresLock == Spec => LocksAreEarned
<1>1. AccountsInv /\ [Next]_vars =>
        [\A k \in Lockout!Keys : record'[k].until > record[k].until
           => Lockout!Cardinality(streak'[k]) >= MaxAttempts]_<<now, record, login, streak>>
  BY PartStep, LockoutStep, LockoutNumbers DEF AccountsInv
<1>. QED
  BY <1>1, AccountsKeep, PTL DEF Spec, LocksAreEarned, Lockout!LocksAreEarned, Lockout!vars
=============================================================================
