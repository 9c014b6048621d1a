---------------------------- MODULE EscrowProofs ----------------------------
(***************************************************************************)
(* Proofs about Escrow, for every number of contracts and deposits, every  *)
(* value and every fee: what a contract counts are its funds, its          *)
(* signatures verify, a secured contract can pay, and what a settlement    *)
(* spends stays there.  The server locks what is committed to a contract   *)
(* (CommitLocks): without that the funds of a contract are not its own.    *)
(***************************************************************************)
EXTENDS Escrow, DepositDataProofs, FiniteSetTheorems

\* A contract is the record of its fields; what a version of it leaves alone.
ContractFields ==
  {"cid", "status", "funds_conf", "funds_pend", "vin_count", "tx_fees", "tx_total",
   "canceled", "secured", "activated", "head", "closed", "machine_vout", "spent",
   "settled", "created_sig", "canceled_sig", "secured_sig", "active_sig",
   "closed_sig", "spent_sig", "settled_sig"}

IsContract(r) == r = [f \in ContractFields |-> r[f]]

ChangesOnly(r, e, F) == IsContract(e) /\ \A f \in ContractFields \ F : e[f] = r[f]

\* The funds of a contract, with and without a confirmation.
Conf(c) == {d \in Funds(c) : dp[d].conf # NULL}
Pend(c) == {d \in Funds(c) : dp[d].conf = NULL}

-----------------------------------------------------------------------------
(* The invariant.  A contract and a deposit on their own: in which order    *)
(* they come through their states, and that their signatures verify.        *)

StatusOf(r) ==
  IF r.canceled THEN "canceled"
  ELSE IF r.settled # NULL THEN "settled"
  ELSE IF r.spent # NULL THEN "spent"
  ELSE IF r.closed THEN "closed"
  ELSE IF r.activated THEN "active"
  ELSE IF r.secured THEN "secured" ELSE "published"

TypedContract(r) ==
  /\ IsContract(r)
  /\ {r.funds_conf, r.funds_pend, r.vin_count, r.tx_fees} \subseteq Nat
  /\ r.tx_total \in Int
  /\ {r.canceled, r.secured, r.activated, r.closed} \subseteq BOOLEAN
  /\ r.machine_vout \in Outputs \cup {NULL}

OrderedContract(r) ==
  /\ r.status = StatusOf(r)
  /\ r.activated => r.secured /\ ~r.canceled
  /\ r.closed => r.activated
  /\ r.spent # NULL => r.closed /\ r.machine_vout # NULL
  /\ r.settled # NULL => r.closed /\ (r.spent # NULL \/ r.machine_vout = NULL)

SignedContract(r) == ~r.canceled => CD!verify_contract_sigs(r)

SoundContract(r) == TypedContract(r) /\ OrderedContract(r) /\ SignedContract(r)

SoundDeposit(r) ==
  /\ IsDeposit(r)
  /\ r.status \in DepositStatus
  /\ r.locked \in BOOLEAN
  /\ r.covenant \in Contracts \cup {NULL}
  /\ r.locked <=> r.covenant # NULL
  /\ r.closed # NULL => r.covenant = NULL
  /\ r.spent # NULL => r.covenant # NULL
  /\ r.spent # NULL \/ r.closed # NULL => r.conf # NULL
  /\ r.settled # NULL => r.spent # NULL \/ r.closed # NULL
  /\ verify_deposit_sigs(r)

\* What ties a contract to its funds: what it counts of them, that they were all
\* there when it was secured, and that a settlement spends them.
Counted(c) ==
  ~(ct[c].closed /\ Released(c)) =>
    /\ ct[c].vin_count  = Cardinality(Conf(c))
    /\ ct[c].funds_conf = Worth(Conf(c))
    /\ ct[c].funds_pend = Worth(Pend(c))
    /\ ct[c].tx_fees    = BaseFee + VinFee * Cardinality(Conf(c))

Covered(c) ==
  ct[c].secured =>
    /\ Pend(c) = {}
    /\ ~Released(c) =>
         /\ Worth(Funds(c)) >= Subtotal + BaseFee + VinFee * Cardinality(Funds(c))
         /\ ct[c].tx_total = Subtotal + ct[c].tx_fees

Spends(c) == ct[c].spent # NULL => ct[c].spent = [cid |-> c, vin |-> Funds(c)]

\* What ties it to its machine: once it has an output, the machine has stopped.
Follows(c) ==
  /\ c \in DOMAIN vm <=> ct[c].activated
  /\ c \in DOMAIN vm => vm[c] \in [closed : BOOLEAN, head : {vm[c].head},
                                   output : Outputs \cup {NULL}]
  /\ ct[c].closed /\ ct[c].machine_vout # NULL =>
       /\ vm[c].closed /\ vm[c].output = ct[c].machine_vout
       /\ vm[c].head = ct[c].head

Tied(c) == Counted(c) /\ Covered(c) /\ Spends(c) /\ Follows(c)

\* A deposit is spent by the settlement of the contract it is locked to.
SpentBy(d) == dp[d].spent # NULL => dp[d].spent = ct[dp[d].covenant].spent

IInv ==
  /\ DOMAIN ct = Contracts
  /\ DOMAIN vm \subseteq Contracts
  /\ DOMAIN dp \subseteq Deposits /\ IsFiniteSet(DOMAIN dp)
  /\ \A c \in Contracts : SoundContract(ct[c]) /\ ct[c].cid = c /\ Tied(c)
  /\ \A d \in DOMAIN dp : SoundDeposit(dp[d]) /\ SpentBy(d)

-----------------------------------------------------------------------------
(* What a set of deposits is worth.  The sum is defined by recursion over   *)
(* the set; it is the number of the units of its values, and a least set    *)
(* for which it is not would be larger by one deposit than one for which    *)
(* it is.                                                                   *)

Units(S) == {u \in S \X Nat : u[2] \in 1..Value[u[1]]}

Rest(S) == S \ {CHOOSE d \in S : TRUE}

\* The sum is the value of one function on all the subsets of S.
IsSum(f, S) ==
  f = [T \in SUBSET S |-> IF T = {} THEN 0 ELSE Value[CHOOSE d \in T : TRUE] + f[Rest(T)]]

\* The definition of MapThenSumSet.
LEMMA WorthDef ==
  ASSUME NEW S
  PROVE  Worth(S) = (CHOOSE f : IsSum(f, S))[S]
BY DEF Worth, MapThenSumSet, MapThenFoldSet, IsSum, Rest

\* One more deposit has the units of its value more.
LEMMA UnitsOfOneMore ==
  ASSUME NEW S, S \subseteq Deposits, NEW d \in Deposits, d \notin S,
         IsFiniteSet(Units(S))
  PROVE  /\ IsFiniteSet(Units(S \cup {d}))
         /\ Cardinality(Units(S \cup {d})) = Cardinality(Units(S)) + Value[d]
<1> DEFINE One == {d} \X (1..Value[d])
<1>0. Value[d] \in Nat
  BY ValueAssumption
<1>1. Units(S \cup {d}) = Units(S) \cup One
  <2>1. ASSUME NEW u, u \in Units(S \cup {d})
        PROVE  u \in Units(S) \cup One
    BY <2>1 DEF Units
  <2>2. ASSUME NEW u, u \in Units(S) \cup One
        PROVE  u \in Units(S \cup {d})
    BY <1>0, <2>2 DEF Units
  <2> QED
    BY <2>1, <2>2
<1>2. Units(S) \cap One = {}
  BY DEF Units
<1>3. IsFiniteSet(One) /\ Cardinality(One) = Value[d]
  <2>1. IsFiniteSet({d}) /\ Cardinality({d}) = 1
    BY FS_Singleton
  <2>2. IsFiniteSet(1..Value[d]) /\ Cardinality(1..Value[d]) = Value[d]
    BY <1>0, FS_Interval, SMTT(30)
  <2>3. IsFiniteSet(One) /\ Cardinality(One) = Cardinality({d}) * Cardinality(1..Value[d])
    BY <2>1, <2>2, FS_Product
  <2> QED
    BY <1>0, <2>1, <2>2, <2>3
<1>4. Cardinality(Units(S)) \in Nat
  BY FS_CardinalityType
<1>5. Cardinality(Units(S) \cap One) = 0
  BY <1>2, FS_EmptySet
<1> HIDE DEF One
<1>6. IsFiniteSet(Units(S) \cup One)
  BY <1>3, FS_Union
<1>7. Cardinality(Units(S) \cup One)
        = Cardinality(Units(S)) + Cardinality(One) - Cardinality(Units(S) \cap One)
  BY <1>3, FS_Union
<1>8. Cardinality(Units(S) \cup One) = Cardinality(Units(S)) + Value[d]
  BY <1>0, <1>3, <1>4, <1>5, <1>7, SMT
<1>9. Cardinality(Units(S \cup {d})) = Cardinality(Units(S) \cup One)
  BY <1>1
<1> QED
  BY <1>1, <1>6, <1>8, <1>9

\* A property of the subsets of a finite set that goes over to one more
\* element holds of the set.
LEMMA FiniteSets_Grow ==
  ASSUME NEW S, IsFiniteSet(S), NEW Good, Good \subseteq SUBSET S, {} \in Good,
         \A T \in SUBSET S : T # {} /\ Rest(T) \in Good => T \in Good
  PROVE  S \in Good
<1> DEFINE Bad == (SUBSET S) \ Good
<1> SUFFICES ASSUME Bad # {}
             PROVE  FALSE
  OBVIOUS
<1>1. IsWellFoundedOn(StrictSubsetOrdering(S), SUBSET S)
  <2>1. FiniteSubsetsOf(S) = SUBSET S
    BY FS_FiniteSubsetsOfFinite
  <2>2. IsWellFoundedOn(StrictSubsetOrdering(S), FiniteSubsetsOf(S))
    BY FS_StrictSubsetOrderingWellFounded
  <2> QED
    BY <2>1, <2>2
<1>2. Bad \subseteq SUBSET S
  OBVIOUS
<1>3. PICK T \in Bad : \A U \in Bad : <<U, T>> \notin StrictSubsetOrdering(S)
  <2> HIDE DEF Bad
  <2> QED
    BY <1>1, <1>2, WFMin
<1>4. T \subseteq S /\ T # {}
  OBVIOUS
<1>5. (CHOOSE d \in T : TRUE) \in T
  BY <1>4
<1>6. Rest(T) \subseteq T /\ Rest(T) # T
  BY <1>5 DEF Rest
<1>7. <<Rest(T), T>> \in StrictSubsetOrdering(S)
  BY <1>4, <1>6 DEF StrictSubsetOrdering
<1>8. Rest(T) \in Good
  BY <1>3, <1>4, <1>6, <1>7
<1> QED
  BY <1>4, <1>8

\* Finitely many deposits have finitely many units.
LEMMA UnitsFinite ==
  ASSUME NEW S, S \subseteq Deposits, IsFiniteSet(S)
  PROVE  IsFiniteSet(Units(S))
<1> DEFINE Good == {T \in SUBSET S : IsFiniteSet(Units(T))}
<1>1. {} \in Good
  <2>1. Units({}) = {}
    BY DEF Units
  <2> QED
    BY <2>1, FS_EmptySet
<1>2. ASSUME NEW T \in SUBSET S, T # {}, Rest(T) \in Good
      PROVE  T \in Good
  <2> DEFINE d == CHOOSE d \in T : TRUE
  <2>1. d \in T
    BY <1>2
  <2>2. d \in Deposits /\ d \notin Rest(T) /\ Rest(T) \subseteq Deposits
    BY <2>1 DEF Rest
  <2>3. T = Rest(T) \cup {d}
    BY <2>1 DEF Rest
  <2>4. IsFiniteSet(Units(Rest(T)))
    BY <1>2
  <2> HIDE DEF d
  <2>5. IsFiniteSet(Units(Rest(T) \cup {d}))
    BY <2>2, <2>4, UnitsOfOneMore
  <2> QED
    BY <2>3, <2>5
<1>3. S \in Good
  <2>1. Good \subseteq SUBSET S
    OBVIOUS
  <2> HIDE DEF Good
  <2> QED
    BY <1>1, <1>2, <2>1, FiniteSets_Grow
<1> QED
  BY <1>3

\* The sum of the values is the number of units.
LEMMA WorthIsUnits ==
  ASSUME NEW S, S \subseteq Deposits, IsFiniteSet(S)
  PROVE  Worth(S) = Cardinality(Units(S))
<1> DEFINE count == [T \in SUBSET S |-> Cardinality(Units(T))]
           sum   == CHOOSE f : IsSum(f, S)
<1>0. Units({}) = {} /\ Cardinality(Units({})) = 0
  <2>1. Units({}) = {}
    BY DEF Units
  <2> QED
    BY <2>1, FS_EmptySet
<1>1. ASSUME NEW T \in SUBSET S, T # {}
      PROVE  /\ Rest(T) \in SUBSET S
             /\ Value[CHOOSE d \in T : TRUE] \in Nat
             /\ Cardinality(Units(Rest(T))) \in Nat
             /\ Cardinality(Units(T))
                  = Value[CHOOSE d \in T : TRUE] + Cardinality(Units(Rest(T)))
  <2> DEFINE d == CHOOSE d \in T : TRUE
  <2>1. d \in T
    BY <1>1
  <2>2. d \in Deposits /\ d \notin Rest(T) /\ Rest(T) \subseteq Deposits
    BY <2>1 DEF Rest
  <2>3. T = Rest(T) \cup {d} /\ Rest(T) \in SUBSET S
    BY <2>1 DEF Rest
  <2>4. IsFiniteSet(Units(Rest(T)))
    <3>1. IsFiniteSet(Rest(T))
      BY <2>3, FS_Subset
    <3> QED
      BY <3>1, <2>2, UnitsFinite
  <2>5. Cardinality(Units(Rest(T))) \in Nat
    BY <2>4, FS_CardinalityType
  <2>6. Value[d] \in Nat
    BY <2>2, ValueAssumption
  <2> HIDE DEF d
  <2>7. Cardinality(Units(Rest(T) \cup {d})) = Cardinality(Units(Rest(T))) + Value[d]
    BY <2>2, <2>4, UnitsOfOneMore
  <2>8. Cardinality(Units(T)) = Value[d] + Cardinality(Units(Rest(T)))
    <3>1. Cardinality(Units(T)) = Cardinality(Units(Rest(T) \cup {d}))
      BY <2>3
    <3>2. Cardinality(Units(T)) = Cardinality(Units(Rest(T))) + Value[d]
      BY <2>7, <3>1
    <3> QED
      BY <2>5, <2>6, <3>2
  <2> QED
    BY <2>3, <2>5, <2>6, <2>8 DEF d
<1>2. IsSum(count, S)
  <2>1. ASSUME NEW T \in SUBSET S
        PROVE  count[T] = IF T = {} THEN 0
                          ELSE Value[CHOOSE d \in T : TRUE] + count[Rest(T)]
    BY <1>0, <1>1
  <2>2. count = [T \in SUBSET S |-> count[T]]
    OBVIOUS
  <2> HIDE DEF count
  <2> QED
    BY <2>1, <2>2 DEF IsSum
<1>3. IsSum(sum, S)
  <2> HIDE DEF count
  <2> QED
    BY <1>2
<1>4. \A T \in SUBSET S : sum[T] = IF T = {} THEN 0
                          ELSE Value[CHOOSE d \in T : TRUE] + sum[Rest(T)]
  <2> HIDE DEF sum
  <2> QED
    BY <1>3 DEF IsSum
<1> DEFINE Good == {T \in SUBSET S : sum[T] = Cardinality(Units(T))}
<1> HIDE DEF sum
<1>5. {} \in Good
  BY <1>0, <1>4
<1>6. ASSUME NEW T \in SUBSET S, T # {}, Rest(T) \in Good
      PROVE  T \in Good
  BY <1>1, <1>4, <1>6
<1>7. S \in Good
  <2>1. Good \subseteq SUBSET S
    OBVIOUS
  <2> HIDE DEF Good
  <2> QED
    BY <1>5, <1>6, <2>1, FiniteSets_Grow
<1>8. Worth(S) = sum[S]
  BY WorthDef DEF sum
<1> QED
  BY <1>7, <1>8

\* What deposits are worth is a number, and nothing if there are none.
LEMMA WorthType ==
  ASSUME NEW S, S \subseteq Deposits, IsFiniteSet(S)
  PROVE  Worth(S) \in Nat /\ (S = {} => Worth(S) = 0)
<1>1. IsFiniteSet(Units(S)) /\ Worth(S) = Cardinality(Units(S))
  BY UnitsFinite, WorthIsUnits
<1>2. Worth(S) \in Nat
  BY <1>1, FS_CardinalityType
<1>3. ASSUME S = {} PROVE Worth(S) = 0
  <2>1. Units(S) = {}
    BY <1>3 DEF Units
  <2> QED
    BY <1>1, <2>1, FS_EmptySet
<1> QED
  BY <1>2, <1>3

\* A deposit adds its value.
LEMMA WorthOfOneMore ==
  ASSUME NEW S, S \subseteq Deposits, IsFiniteSet(S), NEW d \in Deposits, d \notin S
  PROVE  Worth(S \cup {d}) = Worth(S) + Value[d]
<1>1. IsFiniteSet(S \cup {d}) /\ S \cup {d} \subseteq Deposits
  BY FS_AddElement
<1>2. Worth(S \cup {d}) = Cardinality(Units(S \cup {d}))
  BY <1>1, WorthIsUnits
<1>3. Worth(S) = Cardinality(Units(S)) /\ IsFiniteSet(Units(S))
  BY UnitsFinite, WorthIsUnits
<1>4. Cardinality(Units(S \cup {d})) = Cardinality(Units(S)) + Value[d]
  BY <1>3, UnitsOfOneMore
<1> QED
  BY <1>2, <1>3, <1>4

\* And takes it away.
LEMMA WorthOfOneLess ==
  ASSUME NEW S, S \subseteq Deposits, IsFiniteSet(S), NEW d \in S
  PROVE  Worth(S \ {d}) = Worth(S) - Value[d]
<1> DEFINE T == S \ {d}
<1>1. /\ T \subseteq Deposits /\ IsFiniteSet(T) /\ d \in Deposits /\ d \notin T
      /\ T \cup {d} = S
  BY FS_RemoveElement
<1> HIDE DEF T
<1>2. Worth(T \cup {d}) = Worth(T) + Value[d]
  BY <1>1, WorthOfOneMore
<1>3. Worth(T) \in Nat /\ Value[d] \in Nat
  BY <1>1, WorthType, ValueAssumption
<1>4. Worth(S) = Worth(T) + Value[d]
  BY <1>1, <1>2
<1>5. Worth(T) = Worth(S) - Value[d]
  BY <1>3, <1>4
<1> QED
  BY <1>5 DEF T

-----------------------------------------------------------------------------
(* What a signature on a contract covers, and what each operation changes.  *)

\* The fields that a signature of each status does not cover.
LaterThan ==
  [ settled   |-> {"status", "settled_sig"},
    spent     |-> {"status", "settled_sig", "settled", "spent_sig"},
    closed    |-> {"status", "settled_sig", "settled", "spent_sig", "spent", "closed_sig"},
    active    |-> {"status", "settled_sig", "settled", "spent_sig", "spent", "closed_sig",
                   "closed", "machine_vout", "head", "active_sig"},
    secured   |-> {"status", "settled_sig", "settled", "spent_sig", "spent", "closed_sig",
                   "closed", "machine_vout", "head", "active_sig", "activated",
                   "secured_sig"},
    published |-> ContractFields \ {"cid"} ]

\* What a status sets them back to.
Initially(status, f) ==
  IF f = "status" THEN status
  ELSE IF f \in {"closed", "activated", "secured", "canceled"} THEN FALSE
  ELSE IF f \in {"funds_conf", "funds_pend", "vin_count", "tx_fees", "tx_total"} THEN 0
  ELSE NULL

Content(r, status) ==
  [f \in ContractFields |-> IF f \in LaterThan[status] THEN Initially(status, f) ELSE r[f]]

Signed == {"published", "secured", "active", "closed", "spent", "settled"}

\* The content of a signature: what the status resets, and all the rest
\* (module/contract/state.ts).
LEMMA ContractContents ==
  ASSUME NEW r, IsContract(r), NEW status \in Signed
  PROVE  CD!get_contract_state(r, status) = Content(r, status)
<1>1. CD!GET_SETTLE_STATE(r) = Content(r, "settled")
  BY DEF IsContract, CD!GET_SETTLE_STATE, Content, LaterThan, Initially
<1>2. CD!GET_SPEND_STATE(r) = Content(r, "spent")
  BY DEF IsContract, CD!GET_SPEND_STATE, CD!INIT_SETTLE_STATE, Content, LaterThan,
         Initially
<1>3. CD!GET_CLOSE_STATE(r) = Content(r, "closed")
  BY <1>2 DEF CD!GET_CLOSE_STATE, CD!INIT_SPEND_STATE, Content, LaterThan, Initially
<1>4. CD!GET_ACTIVE_STATE(r) = Content(r, "active")
  BY <1>3 DEF CD!GET_ACTIVE_STATE, CD!INIT_CLOSE_STATE, Content, LaterThan, Initially
<1>5. CD!GET_FUNDING_STATE(r) = Content(r, "secured")
  BY <1>4 DEF CD!GET_FUNDING_STATE, CD!INIT_ACTIVE_STATE, Content, LaterThan, Initially
<1> DEFINE a == CD!INIT_ACTIVE_STATE(CD!GET_ACTIVE_STATE(r))
<1>6. a = [f \in ContractFields |->
            IF f = "status" THEN "active" ELSE IF f \in {"closed", "activated"} THEN FALSE
            ELSE IF f \in {"settled_sig", "settled", "spent_sig", "spent", "closed_sig",
                           "machine_vout", "head", "active_sig"}
            THEN NULL ELSE r[f]]
  BY <1>4 DEF CD!INIT_ACTIVE_STATE, Content, LaterThan, Initially
<1>7. CD!GET_PUBLISH_STATE(r) =
        [CD!INIT_FUNDING_STATE(CD!INIT_PUBLISH_STATE(CD!INIT_CANCEL_STATE(a)))
         EXCEPT !.created_sig = NULL, !.status = "published"]
  BY DEF CD!GET_PUBLISH_STATE
<1> HIDE DEF a
<1>8. CD!GET_PUBLISH_STATE(r) =
        [f \in ContractFields |->
           IF f = "status" THEN "published" ELSE IF f = "cid" THEN r[f]
           ELSE IF f \in {"closed", "activated", "secured", "canceled"} THEN FALSE
           ELSE IF f \in {"funds_conf", "funds_pend", "vin_count", "tx_fees", "tx_total"}
           THEN 0 ELSE NULL]
  BY <1>6, <1>7, ZenonT(40) DEF CD!INIT_FUNDING_STATE, CD!INIT_PUBLISH_STATE, CD!INIT_CANCEL_STATE,
                    ContractFields
<1>9. Content(r, "published") =
        [f \in ContractFields |->
           IF f = "status" THEN "published" ELSE IF f = "cid" THEN r[f]
           ELSE IF f \in {"closed", "activated", "secured", "canceled"} THEN FALSE
           ELSE IF f \in {"funds_conf", "funds_pend", "vin_count", "tx_fees", "tx_total"}
           THEN 0 ELSE NULL]
  BY DEF Content, LaterThan, Initially
<1> QED
  BY <1>1, <1>2, <1>3, <1>4, <1>5, <1>8, <1>9 DEF CD!get_contract_state, Signed

\* Two versions of a contract that agree on what a signature covers give it the
\* same content.
LEMMA SameContract ==
  ASSUME NEW r, IsContract(r), NEW e, NEW status \in Signed,
         ChangesOnly(r, e, LaterThan[status])
  PROVE  CD!get_contract_state(e, status) = CD!get_contract_state(r, status)
<1>1. Content(e, status) = Content(r, status)
  BY DEF Content, ChangesOnly
<1> QED
  BY <1>1, ContractContents DEF ChangesOnly

\* A signature that is put in its own field, which it does not cover, is on what
\* the contract is then.
LEMMA NotarizedSig ==
  ASSUME NEW u, IsContract(u), NEW status \in Signed,
         NEW k \in ContractFields, k \in LaterThan[status],
         NEW e, ChangesOnly(u, e, {k}), e[k] = CD!Notarized(u, status)
  PROVE  e[k] = CD!get_contract_state(e, status)
<1> DEFINE v == [u EXCEPT !.status = status]
<1>2. e[k] = CD!get_contract_state(v, status)
  BY DEF CD!Notarized
<1>3. ChangesOnly(u, v, {"status"})
  BY DEF ChangesOnly, IsContract
<1>4. "status" \in LaterThan[status]
  BY DEF LaterThan, Signed, ContractFields
<1> HIDE DEF v
<1>5. ChangesOnly(v, e, LaterThan[status]) /\ IsContract(v)
  BY <1>3, <1>4 DEF ChangesOnly
<1>6. CD!get_contract_state(e, status) = CD!get_contract_state(v, status)
  BY <1>5, SameContract
<1> QED
  BY <1>2, <1>6

\* create_contract (data.ts) signs what the contract is then.
LEMMA ContractCreated ==
  ASSUME NEW c
  PROVE  LET e == CD!create_contract(c) IN
         /\ IsContract(e) /\ e.cid = c /\ e.status = "published"
         /\ e.funds_conf = 0 /\ e.funds_pend = 0 /\ e.vin_count = 0
         /\ e.tx_fees = BaseFee /\ e.tx_total = Subtotal + BaseFee
         /\ e.canceled = FALSE /\ e.secured = FALSE /\ e.activated = FALSE
         /\ e.closed = FALSE /\ e.machine_vout = NULL /\ e.spent = NULL
         /\ e.settled = NULL
         /\ e.created_sig = CD!get_contract_state(e, "published")
<1> DEFINE u == [ cid |-> c, status |-> "published",
                  funds_conf |-> 0, funds_pend |-> 0, vin_count |-> 0,
                  tx_fees |-> BaseFee, tx_total |-> Subtotal + BaseFee,
                  canceled |-> FALSE, secured |-> FALSE, activated |-> FALSE,
                  head |-> NULL, closed |-> FALSE, machine_vout |-> NULL,
                  spent |-> NULL, settled |-> NULL,
                  created_sig |-> NULL, canceled_sig |-> NULL, secured_sig |-> NULL,
                  active_sig |-> NULL, closed_sig |-> NULL, spent_sig |-> NULL,
                  settled_sig |-> NULL ]
           e == CD!create_contract(c)
<1>1. e = [u EXCEPT !.created_sig = CD!Notarized(u, "published")]
  BY DEF CD!create_contract
<1>2. DOMAIN u = ContractFields
  BY DEF ContractFields
<1>3. u = [f \in DOMAIN u |-> u[f]]
  OBVIOUS
<1>4. IsContract(u)
  <2> HIDE DEF u
  <2> QED
    BY <1>2, <1>3 DEF IsContract
<1>5. /\ u.cid = c /\ u.status = "published"
      /\ u.funds_conf = 0 /\ u.funds_pend = 0 /\ u.vin_count = 0
      /\ u.tx_fees = BaseFee /\ u.tx_total = Subtotal + BaseFee
      /\ u.canceled = FALSE /\ u.secured = FALSE /\ u.activated = FALSE
      /\ u.closed = FALSE /\ u.machine_vout = NULL /\ u.spent = NULL
      /\ u.settled = NULL
  OBVIOUS
<1> HIDE DEF u, e
<1>6. /\ ChangesOnly(u, e, {"created_sig"})
      /\ e["created_sig"] = CD!get_contract_state(e, "published")
  <2>1. "created_sig" \in ContractFields /\ "created_sig" \in LaterThan["published"]
    BY DEF ContractFields, LaterThan
  <2>2. "published" \in Signed
    BY DEF Signed
  <2>3. ChangesOnly(u, e, {"created_sig"}) /\ e["created_sig"] = CD!Notarized(u, "published")
    BY <1>1, <1>4, <2>1 DEF ChangesOnly, IsContract
  <2> QED
    BY <1>4, <2>1, <2>2, <2>3, NotarizedSig
<1>7. /\ IsContract(e) /\ e.cid = u.cid /\ e.status = u.status
      /\ e.funds_conf = u.funds_conf /\ e.funds_pend = u.funds_pend
      /\ e.vin_count = u.vin_count /\ e.tx_fees = u.tx_fees
      /\ e.tx_total = u.tx_total /\ e.canceled = u.canceled /\ e.secured = u.secured
      /\ e.activated = u.activated /\ e.closed = u.closed
      /\ e.machine_vout = u.machine_vout /\ e.spent = u.spent /\ e.settled = u.settled
  BY <1>6 DEF ChangesOnly, ContractFields
<1> QED
  BY <1>5, <1>6, <1>7 DEF e

\* add_ and rem_contract_funds (data.ts) change the counts only.
LEMMA ContractCounted ==
  ASSUME NEW r, IsContract(r), NEW confirmed \in BOOLEAN, NEW v, NEW n
  PROVE  LET e == CD!CountFunds(r, confirmed, v, n) IN
         /\ ChangesOnly(r, e, {"funds_conf", "tx_fees", "tx_total", "vin_count",
                               "funds_pend"})
         /\ confirmed =>
              /\ e.funds_conf = r.funds_conf + n * v /\ e.funds_pend = r.funds_pend
              /\ e.vin_count = r.vin_count + n /\ e.tx_fees = r.tx_fees + n * VinFee
              /\ e.tx_total = r.tx_total + n * (v + VinFee)
         /\ ~confirmed =>
              /\ e.funds_conf = r.funds_conf /\ e.funds_pend = r.funds_pend + n * v
              /\ e.vin_count = r.vin_count /\ e.tx_fees = r.tx_fees
              /\ e.tx_total = r.tx_total
<1> DEFINE e == CD!CountFunds(r, confirmed, v, n)
<1>1. CASE confirmed
  <2>1. e = [r EXCEPT !.funds_conf = r.funds_conf + n * v,
                      !.tx_fees = r.tx_fees + n * VinFee,
                      !.tx_total = r.tx_total + n * (v + VinFee),
                      !.vin_count = r.vin_count + n]
    BY <1>1 DEF CD!CountFunds, IsContract, ContractFields
  <2> HIDE DEF e
  <2>2. ChangesOnly(r, e, {"funds_conf", "tx_fees", "tx_total", "vin_count"})
    BY <2>1 DEF ChangesOnly, IsContract
  <2>3. /\ e.funds_conf = r.funds_conf + n * v
        /\ e.vin_count = r.vin_count + n /\ e.tx_fees = r.tx_fees + n * VinFee
        /\ e.tx_total = r.tx_total + n * (v + VinFee)
    BY <2>1 DEF IsContract, ContractFields
  <2>4. e.funds_pend = r.funds_pend
    BY <2>2 DEF ChangesOnly, ContractFields
  <2> QED
    BY <1>1, <2>2, <2>3, <2>4 DEF ChangesOnly, e
<1>2. CASE ~confirmed
  <2>1. e = [r EXCEPT !.funds_pend = r.funds_pend + n * v]
    BY <1>2 DEF CD!CountFunds
  <2> HIDE DEF e
  <2>2. ChangesOnly(r, e, {"funds_pend"})
    BY <2>1 DEF ChangesOnly, IsContract
  <2>3. e.funds_pend = r.funds_pend + n * v
    BY <2>1 DEF IsContract, ContractFields
  <2>4. /\ e.funds_conf = r.funds_conf /\ e.vin_count = r.vin_count
        /\ e.tx_fees = r.tx_fees /\ e.tx_total = r.tx_total
    BY <2>2 DEF ChangesOnly, ContractFields
  <2> QED
    BY <1>2, <2>2, <2>3, <2>4 DEF ChangesOnly, e
<1> QED
  BY <1>1, <1>2

\* cancel_contract (data.ts) changes its fields only.
LEMMA ContractCanceled ==
  ASSUME NEW r, IsContract(r)
  PROVE  LET e == CD!cancel_contract(r) IN
         /\ ChangesOnly(r, e, {"canceled", "status", "canceled_sig"})
         /\ e.canceled = TRUE
         /\ e.status = "canceled"
<1> DEFINE u == [r EXCEPT !.canceled = TRUE, !.status = "canceled"]
           e == CD!cancel_contract(r)
<1>1. e = [u EXCEPT !.canceled_sig = CD!Notarized(u, "canceled")]
  BY DEF CD!cancel_contract
<1>2. ChangesOnly(r, u, {"canceled", "status"})
  BY DEF ChangesOnly, IsContract
<1>3. u.canceled = TRUE /\ u.status = "canceled"
  BY DEF IsContract, ContractFields
<1> HIDE DEF u, e
<1>4. IsContract(u)
  BY <1>2 DEF ChangesOnly
<1>5. ChangesOnly(u, e, {"canceled_sig"}) /\ e["canceled_sig"] = CD!Notarized(u, "canceled")
  BY <1>1, <1>4 DEF ChangesOnly, IsContract, ContractFields
<1>7. ChangesOnly(r, e, {"canceled", "status", "canceled_sig"})
  BY <1>2, <1>5 DEF ChangesOnly
<1>8. /\ e.canceled = u.canceled
      /\ e.status = u.status
  BY <1>5 DEF ChangesOnly, ContractFields
<1> QED
  BY <1>3, <1>7, <1>8 DEF e

\* The fees of a transaction of so many inputs.
FeesOf(count) == BaseFee + VinFee * count

\* secure_contract (data.ts) changes its fields only, and signs what they are then.
LEMMA ContractSecured ==
  ASSUME NEW r, IsContract(r), NEW count, NEW value
  PROVE  LET e == CD!secure_contract(r, count, value) IN
         /\ ChangesOnly(r, e, {"vin_count", "funds_pend", "funds_conf", "secured",
                               "tx_fees", "tx_total", "status", "secured_sig"})
         /\ e.vin_count = count
         /\ e.funds_pend = 0
         /\ e.funds_conf = value
         /\ e.secured /\ e.secured \in BOOLEAN
         /\ e.tx_fees = FeesOf(count)
         /\ e.tx_total = Subtotal + FeesOf(count)
         /\ e.status = "secured"
         /\ e.secured_sig = CD!get_contract_state(e, "secured")
<1> DEFINE u == [r EXCEPT !.vin_count = count, !.funds_pend = 0,
                          !.funds_conf = value, !.secured = TRUE,
                          !.tx_fees = FeesOf(count),
                          !.tx_total = Subtotal + FeesOf(count),
                          !.status = "secured"]
           e == CD!secure_contract(r, count, value)
<1>1. e = [u EXCEPT !.secured_sig = CD!Notarized(u, "secured")]
  BY DEF CD!secure_contract, FeesOf
<1>2. ChangesOnly(r, u, {"vin_count", "funds_pend", "funds_conf", "secured",
                         "tx_fees", "tx_total", "status"})
  BY DEF ChangesOnly, IsContract
<1>3. /\ u.vin_count = count /\ u.funds_pend = 0
      /\ u.funds_conf = value /\ u.secured = TRUE
      /\ u.tx_fees = FeesOf(count)
      /\ u.tx_total = Subtotal + FeesOf(count)
      /\ u.status = "secured"
  BY DEF IsContract, ContractFields
<1> HIDE DEF u, e
<1>4. IsContract(u)
  BY <1>2 DEF ChangesOnly
<1>5. ChangesOnly(u, e, {"secured_sig"}) /\ e["secured_sig"] = CD!Notarized(u, "secured")
  BY <1>1, <1>4 DEF ChangesOnly, IsContract, ContractFields
<1>6. e["secured_sig"] = CD!get_contract_state(e, "secured")
  <2>1. /\ "secured_sig" \in ContractFields /\ "secured_sig" \in LaterThan["secured"]
        /\ "secured" \in Signed
    BY DEF ContractFields, LaterThan, Signed
  <2> QED
    BY <1>4, <1>5, <2>1, NotarizedSig
<1>7. ChangesOnly(r, e, {"vin_count", "funds_pend", "funds_conf", "secured",
                         "tx_fees", "tx_total", "status", "secured_sig"})
  BY <1>2, <1>5 DEF ChangesOnly
<1>8. /\ e.vin_count = u.vin_count
      /\ e.funds_pend = u.funds_pend
      /\ e.funds_conf = u.funds_conf
      /\ e.secured = u.secured
      /\ e.tx_fees = u.tx_fees
      /\ e.tx_total = u.tx_total
      /\ e.status = u.status
  BY <1>5 DEF ChangesOnly, ContractFields
<1> QED
  BY <1>3, <1>6, <1>7, <1>8 DEF e

\* activate_contract (data.ts) changes its fields only, and signs what they are then.
LEMMA ContractActivated ==
  ASSUME NEW r, IsContract(r)
  PROVE  LET e == CD!activate_contract(r) IN
         /\ ChangesOnly(r, e, {"activated", "head", "status", "active_sig"})
         /\ e.activated = TRUE
         /\ e.head = r.cid
         /\ e.status = "active"
         /\ e.active_sig = CD!get_contract_state(e, "active")
<1> DEFINE u == [r EXCEPT !.activated = TRUE, !.head = r.cid, !.status = "active"]
           e == CD!activate_contract(r)
<1>1. e = [u EXCEPT !.active_sig = CD!Notarized(u, "active")]
  BY DEF CD!activate_contract
<1>2. ChangesOnly(r, u, {"activated", "head", "status"})
  BY DEF ChangesOnly, IsContract
<1>3. u.activated = TRUE /\ u.head = r.cid /\ u.status = "active"
  BY DEF IsContract, ContractFields
<1> HIDE DEF u, e
<1>4. IsContract(u)
  BY <1>2 DEF ChangesOnly
<1>5. ChangesOnly(u, e, {"active_sig"}) /\ e["active_sig"] = CD!Notarized(u, "active")
  BY <1>1, <1>4 DEF ChangesOnly, IsContract, ContractFields
<1>6. e["active_sig"] = CD!get_contract_state(e, "active")
  <2>1. /\ "active_sig" \in ContractFields /\ "active_sig" \in LaterThan["active"]
        /\ "active" \in Signed
    BY DEF ContractFields, LaterThan, Signed
  <2> QED
    BY <1>4, <1>5, <2>1, NotarizedSig
<1>7. ChangesOnly(r, e, {"activated", "head", "status", "active_sig"})
  BY <1>2, <1>5 DEF ChangesOnly
<1>8. /\ e.activated = u.activated
      /\ e.head = u.head
      /\ e.status = u.status
  BY <1>5 DEF ChangesOnly, ContractFields
<1> QED
  BY <1>3, <1>6, <1>7, <1>8 DEF e

\* close_contract (data.ts) changes its fields only, and signs what they are then.
LEMMA ContractClosed ==
  ASSUME NEW r, IsContract(r), NEW vmdata
  PROVE  LET e == CD!close_contract(r, vmdata) IN
         /\ ChangesOnly(r, e, {"closed", "head", "machine_vout", "status",
                               "closed_sig"})
         /\ e.closed = TRUE
         /\ e.head = vmdata.head
         /\ e.machine_vout = vmdata.output
         /\ e.status = "closed"
         /\ e.closed_sig = CD!get_contract_state(e, "closed")
<1> DEFINE u == [r EXCEPT !.closed = TRUE, !.head = vmdata.head,
                          !.machine_vout = vmdata.output, !.status = "closed"]
           e == CD!close_contract(r, vmdata)
<1>1. e = [u EXCEPT !.closed_sig = CD!Notarized(u, "closed")]
  BY DEF CD!close_contract
<1>2. ChangesOnly(r, u, {"closed", "head", "machine_vout", "status"})
  BY DEF ChangesOnly, IsContract
<1>3. /\ u.closed = TRUE /\ u.head = vmdata.head
      /\ u.machine_vout = vmdata.output
      /\ u.status = "closed"
  BY DEF IsContract, ContractFields
<1> HIDE DEF u, e
<1>4. IsContract(u)
  BY <1>2 DEF ChangesOnly
<1>5. ChangesOnly(u, e, {"closed_sig"}) /\ e["closed_sig"] = CD!Notarized(u, "closed")
  BY <1>1, <1>4 DEF ChangesOnly, IsContract, ContractFields
<1>6. e["closed_sig"] = CD!get_contract_state(e, "closed")
  <2>1. /\ "closed_sig" \in ContractFields /\ "closed_sig" \in LaterThan["closed"]
        /\ "closed" \in Signed
    BY DEF ContractFields, LaterThan, Signed
  <2> QED
    BY <1>4, <1>5, <2>1, NotarizedSig
<1>7. ChangesOnly(r, e, {"closed", "head", "machine_vout", "status", "closed_sig"})
  BY <1>2, <1>5 DEF ChangesOnly
<1>8. /\ e.closed = u.closed
      /\ e.head = u.head
      /\ e.machine_vout = u.machine_vout
      /\ e.status = u.status
  BY <1>5 DEF ChangesOnly, ContractFields
<1> QED
  BY <1>3, <1>6, <1>7, <1>8 DEF e

\* spend_contract (data.ts) changes its fields only, and signs what they are then.
LEMMA ContractSpent ==
  ASSUME NEW r, IsContract(r), NEW tx
  PROVE  LET e == CD!spend_contract(r, tx) IN
         /\ ChangesOnly(r, e, {"spent", "status", "spent_sig"})
         /\ e.spent = tx
         /\ e.status = "spent"
         /\ e.spent_sig = CD!get_contract_state(e, "spent")
<1> DEFINE u == [r EXCEPT !.spent = tx, !.status = "spent"]
           e == CD!spend_contract(r, tx)
<1>1. e = [u EXCEPT !.spent_sig = CD!Notarized(u, "spent")]
  BY DEF CD!spend_contract
<1>2. ChangesOnly(r, u, {"spent", "status"})
  BY DEF ChangesOnly, IsContract
<1>3. u.spent = tx /\ u.status = "spent"
  BY DEF IsContract, ContractFields
<1> HIDE DEF u, e
<1>4. IsContract(u)
  BY <1>2 DEF ChangesOnly
<1>5. ChangesOnly(u, e, {"spent_sig"}) /\ e["spent_sig"] = CD!Notarized(u, "spent")
  BY <1>1, <1>4 DEF ChangesOnly, IsContract, ContractFields
<1>6. e["spent_sig"] = CD!get_contract_state(e, "spent")
  <2>1. /\ "spent_sig" \in ContractFields /\ "spent_sig" \in LaterThan["spent"]
        /\ "spent" \in Signed
    BY DEF ContractFields, LaterThan, Signed
  <2> QED
    BY <1>4, <1>5, <2>1, NotarizedSig
<1>7. ChangesOnly(r, e, {"spent", "status", "spent_sig"})
  BY <1>2, <1>5 DEF ChangesOnly
<1>8. /\ e.spent = u.spent
      /\ e.status = u.status
  BY <1>5 DEF ChangesOnly, ContractFields
<1> QED
  BY <1>3, <1>6, <1>7, <1>8 DEF e

\* settle_contract (data.ts) changes its fields only, and signs what they are then.
LEMMA ContractSettled ==
  ASSUME NEW r, IsContract(r), NEW block
  PROVE  LET e == CD!settle_contract(r, block) IN
         /\ ChangesOnly(r, e, {"settled", "status", "settled_sig"})
         /\ e.settled = block
         /\ e.status = "settled"
         /\ e.settled_sig = CD!get_contract_state(e, "settled")
<1> DEFINE u == [r EXCEPT !.settled = block, !.status = "settled"]
           e == CD!settle_contract(r, block)
<1>1. e = [u EXCEPT !.settled_sig = CD!Notarized(u, "settled")]
  BY DEF CD!settle_contract
<1>2. ChangesOnly(r, u, {"settled", "status"})
  BY DEF ChangesOnly, IsContract
<1>3. u.settled = block /\ u.status = "settled"
  BY DEF IsContract, ContractFields
<1> HIDE DEF u, e
<1>4. IsContract(u)
  BY <1>2 DEF ChangesOnly
<1>5. ChangesOnly(u, e, {"settled_sig"}) /\ e["settled_sig"] = CD!Notarized(u, "settled")
  BY <1>1, <1>4 DEF ChangesOnly, IsContract, ContractFields
<1>6. e["settled_sig"] = CD!get_contract_state(e, "settled")
  <2>1. /\ "settled_sig" \in ContractFields /\ "settled_sig" \in LaterThan["settled"]
        /\ "settled" \in Signed
    BY DEF ContractFields, LaterThan, Signed
  <2> QED
    BY <1>4, <1>5, <2>1, NotarizedSig
<1>7. ChangesOnly(r, e, {"settled", "status", "settled_sig"})
  BY <1>2, <1>5 DEF ChangesOnly
<1>8. /\ e.settled = u.settled
      /\ e.status = u.status
  BY <1>5 DEF ChangesOnly, ContractFields
<1> QED
  BY <1>3, <1>6, <1>7, <1>8 DEF e

-----------------------------------------------------------------------------
(* Each operation, where the server makes it, leaves a sound contract: its  *)
(* status tells how far it has come, and its signatures verify.             *)

\* What is verified of the signatures on a contract (validation/contract.ts).
LEMMA ContractSigs ==
  ASSUME NEW r
  PROVE  CD!verify_contract_sigs(r) <=>
           /\ r.created_sig = CD!get_contract_state(r, "published")
           /\ r.canceled => r.canceled_sig = CD!get_contract_state(r, "canceled")
           /\ r.secured => r.secured_sig = CD!get_contract_state(r, "secured")
           /\ r.activated => r.active_sig = CD!get_contract_state(r, "active")
           /\ r.closed => r.closed_sig = CD!get_contract_state(r, "closed")
           /\ r.spent # NULL => r.spent_sig = CD!get_contract_state(r, "spent")
           /\ r.settled # NULL => r.settled_sig = CD!get_contract_state(r, "settled")
BY DEF CD!verify_contract_sigs, CD!verify_contract_sig, CD!get_contract_proof, CD!SigOf

\* A signature covers all that an earlier one does.
LEMMA LaterIsLess ==
  /\ LaterThan.settled \subseteq LaterThan.spent
  /\ LaterThan.spent \subseteq LaterThan.closed
  /\ LaterThan.closed \subseteq LaterThan.active
  /\ LaterThan.active \subseteq LaterThan.secured
  /\ LaterThan.secured \subseteq LaterThan.published
BY DEF LaterThan, ContractFields

\* A change of fields that the signatures of some statuses do not cover.
LEMMA ContentStays ==
  ASSUME NEW r, IsContract(r), NEW F, NEW e, ChangesOnly(r, e, F)
  PROVE
    /\ F \subseteq LaterThan.published =>
         CD!get_contract_state(e, "published") = CD!get_contract_state(r, "published")
    /\ F \subseteq LaterThan.secured =>
         CD!get_contract_state(e, "secured") = CD!get_contract_state(r, "secured")
    /\ F \subseteq LaterThan.active =>
         CD!get_contract_state(e, "active") = CD!get_contract_state(r, "active")
    /\ F \subseteq LaterThan.closed =>
         CD!get_contract_state(e, "closed") = CD!get_contract_state(r, "closed")
    /\ F \subseteq LaterThan.spent =>
         CD!get_contract_state(e, "spent") = CD!get_contract_state(r, "spent")
<1>1. ASSUME NEW status \in Signed, F \subseteq LaterThan[status]
      PROVE  CD!get_contract_state(e, status) = CD!get_contract_state(r, status)
  <2>1. ChangesOnly(r, e, LaterThan[status])
    BY <1>1 DEF ChangesOnly
  <2> QED
    BY <2>1, SameContract
<1> QED
  BY <1>1 DEF Signed

\* A new contract is sound.
LEMMA CreatedSound ==
  ASSUME NEW c \in Contracts
  PROVE  SoundContract(CD!create_contract(c)) /\ CD!create_contract(c).cid = c
<1> DEFINE e == CD!create_contract(c)
<1>1. /\ IsContract(e) /\ e.cid = c /\ e.status = "published"
      /\ e.funds_conf = 0 /\ e.funds_pend = 0 /\ e.vin_count = 0
      /\ e.tx_fees = BaseFee /\ e.tx_total = Subtotal + BaseFee
      /\ e.canceled = FALSE /\ e.secured = FALSE /\ e.activated = FALSE
      /\ e.closed = FALSE /\ e.machine_vout = NULL /\ e.spent = NULL
      /\ e.settled = NULL
      /\ e.created_sig = CD!get_contract_state(e, "published")
  BY ContractCreated
<1> HIDE DEF e
<1>2. TypedContract(e)
  <2>1. {e.funds_conf, e.funds_pend, e.vin_count, e.tx_fees} \subseteq Nat /\ e.tx_total \in Int
    BY <1>1, FeesAssumption
  <2>2. {e.canceled, e.secured, e.activated, e.closed} \subseteq BOOLEAN
    BY <1>1, Zenon
  <2> QED
    BY <1>1, <2>1, <2>2 DEF TypedContract
<1>3. OrderedContract(e)
  BY <1>1 DEF OrderedContract, StatusOf
<1>4. SignedContract(e)
  BY <1>1, ContractSigs DEF SignedContract
<1> QED
  BY <1>1, <1>2, <1>3, <1>4 DEF SoundContract, e

\* A contract that is not secured, or was canceled since, can be counted anew.
LEMMA CountedSound ==
  ASSUME NEW r, SoundContract(r), r.secured => r.canceled, NEW e,
         ChangesOnly(r, e, {"funds_conf", "tx_fees", "tx_total", "vin_count", "funds_pend"}),
         {e.funds_conf, e.funds_pend, e.vin_count, e.tx_fees} \subseteq Nat,
         e.tx_total \in Int
  PROVE  SoundContract(e)
<1> DEFINE F == {"funds_conf", "tx_fees", "tx_total", "vin_count", "funds_pend"}
<1>1. /\ IsContract(e) /\ e.cid = r.cid /\ e.status = r.status
      /\ e.canceled = r.canceled /\ e.secured = r.secured /\ e.activated = r.activated
      /\ e.closed = r.closed /\ e.machine_vout = r.machine_vout
      /\ e.spent = r.spent /\ e.settled = r.settled /\ e.created_sig = r.created_sig
  BY DEF ChangesOnly, ContractFields
<1>2. TypedContract(e)
  BY <1>1 DEF TypedContract, SoundContract
<1>3. OrderedContract(e)
  BY <1>1 DEF OrderedContract, SoundContract, StatusOf
<1>4. SignedContract(e)
  <2> SUFFICES ASSUME ~e.canceled
               PROVE  CD!verify_contract_sigs(e)
    BY DEF SignedContract
  <2>1. F \subseteq LaterThan.published
    BY DEF LaterThan, ContractFields
  <2>2. CD!get_contract_state(e, "published") = CD!get_contract_state(r, "published")
    <3>1. IsContract(r) /\ ChangesOnly(r, e, F)
      BY DEF SoundContract, TypedContract
    <3> HIDE DEF F
    <3> QED
      BY <2>1, <3>1, ContentStays
  <2>3. ~r.canceled /\ CD!verify_contract_sigs(r)
    BY <1>1 DEF SoundContract, SignedContract
  <2>4. r.created_sig = CD!get_contract_state(r, "published")
    BY <2>3, ContractSigs
  <2>5. ~r.secured /\ ~r.activated /\ ~r.closed /\ r.spent = NULL /\ r.settled = NULL
    BY <2>3 DEF SoundContract, OrderedContract
  <2> QED
    BY <1>1, <2>2, <2>3, <2>4, <2>5, ContractSigs
<1> QED
  BY <1>2, <1>3, <1>4 DEF SoundContract

\* A contract that is not active can be canceled.
LEMMA CanceledSound ==
  ASSUME NEW r, SoundContract(r), ~r.canceled, ~r.activated
  PROVE  LET e == CD!cancel_contract(r) IN
         /\ SoundContract(e)
         /\ e.canceled = TRUE
         /\ ChangesOnly(r, e, {"canceled", "status", "canceled_sig"})
<1> DEFINE e == CD!cancel_contract(r)
<1>0. IsContract(r)
  BY DEF SoundContract, TypedContract
<1>1. /\ ChangesOnly(r, e, {"canceled", "status", "canceled_sig"})
      /\ e.canceled = TRUE /\ e.status = "canceled"
  BY <1>0, ContractCanceled
<1> HIDE DEF e
<1>2. /\ IsContract(e) /\ e.cid = r.cid
      /\ e.funds_conf = r.funds_conf /\ e.funds_pend = r.funds_pend
      /\ e.vin_count = r.vin_count /\ e.tx_fees = r.tx_fees /\ e.tx_total = r.tx_total
      /\ e.secured = r.secured /\ e.activated = r.activated
      /\ e.closed = r.closed /\ e.machine_vout = r.machine_vout
      /\ e.spent = r.spent /\ e.settled = r.settled
  BY <1>1 DEF ChangesOnly, ContractFields
<1>3. TypedContract(e)
  BY <1>1, <1>2 DEF TypedContract, SoundContract
<1>4. OrderedContract(e)
  BY <1>1, <1>2 DEF OrderedContract, SoundContract, StatusOf
<1>5. SignedContract(e)
  BY <1>1 DEF SignedContract
<1> QED
  BY <1>1, <1>3, <1>4, <1>5 DEF SoundContract, e

\* A contract that is published can be secured.
LEMMA SecuredSound ==
  ASSUME NEW r, SoundContract(r), r.status = "published", NEW count \in Nat,
         NEW value \in Nat
  PROVE  LET e == CD!secure_contract(r, count, value) IN
         /\ SoundContract(e)
         /\ ChangesOnly(r, e, {"vin_count", "funds_pend", "funds_conf", "secured",
                              "tx_fees", "tx_total", "status", "secured_sig"})
         /\ e.vin_count = count
         /\ e.funds_pend = 0
         /\ e.funds_conf = value
         /\ e.secured /\ e.secured \in BOOLEAN
         /\ e.tx_fees = FeesOf(count)
         /\ e.tx_total = Subtotal + FeesOf(count)
<1> DEFINE F == {"vin_count", "funds_pend", "funds_conf", "secured", "tx_fees",
                    "tx_total", "status", "secured_sig"}
           e == CD!secure_contract(r, count, value)
<1>0. IsContract(r)
  BY DEF SoundContract, TypedContract
<1>1. /\ ChangesOnly(r, e, F)
      /\ e.vin_count = count
      /\ e.funds_pend = 0
      /\ e.funds_conf = value
      /\ e.secured /\ e.secured \in BOOLEAN
      /\ e.tx_fees = FeesOf(count)
      /\ e.tx_total = Subtotal + FeesOf(count)
      /\ e.status = "secured"
      /\ e.secured_sig = CD!get_contract_state(e, "secured")
  BY <1>0, ContractSecured
<1> HIDE DEF e
<1>2. /\ IsContract(e) /\ e.cid = r.cid /\ e.canceled = r.canceled
      /\ e.activated = r.activated /\ e.head = r.head /\ e.closed = r.closed
      /\ e.machine_vout = r.machine_vout /\ e.spent = r.spent
      /\ e.settled = r.settled /\ e.created_sig = r.created_sig
      /\ e.active_sig = r.active_sig /\ e.closed_sig = r.closed_sig
      /\ e.spent_sig = r.spent_sig /\ e.settled_sig = r.settled_sig
  BY <1>1 DEF ChangesOnly, ContractFields
<1>3. /\ ~r.canceled /\ r.settled = NULL /\ r.spent = NULL /\ ~r.closed /\ ~r.activated /\ ~r.secured
  BY DEF SoundContract, OrderedContract, StatusOf, TypedContract
<1>4. TypedContract(e)
  <2>1. {e.funds_conf, e.funds_pend, e.vin_count, e.tx_fees} \subseteq Nat /\ e.tx_total \in Int
    BY <1>1, FeesAssumption DEF FeesOf
  <2>2. {e.canceled, e.secured, e.activated, e.closed} \subseteq BOOLEAN
    BY <1>1, <1>2, Zenon DEF SoundContract, TypedContract
  <2>3. e.machine_vout \in Outputs \cup {NULL}
    BY <1>2 DEF SoundContract, TypedContract
  <2> QED
    BY <1>2, <2>1, <2>2, <2>3 DEF TypedContract
<1>5. OrderedContract(e)
  BY <1>1, <1>2, <1>3 DEF OrderedContract, SoundContract, StatusOf
<1>6. SignedContract(e)
  <2>1. F \subseteq LaterThan.published
    BY DEF LaterThan, ContractFields
  <2> HIDE DEF F
  <2>2. /\ CD!get_contract_state(e, "published") = CD!get_contract_state(r, "published")
    BY <1>0, <1>1, <2>1, LaterIsLess, ContentStays
  <2>3. CD!verify_contract_sigs(r)
    BY <1>3 DEF SoundContract, SignedContract
  <2>4. /\ r.created_sig = CD!get_contract_state(r, "published")
    BY <1>3, <2>3, ContractSigs
  <2>5. CD!verify_contract_sigs(e)
    BY <1>1, <1>2, <1>3, <2>2, <2>4, ContractSigs
  <2> QED
    BY <2>5 DEF SignedContract
<1> QED
  BY <1>1, <1>4, <1>5, <1>6 DEF SoundContract, e

\* A contract that is secured can be activated.
LEMMA ActivatedSound ==
  ASSUME NEW r, SoundContract(r), r.status = "secured"
  PROVE  LET e == CD!activate_contract(r) IN
         /\ SoundContract(e)
         /\ ChangesOnly(r, e, {"activated", "head", "status", "active_sig"})
         /\ e.activated = TRUE
         /\ e.head = r.cid
<1> DEFINE F == {"activated", "head", "status", "active_sig"}
           e == CD!activate_contract(r)
<1>0. IsContract(r)
  BY DEF SoundContract, TypedContract
<1>1. /\ ChangesOnly(r, e, F)
      /\ e.activated = TRUE
      /\ e.head = r.cid
      /\ e.status = "active"
      /\ e.active_sig = CD!get_contract_state(e, "active")
  BY <1>0, ContractActivated
<1> HIDE DEF e
<1>2. /\ IsContract(e) /\ e.cid = r.cid /\ e.funds_conf = r.funds_conf
      /\ e.funds_pend = r.funds_pend /\ e.vin_count = r.vin_count
      /\ e.tx_fees = r.tx_fees /\ e.tx_total = r.tx_total /\ e.canceled = r.canceled
      /\ e.secured = r.secured /\ e.closed = r.closed
      /\ e.machine_vout = r.machine_vout /\ e.spent = r.spent
      /\ e.settled = r.settled /\ e.created_sig = r.created_sig
      /\ e.secured_sig = r.secured_sig /\ e.closed_sig = r.closed_sig
      /\ e.spent_sig = r.spent_sig /\ e.settled_sig = r.settled_sig
  BY <1>1 DEF ChangesOnly, ContractFields
<1>3. /\ ~r.canceled /\ r.settled = NULL /\ r.spent = NULL /\ ~r.closed /\ ~r.activated
      /\ r.secured
  BY DEF SoundContract, OrderedContract, StatusOf, TypedContract
<1>4. TypedContract(e)
  BY <1>1, <1>2, ZenonT(40) DEF TypedContract, SoundContract
<1>5. OrderedContract(e)
  BY <1>1, <1>2, <1>3 DEF OrderedContract, SoundContract, StatusOf
<1>6. SignedContract(e)
  <2>1. F \subseteq LaterThan.secured
    BY DEF LaterThan, ContractFields
  <2> HIDE DEF F
  <2>2. /\ CD!get_contract_state(e, "published") = CD!get_contract_state(r, "published")
        /\ CD!get_contract_state(e, "secured") = CD!get_contract_state(r, "secured")
    BY <1>0, <1>1, <2>1, LaterIsLess, ContentStays
  <2>3. CD!verify_contract_sigs(r)
    BY <1>3 DEF SoundContract, SignedContract
  <2>4. /\ r.created_sig = CD!get_contract_state(r, "published")
        /\ r.secured_sig = CD!get_contract_state(r, "secured")
    BY <1>3, <2>3, ContractSigs
  <2>5. CD!verify_contract_sigs(e)
    BY <1>1, <1>2, <1>3, <2>2, <2>4, ContractSigs
  <2> QED
    BY <2>5 DEF SignedContract
<1> QED
  BY <1>1, <1>4, <1>5, <1>6 DEF SoundContract, e

\* A contract that is active can be closed, with an output or without.
LEMMA ClosedSound ==
  ASSUME NEW r, SoundContract(r), r.activated, ~r.closed, NEW vmdata,
         vmdata.output \in Outputs \cup {NULL}
  PROVE  LET e == CD!close_contract(r, vmdata) IN
         /\ SoundContract(e)
         /\ ChangesOnly(r, e, {"closed", "head", "machine_vout", "status",
                              "closed_sig"})
         /\ e.closed = TRUE
         /\ e.head = vmdata.head
         /\ e.machine_vout = vmdata.output
<1> DEFINE F == {"closed", "head", "machine_vout", "status", "closed_sig"}
           e == CD!close_contract(r, vmdata)
<1>0. IsContract(r)
  BY DEF SoundContract, TypedContract
<1>1. /\ ChangesOnly(r, e, F)
      /\ e.closed = TRUE
      /\ e.head = vmdata.head
      /\ e.machine_vout = vmdata.output
      /\ e.status = "closed"
      /\ e.closed_sig = CD!get_contract_state(e, "closed")
  BY <1>0, ContractClosed
<1> HIDE DEF e
<1>2. /\ IsContract(e) /\ e.cid = r.cid /\ e.funds_conf = r.funds_conf
      /\ e.funds_pend = r.funds_pend /\ e.vin_count = r.vin_count
      /\ e.tx_fees = r.tx_fees /\ e.tx_total = r.tx_total /\ e.canceled = r.canceled
      /\ e.secured = r.secured /\ e.activated = r.activated /\ e.spent = r.spent
      /\ e.settled = r.settled /\ e.created_sig = r.created_sig
      /\ e.secured_sig = r.secured_sig /\ e.active_sig = r.active_sig
      /\ e.spent_sig = r.spent_sig /\ e.settled_sig = r.settled_sig
  BY <1>1 DEF ChangesOnly, ContractFields
<1>3. /\ ~r.canceled /\ r.settled = NULL /\ r.spent = NULL /\ ~r.closed
      /\ r.secured /\ r.activated
  BY DEF SoundContract, OrderedContract, StatusOf, TypedContract
<1>4. TypedContract(e)
  BY <1>1, <1>2 DEF TypedContract, SoundContract
<1>5. OrderedContract(e)
  BY <1>1, <1>2, <1>3 DEF OrderedContract, SoundContract, StatusOf
<1>6. SignedContract(e)
  <2>1. F \subseteq LaterThan.active
    BY DEF LaterThan, ContractFields
  <2> HIDE DEF F
  <2>2. /\ CD!get_contract_state(e, "published") = CD!get_contract_state(r, "published")
        /\ CD!get_contract_state(e, "secured") = CD!get_contract_state(r, "secured")
        /\ CD!get_contract_state(e, "active") = CD!get_contract_state(r, "active")
    BY <1>0, <1>1, <2>1, LaterIsLess, ContentStays
  <2>3. CD!verify_contract_sigs(r)
    BY <1>3 DEF SoundContract, SignedContract
  <2>4. /\ r.created_sig = CD!get_contract_state(r, "published")
        /\ r.secured_sig = CD!get_contract_state(r, "secured")
        /\ r.active_sig = CD!get_contract_state(r, "active")
    BY <1>3, <2>3, ContractSigs
  <2>5. CD!verify_contract_sigs(e)
    BY <1>1, <1>2, <1>3, <2>2, <2>4, ContractSigs
  <2> QED
    BY <2>5 DEF SignedContract
<1> QED
  BY <1>1, <1>4, <1>5, <1>6 DEF SoundContract, e

\* A contract that is closed with an output can be spent.
LEMMA SpentSound ==
  ASSUME NEW r, SoundContract(r), r.closed, r.machine_vout # NULL, r.spent = NULL,
         NEW tx, tx # NULL
  PROVE  LET e == CD!spend_contract(r, tx) IN
         /\ SoundContract(e)
         /\ ChangesOnly(r, e, {"spent", "status", "spent_sig"})
         /\ e.spent = tx
<1> DEFINE F == {"spent", "status", "spent_sig"}
           e == CD!spend_contract(r, tx)
<1>0. IsContract(r)
  BY DEF SoundContract, TypedContract
<1>1. /\ ChangesOnly(r, e, F)
      /\ e.spent = tx
      /\ e.status = "spent"
      /\ e.spent_sig = CD!get_contract_state(e, "spent")
  BY <1>0, ContractSpent
<1> HIDE DEF e
<1>2. /\ IsContract(e) /\ e.cid = r.cid /\ e.funds_conf = r.funds_conf
      /\ e.funds_pend = r.funds_pend /\ e.vin_count = r.vin_count
      /\ e.tx_fees = r.tx_fees /\ e.tx_total = r.tx_total /\ e.canceled = r.canceled
      /\ e.secured = r.secured /\ e.activated = r.activated /\ e.head = r.head
      /\ e.closed = r.closed /\ e.machine_vout = r.machine_vout
      /\ e.settled = r.settled /\ e.created_sig = r.created_sig
      /\ e.secured_sig = r.secured_sig /\ e.active_sig = r.active_sig
      /\ e.closed_sig = r.closed_sig /\ e.settled_sig = r.settled_sig
  BY <1>1 DEF ChangesOnly, ContractFields
<1>3. /\ ~r.canceled /\ r.settled = NULL /\ r.spent = NULL
      /\ r.secured /\ r.activated
  BY DEF SoundContract, OrderedContract, StatusOf, TypedContract
<1>4. TypedContract(e)
  BY <1>1, <1>2 DEF TypedContract, SoundContract
<1>5. OrderedContract(e)
  BY <1>1, <1>2, <1>3 DEF OrderedContract, SoundContract, StatusOf
<1>6. SignedContract(e)
  <2>1. F \subseteq LaterThan.closed
    BY DEF LaterThan, ContractFields
  <2> HIDE DEF F
  <2>2. /\ CD!get_contract_state(e, "published") = CD!get_contract_state(r, "published")
        /\ CD!get_contract_state(e, "secured") = CD!get_contract_state(r, "secured")
        /\ CD!get_contract_state(e, "active") = CD!get_contract_state(r, "active")
        /\ CD!get_contract_state(e, "closed") = CD!get_contract_state(r, "closed")
    BY <1>0, <1>1, <2>1, LaterIsLess, ContentStays
  <2>3. CD!verify_contract_sigs(r)
    BY <1>3 DEF SoundContract, SignedContract
  <2>4. /\ r.created_sig = CD!get_contract_state(r, "published")
        /\ r.secured_sig = CD!get_contract_state(r, "secured")
        /\ r.active_sig = CD!get_contract_state(r, "active")
        /\ r.closed_sig = CD!get_contract_state(r, "closed")
    BY <1>3, <2>3, ContractSigs
  <2>5. CD!verify_contract_sigs(e)
    BY <1>1, <1>2, <1>3, <2>2, <2>4, ContractSigs
  <2> QED
    BY <2>5 DEF SignedContract
<1> QED
  BY <1>1, <1>4, <1>5, <1>6 DEF SoundContract, e

\* A contract that is spent, or closed without output, can be settled.
LEMMA SettledSound ==
  ASSUME NEW r, SoundContract(r), r.closed, r.spent # NULL \/ r.machine_vout = NULL,
         r.settled = NULL, NEW block, block # NULL
  PROVE  LET e == CD!settle_contract(r, block) IN
         /\ SoundContract(e)
         /\ ChangesOnly(r, e, {"settled", "status", "settled_sig"})
         /\ e.settled = block
<1> DEFINE F == {"settled", "status", "settled_sig"}
           e == CD!settle_contract(r, block)
<1>0. IsContract(r)
  BY DEF SoundContract, TypedContract
<1>1. /\ ChangesOnly(r, e, F)
      /\ e.settled = block
      /\ e.status = "settled"
      /\ e.settled_sig = CD!get_contract_state(e, "settled")
  BY <1>0, ContractSettled
<1> HIDE DEF e
<1>2. /\ IsContract(e) /\ e.cid = r.cid /\ e.funds_conf = r.funds_conf
      /\ e.funds_pend = r.funds_pend /\ e.vin_count = r.vin_count
      /\ e.tx_fees = r.tx_fees /\ e.tx_total = r.tx_total /\ e.canceled = r.canceled
      /\ e.secured = r.secured /\ e.activated = r.activated /\ e.head = r.head
      /\ e.closed = r.closed /\ e.machine_vout = r.machine_vout /\ e.spent = r.spent
      /\ e.created_sig = r.created_sig /\ e.secured_sig = r.secured_sig
      /\ e.active_sig = r.active_sig /\ e.closed_sig = r.closed_sig
      /\ e.spent_sig = r.spent_sig
  BY <1>1 DEF ChangesOnly, ContractFields
<1>3. /\ ~r.canceled /\ r.settled = NULL
      /\ r.secured /\ r.activated
  BY DEF SoundContract, OrderedContract, StatusOf, TypedContract
<1>4. TypedContract(e)
  BY <1>1, <1>2 DEF TypedContract, SoundContract
<1>5. OrderedContract(e)
  BY <1>1, <1>2, <1>3 DEF OrderedContract, SoundContract, StatusOf
<1>6. SignedContract(e)
  <2>1. F \subseteq LaterThan.spent
    BY DEF LaterThan, ContractFields
  <2> HIDE DEF F
  <2>2. /\ CD!get_contract_state(e, "published") = CD!get_contract_state(r, "published")
        /\ CD!get_contract_state(e, "secured") = CD!get_contract_state(r, "secured")
        /\ CD!get_contract_state(e, "active") = CD!get_contract_state(r, "active")
        /\ CD!get_contract_state(e, "closed") = CD!get_contract_state(r, "closed")
        /\ CD!get_contract_state(e, "spent") = CD!get_contract_state(r, "spent")
    BY <1>0, <1>1, <2>1, LaterIsLess, ContentStays
  <2>3. CD!verify_contract_sigs(r)
    BY <1>3 DEF SoundContract, SignedContract
  <2>4. /\ r.created_sig = CD!get_contract_state(r, "published")
        /\ r.secured_sig = CD!get_contract_state(r, "secured")
        /\ r.active_sig = CD!get_contract_state(r, "active")
        /\ r.closed_sig = CD!get_contract_state(r, "closed")
        /\ r.spent # NULL => r.spent_sig = CD!get_contract_state(r, "spent")
    BY <1>3, <2>3, ContractSigs
  <2>5. CD!verify_contract_sigs(e)
    BY <1>1, <1>2, <1>3, <2>2, <2>4, ContractSigs
  <2> QED
    BY <2>5 DEF SignedContract
<1> QED
  BY <1>1, <1>4, <1>5, <1>6 DEF SoundContract, e

-----------------------------------------------------------------------------
(* The same of a deposit.  It is locked when it has a covenant, and only    *)
(* then; it is returned without one, and spent with one.                    *)

\* What is verified of the signatures on a deposit (validation/deposit.ts).
LEMMA DepositSigs ==
  ASSUME NEW r
  PROVE  verify_deposit_sigs(r) <=>
           /\ r.created_sig = get_deposit_state(r, "registered")
           /\ r.locked => r.locked_sig = get_deposit_state(r, "locked")
           /\ r.closed # NULL => r.closed_sig = get_deposit_state(r, "closed")
           /\ r.spent # NULL => r.spent_sig = get_deposit_state(r, "spent")
           /\ r.settled # NULL => r.settled_sig = get_deposit_state(r, "settled")
BY DEF verify_deposit_sigs, verify_deposit_sig

\* A new deposit without covenant is sound.
LEMMA RegisteredSound ==
  LET e == create_deposit(NULL) IN
  SoundDeposit(e) /\ e.covenant = NULL /\ e.spent = NULL /\ e.conf = NULL
<1> DEFINE e == create_deposit(NULL)
<1>1. /\ IsDeposit(e)
      /\ e.status = "registered" /\ e.conf = NULL /\ e.covenant = NULL
      /\ e.locked = FALSE
      /\ e.closed = NULL /\ e.spent = NULL /\ e.settled = NULL
      /\ e.created_sig = get_deposit_state(e, "registered")
  BY CreateChanges
<1> HIDE DEF e
<1>2. verify_deposit_sigs(e)
  BY <1>1, DepositSigs
<1>3. SoundDeposit(e)
  BY <1>1, <1>2 DEF SoundDeposit, DepositStatus
<1> QED
  BY <1>1, <1>3 DEF e

\* A deposit is confirmed, with its covenant or without.
LEMMA ConfirmedSound ==
  ASSUME NEW r, SoundDeposit(r), r.conf = NULL, NEW time, time # NULL
  PROVE  LET e == confirm_deposit(r, time) IN
         /\ SoundDeposit(e)
         /\ e.conf = time
         /\ e.covenant = r.covenant /\ e.spent = r.spent /\ e.locked = r.locked
         /\ e.closed = r.closed
<1> DEFINE e == confirm_deposit(r, time)
<1>0. IsDeposit(r) /\ verify_deposit_sigs(r)
  BY DEF SoundDeposit
<1>1. /\ IsDeposit(e)
      /\ e.conf = time
      /\ e.status = IF r.locked THEN "locked" ELSE "open"
      /\ e.locked = r.locked /\ e.covenant = r.covenant /\ e.closed = r.closed
      /\ e.spent = r.spent /\ e.settled = r.settled /\ e.created_sig = r.created_sig
      /\ e.locked_sig = r.locked_sig /\ e.closed_sig = r.closed_sig
      /\ e.spent_sig = r.spent_sig /\ e.settled_sig = r.settled_sig
  BY <1>0, ConfirmChanges
<1> HIDE DEF e
<1>2. /\ r.created_sig = get_deposit_state(r, "registered")
      /\ r.locked => r.locked_sig = get_deposit_state(r, "locked")
  BY <1>0, DepositSigs
<1>3. /\ get_deposit_state(e, "registered") = get_deposit_state(r, "registered")
      /\ get_deposit_state(e, "locked") = get_deposit_state(r, "locked")
  BY <1>0, <1>1, SameContent
<1>4. verify_deposit_sigs(e)
  BY <1>1, <1>2, <1>3, DepositSigs DEF SoundDeposit
<1>5. SoundDeposit(e)
  BY <1>1, <1>4, NullAssumption DEF SoundDeposit, DepositStatus
<1> QED
  BY <1>1, <1>5 DEF e

\* A deposit is locked to a contract, as long as it is there.
LEMMA LockedSound ==
  ASSUME NEW r, SoundDeposit(r), r.closed = NULL, r.spent = NULL, NEW c \in Contracts
  PROVE  LET e == lock_deposit(r, c) IN
         /\ SoundDeposit(e)
         /\ e.covenant = c
         /\ e.conf = r.conf /\ e.spent = r.spent /\ e.closed = r.closed
<1> DEFINE e == lock_deposit(r, c)
<1>0. IsDeposit(r) /\ verify_deposit_sigs(r)
  BY DEF SoundDeposit
<1>1. /\ IsDeposit(e)
      /\ e.locked
      /\ e.locked \in BOOLEAN
      /\ e.covenant = c
      /\ e.status = "locked"
      /\ e.locked_sig = get_deposit_state(e, "locked")
      /\ e.conf = r.conf /\ e.closed = r.closed /\ e.spent = r.spent
      /\ e.settled = r.settled /\ e.created_sig = r.created_sig
      /\ e.closed_sig = r.closed_sig /\ e.spent_sig = r.spent_sig
      /\ e.settled_sig = r.settled_sig
  BY <1>0, LockChanges
<1> HIDE DEF e
<1>2. /\ r.created_sig = get_deposit_state(r, "registered")
  BY <1>0, DepositSigs
<1>3. /\ get_deposit_state(e, "registered") = get_deposit_state(r, "registered")
  BY <1>0, <1>1, SameContent
<1>4. verify_deposit_sigs(e)
  BY <1>1, <1>2, <1>3, DepositSigs DEF SoundDeposit
<1>5. SoundDeposit(e)
  BY <1>1, <1>4, NullAssumption DEF SoundDeposit, DepositStatus
<1> QED
  BY <1>1, <1>5 DEF e

\* A deposit is released, as long as it is there.
LEMMA ReleasedSound ==
  ASSUME NEW r, SoundDeposit(r), r.closed = NULL, r.spent = NULL
  PROVE  LET e == release_deposit(r) IN
         /\ SoundDeposit(e)
         /\ e.covenant = NULL
         /\ e.conf = r.conf /\ e.spent = r.spent
<1> DEFINE e == release_deposit(r)
<1>0. IsDeposit(r) /\ verify_deposit_sigs(r)
  BY DEF SoundDeposit
<1>1. /\ IsDeposit(e)
      /\ e.locked = FALSE
      /\ e.covenant = NULL
      /\ e.status = IF r.conf # NULL THEN "open" ELSE "registered"
      /\ e.conf = r.conf /\ e.closed = r.closed /\ e.spent = r.spent
      /\ e.settled = r.settled /\ e.created_sig = r.created_sig
      /\ e.closed_sig = r.closed_sig /\ e.spent_sig = r.spent_sig
      /\ e.settled_sig = r.settled_sig
  BY <1>0, ReleaseChanges
<1> HIDE DEF e
<1>2. /\ r.created_sig = get_deposit_state(r, "registered")
  BY <1>0, DepositSigs
<1>3. /\ get_deposit_state(e, "registered") = get_deposit_state(r, "registered")
  BY <1>0, <1>1, SameContent
<1>4. verify_deposit_sigs(e)
  BY <1>1, <1>2, <1>3, DepositSigs DEF SoundDeposit
<1>5. SoundDeposit(e)
  BY <1>1, <1>4, NullAssumption DEF SoundDeposit, DepositStatus
<1> QED
  BY <1>1, <1>5 DEF e

\* A deposit without covenant is returned.
LEMMA ReturnedSound ==
  ASSUME NEW r, SoundDeposit(r), r.conf # NULL, r.covenant = NULL, r.closed = NULL,
         NEW tx, tx # NULL
  PROVE  LET e == close_deposit(r, tx) IN
         /\ SoundDeposit(e)
         /\ e.conf = r.conf /\ e.covenant = r.covenant /\ e.spent = r.spent
<1> DEFINE e == close_deposit(r, tx)
<1>0. IsDeposit(r) /\ verify_deposit_sigs(r)
  BY DEF SoundDeposit
<1>1. /\ IsDeposit(e)
      /\ e.closed = tx
      /\ e.status = "closed"
      /\ e.closed_sig = get_deposit_state(e, "closed")
      /\ e.conf = r.conf /\ e.locked = r.locked /\ e.covenant = r.covenant
      /\ e.spent = r.spent /\ e.settled = r.settled /\ e.created_sig = r.created_sig
      /\ e.locked_sig = r.locked_sig /\ e.spent_sig = r.spent_sig
      /\ e.settled_sig = r.settled_sig
  BY <1>0, CloseChanges
<1> HIDE DEF e
<1>2. /\ r.created_sig = get_deposit_state(r, "registered")
  BY <1>0, DepositSigs
<1>3. /\ get_deposit_state(e, "registered") = get_deposit_state(r, "registered")
  BY <1>0, <1>1, SameContent
<1>4. verify_deposit_sigs(e)
  BY <1>1, <1>2, <1>3, DepositSigs DEF SoundDeposit
<1>5. SoundDeposit(e)
  BY <1>1, <1>4, NullAssumption DEF SoundDeposit, DepositStatus
<1> QED
  BY <1>1, <1>5 DEF e

\* A deposit with a covenant is spent.
LEMMA SpendingSound ==
  ASSUME NEW r, SoundDeposit(r), r.conf # NULL, r.covenant # NULL, r.spent = NULL,
         NEW tx, tx # NULL
  PROVE  LET e == spend_deposit(r, tx) IN
         /\ SoundDeposit(e)
         /\ e.spent = tx
         /\ e.conf = r.conf /\ e.covenant = r.covenant /\ e.locked = r.locked
         /\ e.closed = r.closed
<1> DEFINE e == spend_deposit(r, tx)
<1>0. IsDeposit(r) /\ verify_deposit_sigs(r)
  BY DEF SoundDeposit
<1>1. /\ IsDeposit(e)
      /\ e.spent = tx
      /\ e.status = "spent"
      /\ e.spent_sig = get_deposit_state(e, "spent")
      /\ e.conf = r.conf /\ e.locked = r.locked /\ e.covenant = r.covenant
      /\ e.closed = r.closed /\ e.settled = r.settled
      /\ e.created_sig = r.created_sig /\ e.locked_sig = r.locked_sig
      /\ e.closed_sig = r.closed_sig /\ e.settled_sig = r.settled_sig
  BY <1>0, SpendChanges
<1> HIDE DEF e
<1>2. /\ r.created_sig = get_deposit_state(r, "registered")
      /\ r.locked => r.locked_sig = get_deposit_state(r, "locked")
  BY <1>0, DepositSigs
<1>3. /\ get_deposit_state(e, "registered") = get_deposit_state(r, "registered")
      /\ get_deposit_state(e, "locked") = get_deposit_state(r, "locked")
  BY <1>0, <1>1, SameContent
<1>4. verify_deposit_sigs(e)
  BY <1>1, <1>2, <1>3, DepositSigs DEF SoundDeposit
<1>5. SoundDeposit(e)
  BY <1>1, <1>4, NullAssumption DEF SoundDeposit, DepositStatus
<1> QED
  BY <1>1, <1>5 DEF e

\* A deposit that is spent or returned is settled.
LEMMA SettlingSound ==
  ASSUME NEW r, SoundDeposit(r), r.spent # NULL \/ r.closed # NULL, r.settled = NULL,
         NEW block, block # NULL
  PROVE  LET e == settle_deposit(r, block) IN
         /\ SoundDeposit(e)
         /\ e.conf = r.conf /\ e.covenant = r.covenant /\ e.spent = r.spent
         /\ e.locked = r.locked /\ e.closed = r.closed
<1> DEFINE e == settle_deposit(r, block)
<1>0. IsDeposit(r) /\ verify_deposit_sigs(r)
  BY DEF SoundDeposit
<1>1. /\ IsDeposit(e)
      /\ e.settled = block
      /\ e.status = "settled"
      /\ e.settled_sig = get_deposit_state(e, "settled")
      /\ e.conf = r.conf /\ e.locked = r.locked /\ e.covenant = r.covenant
      /\ e.closed = r.closed /\ e.spent = r.spent /\ e.created_sig = r.created_sig
      /\ e.locked_sig = r.locked_sig /\ e.closed_sig = r.closed_sig
      /\ e.spent_sig = r.spent_sig
  BY <1>0, SettleChanges
<1> HIDE DEF e
<1>2. /\ r.created_sig = get_deposit_state(r, "registered")
      /\ r.locked => r.locked_sig = get_deposit_state(r, "locked")
      /\ r.closed # NULL => r.closed_sig = get_deposit_state(r, "closed")
      /\ r.spent # NULL => r.spent_sig = get_deposit_state(r, "spent")
  BY <1>0, DepositSigs
<1>3. /\ get_deposit_state(e, "registered") = get_deposit_state(r, "registered")
      /\ get_deposit_state(e, "locked") = get_deposit_state(r, "locked")
      /\ get_deposit_state(e, "closed") = get_deposit_state(r, "closed")
      /\ get_deposit_state(e, "spent") = get_deposit_state(r, "spent")
  BY <1>0, <1>1, SameContent
<1>4. verify_deposit_sigs(e)
  BY <1>1, <1>2, <1>3, DepositSigs DEF SoundDeposit
<1>5. SoundDeposit(e)
  BY <1>1, <1>4, NullAssumption DEF SoundDeposit, DepositStatus
<1> QED
  BY <1>1, <1>5 DEF e

-----------------------------------------------------------------------------
(* What a step leaves alone: a step of a contract the funds of all, a step  *)
(* of a deposit those of each contract that it neither joins nor leaves.    *)

\* The step stores one contract, or one deposit.
Writes(c, e) ==
  DOMAIN ct' = Contracts /\ ct'[c] = e /\ \A k \in Contracts \ {c} : ct'[k] = ct[k]

Moves(d, e) ==
  /\ DOMAIN dp' = DOMAIN dp \cup {d} /\ dp'[d] = e
  /\ \A i \in DOMAIN dp \ {d} : dp'[i] = dp[i]

SameFunds(c) == Funds(c)' = Funds(c) /\ Conf(c)' = Conf(c) /\ Pend(c)' = Pend(c)

SameMachine(c) ==
  (c \in DOMAIN vm' <=> c \in DOMAIN vm) /\ (c \in DOMAIN vm => vm'[c] = vm[c])

\* The ties of a contract are between what it, its funds and its machine are.
LEMMA TiesKept ==
  ASSUME NEW c \in Contracts, ct'[c] = ct[c], SoundContract(ct[c]),
         SameFunds(c), SameMachine(c), Tied(c)
  PROVE  Tied(c)'
<1>1. Released(c)' <=> Released(c)
  BY DEF Released
<1>2. Counted(c)'
  BY <1>1 DEF Counted, Tied, SameFunds
<1>3. Covered(c)'
  BY <1>1 DEF Covered, Tied, SameFunds
<1>4. Spends(c)'
  BY DEF Spends, Tied, SameFunds
<1>5. Follows(c)'
  <2>1. c \in DOMAIN vm' <=> ct'[c].activated
    BY DEF Follows, Tied, SameMachine
  <2>2. c \in DOMAIN vm' => vm'[c] \in [closed : BOOLEAN, head : {vm'[c].head},
                                        output : Outputs \cup {NULL}]
    BY DEF Follows, Tied, SameMachine
  <2>3. ct'[c].closed /\ ct'[c].machine_vout # NULL /\ c \in DOMAIN vm =>
          /\ vm'[c].closed /\ vm'[c].output = ct'[c].machine_vout
          /\ vm'[c].head = ct'[c].head
    BY DEF Follows, Tied, SameMachine
  <2>4. ct'[c].closed => c \in DOMAIN vm
    BY DEF Follows, Tied, SoundContract, OrderedContract
  <2> QED
    BY <2>1, <2>2, <2>3, <2>4 DEF Follows
<1> QED
  BY <1>2, <1>3, <1>4, <1>5 DEF Tied

\* The funds of all are the same while no deposit changes,
LEMMA FundsStay ==
  ASSUME NEW c, dp' = dp
  PROVE  SameFunds(c)
BY DEF SameFunds, Funds, Conf, Pend

\* those of a contract while a deposit of others does,
LEMMA OthersFunds ==
  ASSUME NEW c, NEW d, NEW e, Moves(d, e), d \notin Funds(c), e.covenant # c
  PROVE  SameFunds(c)
<1>1. Funds(c)' = Funds(c)
  BY DEF Funds, Moves
<1>2. ASSUME NEW i \in Funds(c) PROVE dp'[i] = dp[i]
  BY DEF Funds, Moves
<1> QED
  BY <1>1, <1>2 DEF SameFunds, Conf, Pend

\* and those of all while a deposit keeps its covenant and its confirmation.
LEMMA FundsKeep ==
  ASSUME NEW c, NEW d \in DOMAIN dp, NEW e, Moves(d, e),
         e.covenant = dp[d].covenant, e.conf = dp[d].conf
  PROVE  SameFunds(c)
<1>1. Funds(c)' = Funds(c)
  BY DEF Funds, Moves
<1>2. ASSUME NEW i \in Funds(c) PROVE dp'[i].conf = dp[i].conf
  BY DEF Funds, Moves
<1> QED
  BY <1>1, <1>2 DEF SameFunds, Conf, Pend

\* A deposit joins a contract,
LEMMA FundJoins ==
  ASSUME NEW c, NEW d, NEW e, Moves(d, e), d \notin Funds(c), e.covenant = c
  PROVE  /\ Funds(c)' = Funds(c) \cup {d}
         /\ e.conf # NULL => Conf(c)' = Conf(c) \cup {d} /\ Pend(c)' = Pend(c)
         /\ e.conf = NULL => Conf(c)' = Conf(c) /\ Pend(c)' = Pend(c) \cup {d}
<1>1. Funds(c)' = Funds(c) \cup {d}
  BY DEF Funds, Moves
<1>2. ASSUME NEW i \in Funds(c) PROVE dp'[i] = dp[i]
  BY DEF Funds, Moves
<1>3. dp'[d] = e
  BY DEF Moves
<1> QED
  BY <1>1, <1>2, <1>3 DEF Conf, Pend

\* leaves it,
LEMMA FundLeaves ==
  ASSUME NEW c, NEW d \in Funds(c), NEW e, Moves(d, e), e.covenant # c
  PROVE  /\ Funds(c)' = Funds(c) \ {d}
         /\ dp[d].conf # NULL =>
              d \in Conf(c) /\ Conf(c)' = Conf(c) \ {d} /\ Pend(c)' = Pend(c)
         /\ dp[d].conf = NULL =>
              d \in Pend(c) /\ Conf(c)' = Conf(c) /\ Pend(c)' = Pend(c) \ {d}
<1>1. Funds(c)' = Funds(c) \ {d}
  BY DEF Funds, Moves
<1>2. ASSUME NEW i \in Funds(c) \ {d} PROVE dp'[i] = dp[i]
  BY DEF Funds, Moves
<1> QED
  BY <1>1, <1>2 DEF Conf, Pend

\* or is confirmed in it.
LEMMA FundConfirms ==
  ASSUME NEW c, NEW d \in Pend(c), NEW e, Moves(d, e), e.covenant = c, e.conf # NULL
  PROVE  /\ Funds(c)' = Funds(c)
         /\ d \notin Conf(c) /\ Conf(c)' = Conf(c) \cup {d} /\ Pend(c)' = Pend(c) \ {d}
<1>0. d \in Funds(c) /\ dp[d].conf = NULL
  BY DEF Pend
<1>1. Funds(c)' = Funds(c)
  BY <1>0 DEF Funds, Moves
<1>2. ASSUME NEW i \in Funds(c) \ {d} PROVE dp'[i] = dp[i]
  BY DEF Funds, Moves
<1>3. dp'[d] = e
  BY DEF Moves
<1> QED
  BY <1>0, <1>1, <1>2, <1>3 DEF Conf, Pend

\* The funds of a contract are finitely many deposits, confirmed or not.
LEMMA FundsFinite ==
  ASSUME IInv, NEW c
  PROVE  /\ Funds(c) \subseteq Deposits /\ IsFiniteSet(Funds(c))
         /\ Conf(c) \subseteq Deposits /\ IsFiniteSet(Conf(c))
         /\ Pend(c) \subseteq Deposits /\ IsFiniteSet(Pend(c))
         /\ Conf(c) \subseteq Funds(c) /\ Pend(c) \subseteq Funds(c)
<1>1. Funds(c) \subseteq DOMAIN dp
  BY DEF Funds
<1>2. Conf(c) \subseteq Funds(c) /\ Pend(c) \subseteq Funds(c)
  BY DEF Conf, Pend
<1>3. DOMAIN dp \subseteq Deposits /\ IsFiniteSet(DOMAIN dp)
  BY DEF IInv
<1> QED
  BY <1>1, <1>2, <1>3, FS_Subset

\* A step of a contract and its machine: it stays sound, with the same ties.
LEMMA ContractKept ==
  ASSUME IInv, NEW c \in Contracts, NEW e, Writes(c, e), dp' = dp,
         DOMAIN vm' \subseteq Contracts,
         \A k \in Contracts \ {c} : SameMachine(k),
         SoundContract(e), e.cid = c, Tied(c)',
         \A d \in Funds(c) : dp[d].spent # NULL => e.spent = ct[c].spent
  PROVE  IInv'
<1>1. DOMAIN ct' = Contracts
  BY DEF Writes
<1>2. DOMAIN dp' \subseteq Deposits /\ IsFiniteSet(DOMAIN dp')
  BY DEF IInv
<1>3. ASSUME NEW k \in Contracts
      PROVE  SoundContract(ct'[k]) /\ ct'[k].cid = k /\ Tied(k)'
  <2>1. CASE k = c
    BY <2>1 DEF Writes
  <2>2. CASE k # c
    <3>1. ct'[k] = ct[k] /\ SameMachine(k) /\ Tied(k)
      BY <2>2 DEF Writes, IInv
    <3>2. SoundContract(ct[k]) /\ ct[k].cid = k
      BY DEF IInv
    <3>3. Tied(k)'
      BY <3>1, <3>2, FundsStay, TiesKept
    <3> QED
      BY <3>1, <3>2, <3>3
  <2> QED
    BY <2>1, <2>2
<1>4. ASSUME NEW d \in DOMAIN dp'
      PROVE  SoundDeposit(dp'[d]) /\ SpentBy(d)'
  <2>1. SoundDeposit(dp[d]) /\ SpentBy(d) /\ d \in DOMAIN dp
    BY <1>4 DEF IInv
  <2>2. ASSUME dp[d].spent # NULL
        PROVE  ct'[dp[d].covenant].spent = ct[dp[d].covenant].spent
    <3>1. dp[d].covenant \in Contracts
      BY <2>1, <2>2 DEF SoundDeposit
    <3>2. CASE dp[d].covenant = c
      <4>1. d \in Funds(c)
        BY <2>1, <3>2 DEF Funds
      <4> QED
        BY <2>2, <3>2, <4>1 DEF Writes
    <3>3. CASE dp[d].covenant # c
      BY <3>1, <3>3 DEF Writes
    <3> QED
      BY <3>2, <3>3
  <2> QED
    BY <2>1, <2>2 DEF SpentBy
<1>5. \A k \in Contracts : SoundContract(ct'[k]) /\ ct'[k].cid = k /\ Tied(k)'
  BY <1>3
<1>6. \A d \in DOMAIN dp' : SoundDeposit(dp'[d]) /\ SpentBy(d)'
  BY <1>4
<1> QED
  BY <1>1, <1>2, <1>5, <1>6 DEF IInv

\* A step of a deposit, and of the contract whose funds it changes.
LEMMA DepositKept ==
  ASSUME IInv, NEW d \in Deposits, NEW e, Moves(d, e), vm' = vm, SoundDeposit(e),
         DOMAIN ct' = Contracts,
         \A k \in Contracts :
           \/ ct'[k] = ct[k] /\ SameFunds(k)
           \/ /\ SoundContract(ct'[k]) /\ ct'[k].cid = k
              /\ ct'[k].spent = ct[k].spent /\ Tied(k)',
         e.spent # NULL => e.spent = ct[e.covenant].spent
  PROVE  IInv'
<1>1. DOMAIN vm' \subseteq Contracts
  BY DEF IInv
<1>2. DOMAIN dp' \subseteq Deposits /\ IsFiniteSet(DOMAIN dp')
  BY FS_AddElement DEF IInv, Moves
<1>3. ASSUME NEW k \in Contracts
      PROVE  SoundContract(ct'[k]) /\ ct'[k].cid = k /\ Tied(k)'
  <2>1. SoundContract(ct[k]) /\ ct[k].cid = k /\ Tied(k)
    BY DEF IInv
  <2>2. CASE ct'[k] = ct[k] /\ SameFunds(k)
    <3>1. SameMachine(k)
      BY DEF SameMachine
    <3>2. Tied(k)'
      BY <2>1, <2>2, <3>1, TiesKept
    <3> QED
      BY <2>1, <2>2, <3>2
  <2> QED
    BY <2>2
<1>4. ASSUME NEW i \in DOMAIN dp'
      PROVE  SoundDeposit(dp'[i]) /\ SpentBy(i)'
  <2>1. \A k \in Contracts : ct'[k].spent = ct[k].spent
    OBVIOUS
  <2>2. CASE i = d
    <3>1. dp'[i] = e
      BY <2>2 DEF Moves
    <3>2. e.spent # NULL => e.covenant \in Contracts
      BY DEF SoundDeposit
    <3> QED
      BY <2>1, <3>1, <3>2 DEF SpentBy
  <2>3. CASE i # d
    <3>1. i \in DOMAIN dp /\ dp'[i] = dp[i]
      BY <2>3 DEF Moves
    <3>2. SoundDeposit(dp[i]) /\ SpentBy(i)
      BY <3>1 DEF IInv
    <3>3. dp[i].spent # NULL => dp[i].covenant \in Contracts
      BY <3>2 DEF SoundDeposit
    <3> QED
      BY <2>1, <3>1, <3>2, <3>3 DEF SpentBy
  <2> QED
    BY <2>2, <2>3
<1>5. \A k \in Contracts : SoundContract(ct'[k]) /\ ct'[k].cid = k /\ Tied(k)'
  BY <1>3
<1>6. \A i \in DOMAIN dp' : SoundDeposit(dp'[i]) /\ SpentBy(i)'
  BY <1>4
<1> QED
  BY <1>1, <1>2, <1>5, <1>6 DEF IInv

-----------------------------------------------------------------------------
(* The steps of the deposits.                                               *)

\* A deposit is stored, for the first time or again.
LEMMA StoredMoves ==
  ASSUME NEW d, NEW e,
         \/ dp' = Stored(dp, d, e)
         \/ d \in DOMAIN dp /\ dp' = [dp EXCEPT ![d] = e]
  PROVE  Moves(d, e)
BY DEF Moves, Stored

\* A contract is stored.
LEMMA StoredWrites ==
  ASSUME DOMAIN ct = Contracts, NEW c \in Contracts, NEW e, ct' = [ct EXCEPT ![c] = e]
  PROVE  Writes(c, e)
BY DEF Writes

\* What the invariant says of a deposit, and of a contract.
LEMMA Sound ==
  ASSUME IInv
  PROVE  /\ \A d \in DOMAIN dp : d \in Deposits /\ SoundDeposit(dp[d]) /\ SpentBy(d)
         /\ \A c \in Contracts : SoundContract(ct[c]) /\ ct[c].cid = c /\ Tied(c)
         /\ DOMAIN ct = Contracts
BY DEF IInv

\* A deposit is registered without covenant.
LEMMA RegisterInv == ASSUME IInv, NEW d \in Deposits, Register(d) PROVE IInv'
<1> DEFINE e == create_deposit(NULL)
<1>1. SoundDeposit(e) /\ e.covenant = NULL /\ e.spent = NULL
  BY RegisteredSound
<1>2. /\ d \notin DOMAIN dp /\ dp' = Stored(dp, d, e)
      /\ ct' = ct /\ vm' = vm
  BY DEF Register
<1> HIDE DEF e
<1>3. Moves(d, e)
  BY <1>2, StoredMoves
<1>4. ASSUME NEW k \in Contracts PROVE SameFunds(k)
  <2>1. d \notin Funds(k) /\ e.covenant # k
    BY <1>1, <1>2, NullAssumption DEF Funds
  <2> QED
    BY <1>3, <2>1, OthersFunds
<1>5. DOMAIN ct' = Contracts
  BY <1>2 DEF IInv
<1> QED
  BY <1>1, <1>2, <1>3, <1>4, <1>5, DepositKept

\* A deposit without covenant is returned.
LEMMA ReturnInv == ASSUME IInv, NEW d \in Deposits, Return(d) PROVE IInv'
<1> DEFINE tx == [cid |-> NULL, vin |-> {d}]
           e  == close_deposit(dp[d], tx)
<1>1. /\ d \in DOMAIN dp /\ dp[d].covenant = NULL /\ MayClose(dp[d])
      /\ dp' = [dp EXCEPT ![d] = e] /\ ct' = ct /\ vm' = vm
  BY DEF Return, verify_close_req
<1>2. SoundDeposit(dp[d])
  BY <1>1, Sound
<1>3. dp[d].conf # NULL /\ dp[d].closed = NULL /\ dp[d].spent = NULL
  BY <1>1 DEF MayClose
<1>4. tx # NULL
  BY NullAssumption
<1> HIDE DEF tx
<1>5. /\ SoundDeposit(e) /\ e.conf = dp[d].conf /\ e.covenant = dp[d].covenant
      /\ e.spent = dp[d].spent
  BY <1>1, <1>2, <1>3, <1>4, ReturnedSound
<1> HIDE DEF e
<1>6. Moves(d, e)
  BY <1>1, StoredMoves
<1>7. \A k \in Contracts : SameFunds(k)
  BY <1>1, <1>5, <1>6, FundsKeep
<1>8. DOMAIN ct' = Contracts
  BY <1>1 DEF IInv
<1> QED
  BY <1>1, <1>3, <1>5, <1>6, <1>7, <1>8, DepositKept

\* A deposit is settled.
LEMMA SettleDepositInv == ASSUME IInv, NEW d \in Deposits, SettleDeposit(d) PROVE IInv'
<1> DEFINE e == settle_deposit(dp[d], "mined")
<1>1. /\ d \in DOMAIN dp /\ MaySettle(dp[d]) /\ dp[d].settled = NULL
      /\ dp' = [dp EXCEPT ![d] = e] /\ ct' = ct /\ vm' = vm
  BY DEF SettleDeposit
<1>2. SoundDeposit(dp[d]) /\ SpentBy(d)
  BY <1>1, Sound
<1>3. dp[d].spent # NULL \/ dp[d].closed # NULL
  BY <1>1 DEF MaySettle
<1>4. "mined" # NULL
  BY NullAssumption
<1>5. /\ SoundDeposit(e) /\ e.conf = dp[d].conf /\ e.covenant = dp[d].covenant
      /\ e.spent = dp[d].spent
  BY <1>1, <1>2, <1>3, <1>4, SettlingSound
<1> HIDE DEF e
<1>6. Moves(d, e)
  BY <1>1, StoredMoves
<1>7. \A k \in Contracts : SameFunds(k)
  BY <1>1, <1>5, <1>6, FundsKeep
<1>8. DOMAIN ct' = Contracts
  BY <1>1 DEF IInv
<1>9. e.spent # NULL => e.spent = ct[e.covenant].spent
  BY <1>2, <1>5 DEF SpentBy
<1> QED
  BY <1>1, <1>5, <1>6, <1>7, <1>8, <1>9, DepositKept

\* A deposit is spent by the settlement of the contract that has it.
LEMMA SpendDepositInv ==
  ASSUME IInv, NEW d \in Deposits, NEW c \in Contracts, SpendDeposit(d, c)
  PROVE  IInv'
<1> DEFINE tx == ct[c].spent
           e  == spend_deposit(dp[d], tx)
<1>1. /\ tx # NULL /\ d \in tx.vin /\ MaySpend(dp[d])
      /\ dp' = [dp EXCEPT ![d] = e] /\ ct' = ct /\ vm' = vm
  BY DEF SpendDeposit
<1>2. tx = [cid |-> c, vin |-> Funds(c)]
  BY <1>1 DEF IInv, Tied, Spends
<1>3. d \in DOMAIN dp /\ dp[d].covenant = c
  <2>1. tx.vin = Funds(c)
    BY <1>2
  <2> QED
    BY <1>1, <2>1 DEF Funds
<1>4. SoundDeposit(dp[d]) /\ dp[d].covenant # NULL
  BY <1>3, Sound, NullAssumption
<1>5. dp[d].conf # NULL /\ dp[d].spent = NULL
  BY <1>1 DEF MaySpend
<1> HIDE DEF tx
<1>6. /\ SoundDeposit(e) /\ e.conf = dp[d].conf /\ e.covenant = dp[d].covenant
      /\ e.spent = tx
  BY <1>1, <1>4, <1>5, SpendingSound
<1> HIDE DEF e
<1>7. Moves(d, e)
  BY <1>1, <1>3, StoredMoves
<1>8. \A k \in Contracts : SameFunds(k)
  BY <1>3, <1>6, <1>7, FundsKeep
<1>9. DOMAIN ct' = Contracts
  BY <1>1 DEF IInv
<1>10. e.spent = ct[e.covenant].spent
  BY <1>3, <1>6 DEF tx
<1> QED
  BY <1>1, <1>6, <1>7, <1>8, <1>9, <1>10, DepositKept

\* A contract without secured funds and not closed, whose counts change with its funds.
LEMMA TiedAnew ==
  ASSUME NEW c \in Contracts, SoundContract(ct[c]), Tied(c), ~ct[c].closed,
         NEW e, ct'[c] = e, vm' = vm,
         ChangesOnly(ct[c], e, {"funds_conf", "tx_fees", "tx_total", "vin_count",
                                "funds_pend"}),
         /\ e.vin_count  = Cardinality(Conf(c)')
         /\ e.funds_conf = Worth(Conf(c)')
         /\ e.funds_pend = Worth(Pend(c)')
         /\ e.tx_fees    = BaseFee + VinFee * Cardinality(Conf(c)'),
         ct[c].secured => ct[c].canceled /\ Pend(c)' = {}
  PROVE  Tied(c)'
<1>1. /\ e.canceled = ct[c].canceled /\ e.secured = ct[c].secured
      /\ e.activated = ct[c].activated /\ e.closed = ct[c].closed
      /\ e.spent = ct[c].spent
  BY DEF ChangesOnly, ContractFields
<1>2. Counted(c)'
  BY DEF Counted
<1>3. Covered(c)'
  BY <1>1 DEF Covered, Released
<1>4. Spends(c)'
  BY <1>1 DEF Spends, SoundContract, OrderedContract
<1>5. Follows(c)'
  BY <1>1 DEF Follows, Tied
<1> QED
  BY <1>2, <1>3, <1>4, <1>5 DEF Tied

\* What is counted of a contract that is not closed.
LEMMA Counts ==
  ASSUME IInv, NEW c \in Contracts, ~ct[c].closed
  PROVE  /\ IsContract(ct[c]) /\ ct[c].tx_total \in Int
         /\ Cardinality(Conf(c)) \in Nat /\ Worth(Conf(c)) \in Nat /\ Worth(Pend(c)) \in Nat
         /\ ct[c].vin_count  = Cardinality(Conf(c))
         /\ ct[c].funds_conf = Worth(Conf(c))
         /\ ct[c].funds_pend = Worth(Pend(c))
         /\ ct[c].tx_fees    = BaseFee + VinFee * Cardinality(Conf(c))
<1>1. SoundContract(ct[c]) /\ Tied(c)
  BY Sound
<1>2. Cardinality(Conf(c)) \in Nat /\ Worth(Conf(c)) \in Nat /\ Worth(Pend(c)) \in Nat
  BY FundsFinite, FS_CardinalityType, WorthType
<1>3. IsContract(ct[c]) /\ ct[c].tx_total \in Int
  BY <1>1 DEF SoundContract, TypedContract
<1>4. /\ ct[c].vin_count  = Cardinality(Conf(c))
      /\ ct[c].funds_conf = Worth(Conf(c))
      /\ ct[c].funds_pend = Worth(Pend(c))
      /\ ct[c].tx_fees    = BaseFee + VinFee * Cardinality(Conf(c))
  BY <1>1 DEF Tied, Counted
<1> QED
  BY <1>2, <1>3, <1>4

\* The fee of one input more or less.
LEMMA FeesOfOneMore ==
  ASSUME NEW n \in Nat, NEW m \in Int, NEW fees \in Int,
         m = n + 1 \/ m = n - 1, m \in Nat,
         fees = (BaseFee + VinFee * n) + (m - n) * VinFee
  PROVE  fees = BaseFee + VinFee * m /\ fees \in Nat
<1>1. BaseFee \in Nat /\ VinFee \in Nat
  BY FeesAssumption
<1>2. VinFee * (n + 1) = VinFee * n + VinFee /\ VinFee * (n - 1) = VinFee * n - VinFee
  BY <1>1
<1>3. VinFee * n \in Int /\ VinFee * m \in Nat
  BY <1>1
<1>4. (m - n) * VinFee = IF m = n + 1 THEN VinFee ELSE -VinFee
  BY <1>1
<1>5. fees = BaseFee + VinFee * m
  BY <1>1, <1>2, <1>3, <1>4
<1> QED
  BY <1>1, <1>3, <1>5

\* A contract that is not secured counts a deposit that joins it.
LEMMA JoinCounted ==
  ASSUME IInv, NEW c \in Contracts, ~ct[c].secured,
         NEW d \in Deposits, d \notin Funds(c), NEW f, Moves(d, f), f.covenant = c,
         vm' = vm, NEW e, ct'[c] = e,
         e = CD!add_contract_funds(ct[c], f.conf # NULL, Value[d])
  PROVE  SoundContract(e) /\ e.cid = c /\ e.spent = ct[c].spent /\ Tied(c)'
<1> DEFINE F == {"funds_conf", "tx_fees", "tx_total", "vin_count", "funds_pend"}
           yes == f.conf # NULL
           v == Value[d]
<1>1. SoundContract(ct[c]) /\ Tied(c) /\ ct[c].cid = c
  BY Sound
<1>2. ~ct[c].closed
  BY <1>1 DEF SoundContract, OrderedContract
<1>3. /\ IsContract(ct[c]) /\ ct[c].tx_total \in Int
      /\ Cardinality(Conf(c)) \in Nat /\ Worth(Conf(c)) \in Nat /\ Worth(Pend(c)) \in Nat
      /\ ct[c].vin_count  = Cardinality(Conf(c))
      /\ ct[c].funds_conf = Worth(Conf(c))
      /\ ct[c].funds_pend = Worth(Pend(c))
      /\ ct[c].tx_fees    = BaseFee + VinFee * Cardinality(Conf(c))
  BY <1>2, Counts
<1>4. v \in Nat /\ VinFee \in Nat /\ BaseFee \in Nat
  BY ValueAssumption, FeesAssumption
<1>5. yes \in BOOLEAN
  OBVIOUS
<1>6. e = CD!CountFunds(ct[c], yes, v, 1)
  BY DEF CD!add_contract_funds
<1> HIDE DEF v, yes
<1>7. /\ ChangesOnly(ct[c], e, F)
      /\ yes => /\ e.funds_conf = ct[c].funds_conf + 1 * v
                /\ e.funds_pend = ct[c].funds_pend
                /\ e.vin_count = ct[c].vin_count + 1
                /\ e.tx_fees = ct[c].tx_fees + 1 * VinFee
                /\ e.tx_total = ct[c].tx_total + 1 * (v + VinFee)
      /\ ~yes => /\ e.funds_conf = ct[c].funds_conf
                 /\ e.funds_pend = ct[c].funds_pend + 1 * v
                 /\ e.vin_count = ct[c].vin_count /\ e.tx_fees = ct[c].tx_fees
                 /\ e.tx_total = ct[c].tx_total
  BY <1>3, <1>5, <1>6, ContractCounted
<1>8. /\ e.vin_count  = Cardinality(Conf(c)')
      /\ e.funds_conf = Worth(Conf(c)')
      /\ e.funds_pend = Worth(Pend(c)')
      /\ e.tx_fees    = BaseFee + VinFee * Cardinality(Conf(c)')
      /\ {e.funds_conf, e.funds_pend, e.vin_count, e.tx_fees} \subseteq Nat
      /\ e.tx_total \in Int
  <2>1. CASE yes
    <3>1. Conf(c)' = Conf(c) \cup {d} /\ Pend(c)' = Pend(c) /\ d \notin Conf(c)
      BY <2>1, FundJoins DEF yes, Conf
    <3>2. Cardinality(Conf(c) \cup {d}) = Cardinality(Conf(c)) + 1
      BY <3>1, FundsFinite, FS_AddElement
    <3>3. Worth(Conf(c) \cup {d}) = Worth(Conf(c)) + v
      BY <3>1, FundsFinite, WorthOfOneMore DEF v
    <3>4. /\ e.tx_fees = BaseFee + VinFee * (Cardinality(Conf(c)) + 1)
          /\ e.tx_fees \in Nat
      <4> DEFINE n == Cardinality(Conf(c))
                 fees == e.tx_fees
      <4>1. fees = (BaseFee + VinFee * n) + 1 * VinFee
        BY <1>3, <1>7, <2>1
      <4>2. n \in Nat
        BY <1>3
      <4> HIDE DEF n, fees
      <4>3. fees \in Int /\ n + 1 \in Nat /\ (n + 1) - n = 1
        BY <1>4, <4>1, <4>2
      <4>4. fees = BaseFee + VinFee * (n + 1) /\ fees \in Nat
        BY <4>1, <4>2, <4>3, FeesOfOneMore
      <4> QED
        BY <4>4 DEF n, fees
    <3>5. /\ e.vin_count = Cardinality(Conf(c)) + 1 /\ e.vin_count \in Nat
          /\ e.funds_conf = Worth(Conf(c)) + v /\ e.funds_conf \in Nat
          /\ e.funds_pend = Worth(Pend(c)) /\ e.funds_pend \in Nat
          /\ e.tx_total \in Int
      BY <1>3, <1>4, <1>7, <2>1
    <3> QED
      BY <3>1, <3>2, <3>3, <3>4, <3>5
  <2>2. CASE ~yes
    <3>1. Conf(c)' = Conf(c) /\ Pend(c)' = Pend(c) \cup {d} /\ d \notin Pend(c)
      BY <2>2, FundJoins DEF yes, Pend
    <3>2. Worth(Pend(c) \cup {d}) = Worth(Pend(c)) + v
      BY <3>1, FundsFinite, WorthOfOneMore DEF v
    <3>3. /\ e.vin_count = Cardinality(Conf(c)) /\ e.vin_count \in Nat
          /\ e.funds_conf = Worth(Conf(c)) /\ e.funds_conf \in Nat
          /\ e.funds_pend = Worth(Pend(c)) + v /\ e.funds_pend \in Nat
          /\ e.tx_fees = BaseFee + VinFee * Cardinality(Conf(c))
          /\ e.tx_total \in Int
      BY <1>3, <1>4, <1>7, <2>2
    <3>4. e.tx_fees \in Nat
      BY <1>3, <1>4, <3>3
    <3> QED
      BY <3>1, <3>2, <3>3, <3>4
  <2> QED
    BY <1>5, <2>1, <2>2
<1>9. SoundContract(e)
  BY <1>1, <1>7, <1>8, CountedSound
<1>10. e.cid = c /\ e.spent = ct[c].spent
  BY <1>1, <1>7 DEF ChangesOnly, ContractFields
<1>11. Tied(c)'
  BY <1>1, <1>2, <1>7, <1>8, TiedAnew
<1> QED
  BY <1>9, <1>10, <1>11

\* A contract that is published is none of the other things yet.
LEMMA Published ==
  ASSUME IInv, NEW c \in Contracts, ct[c].status = "published"
  PROVE  /\ ~ct[c].canceled /\ ~ct[c].secured /\ ~ct[c].activated /\ ~ct[c].closed
         /\ ct[c].spent = NULL /\ ct[c].settled = NULL
<1>1. SoundContract(ct[c])
  BY Sound
<1> QED
  BY <1>1 DEF SoundContract, OrderedContract, TypedContract, StatusOf

\* The other contracts do not see a deposit that joins or leaves one.
LEMMA OthersStay ==
  ASSUME IInv, NEW c, NEW d \in Deposits, NEW f, Moves(d, f),
         \A k \in Contracts \ {c} : /\ ct'[k] = ct[k] /\ d \notin Funds(k)
                                    /\ f.covenant # k,
         /\ SoundContract(ct'[c]) /\ ct'[c].cid = c
         /\ ct'[c].spent = ct[c].spent /\ Tied(c)',
         DOMAIN ct' = Contracts, vm' = vm, SoundDeposit(f),
         f.spent # NULL => f.spent = ct[f.covenant].spent
  PROVE  IInv'
<1>1. ASSUME NEW k \in Contracts
      PROVE  \/ ct'[k] = ct[k] /\ SameFunds(k)
             \/ /\ SoundContract(ct'[k]) /\ ct'[k].cid = k
                /\ ct'[k].spent = ct[k].spent /\ Tied(k)'
  <2>1. CASE k = c
    BY <2>1
  <2>2. CASE k # c
    BY <2>2, OthersFunds
  <2> QED
    BY <2>1, <2>2
<1> QED
  BY <1>1, DepositKept

\* A deposit is made for a contract, and locked to it.
LEMMA CommitInv ==
  ASSUME CommitLocks, IInv, NEW d \in Deposits, NEW c \in Contracts, Commit(d, c)
  PROVE  IInv'
<1> DEFINE new == create_deposit(c)
           f   == lock_deposit(new, c)
           e   == CD!add_contract_funds(ct[c], FALSE, Value[d])
<1>1. /\ d \notin DOMAIN dp /\ ct[c].status = "published"
      /\ dp' = Stored(dp, d, f) /\ ct' = [ct EXCEPT ![c] = e] /\ vm' = vm
  BY DEF Commit, verify_covenant_data
<1>2. /\ IsDeposit(new) /\ new.conf = NULL /\ new.covenant = c /\ new.locked = FALSE
      /\ new.closed = NULL /\ new.spent = NULL /\ new.settled = NULL
      /\ new.created_sig = get_deposit_state(new, "registered")
  BY CreateChanges
<1> HIDE DEF new
<1>3. /\ IsDeposit(f) /\ f.locked /\ f.locked \in BOOLEAN /\ f.covenant = c
      /\ f.status = "locked" /\ f.locked_sig = get_deposit_state(f, "locked")
      /\ f.conf = new.conf /\ f.closed = new.closed /\ f.spent = new.spent
      /\ f.settled = new.settled /\ f.created_sig = new.created_sig
  BY <1>2, LockChanges
<1> HIDE DEF f
<1>4. SoundDeposit(f)
  <2>1. get_deposit_state(f, "registered") = get_deposit_state(new, "registered")
    BY <1>2, <1>3, SameContent
  <2>2. verify_deposit_sigs(f)
    BY <1>2, <1>3, <2>1, DepositSigs
  <2> QED
    BY <1>2, <1>3, <2>2, NullAssumption DEF SoundDeposit, DepositStatus
<1>5. Moves(d, f)
  BY <1>1, StoredMoves
<1>6. \A k \in Contracts : d \notin Funds(k)
  BY <1>1 DEF Funds
<1>7. Writes(c, e)
  BY <1>1, Sound, StoredWrites
<1>8. ~(f.conf # NULL)
  BY <1>2, <1>3
<1>9. e = CD!add_contract_funds(ct[c], f.conf # NULL, Value[d])
  BY <1>8
<1> HIDE DEF e
<1>10. SoundContract(e) /\ e.cid = c /\ e.spent = ct[c].spent /\ Tied(c)'
  BY <1>1, <1>3, <1>5, <1>6, <1>7, <1>9, Published, JoinCounted DEF Writes
<1>11. \A k \in Contracts \ {c} : ct'[k] = ct[k] /\ d \notin Funds(k) /\ f.covenant # k
  BY <1>3, <1>6, <1>7 DEF Writes
<1>12. f.spent = NULL
  BY <1>2, <1>3
<1> QED
  BY <1>1, <1>4, <1>5, <1>7, <1>10, <1>11, <1>12, OthersStay DEF Writes

\* A deposit that is confirmed is locked to a contract: it had no covenant.
LEMMA LockInv ==
  ASSUME IInv, NEW d \in Deposits, NEW c \in Contracts, Lock(d, c)
  PROVE  IInv' /\ dp[d].covenant = NULL
<1> DEFINE f == lock_deposit(dp[d], c)
           e == CD!add_contract_funds(ct[c], TRUE, Value[d])
<1>1. /\ d \in DOMAIN dp /\ ct[c].status = "published" /\ ~dp[d].locked
      /\ dp[d].conf # NULL /\ dp[d].closed = NULL /\ dp[d].spent = NULL
      /\ dp' = [dp EXCEPT ![d] = f] /\ ct' = [ct EXCEPT ![c] = e] /\ vm' = vm
  BY DEF Lock, verify_lock_req, verify_covenant_data
<1>2. SoundDeposit(dp[d])
  BY <1>1, Sound
<1>3. dp[d].covenant = NULL
  BY <1>1, <1>2 DEF SoundDeposit
<1>4. /\ SoundDeposit(f) /\ f.covenant = c /\ f.conf = dp[d].conf
      /\ f.spent = dp[d].spent
  BY <1>1, <1>2, LockedSound
<1> HIDE DEF f
<1>5. Moves(d, f)
  BY <1>1, StoredMoves
<1>6. \A k \in Contracts : d \notin Funds(k)
  BY <1>3, NullAssumption DEF Funds
<1>7. Writes(c, e)
  BY <1>1, Sound, StoredWrites
<1>8. f.conf # NULL
  BY <1>1, <1>4
<1>9. e = CD!add_contract_funds(ct[c], f.conf # NULL, Value[d])
  BY <1>8
<1> HIDE DEF e
<1>10. SoundContract(e) /\ e.cid = c /\ e.spent = ct[c].spent /\ Tied(c)'
  BY <1>1, <1>4, <1>5, <1>6, <1>7, <1>9, Published, JoinCounted DEF Writes
<1>11. \A k \in Contracts \ {c} : ct'[k] = ct[k] /\ d \notin Funds(k) /\ f.covenant # k
  BY <1>4, <1>6, <1>7 DEF Writes
<1>12. f.spent = NULL
  BY <1>1, <1>4
<1>13. IInv'
  BY <1>1, <1>4, <1>5, <1>7, <1>10, <1>11, <1>12, OthersStay DEF Writes
<1> QED
  BY <1>3, <1>13

\* A contract that is not secured counts a deposit of its own when it is confirmed.
LEMMA ConfirmCounted ==
  ASSUME IInv, NEW c \in Contracts, ~ct[c].secured,
         NEW d \in Pend(c), NEW f, Moves(d, f), f.covenant = c, f.conf # NULL,
         vm' = vm, NEW e, ct'[c] = e,
         e = CD!confirm_contract_funds(ct[c], Value[d])
  PROVE  SoundContract(e) /\ e.cid = c /\ e.spent = ct[c].spent /\ Tied(c)'
<1> DEFINE F == {"funds_conf", "tx_fees", "tx_total", "vin_count", "funds_pend"}
           v == Value[d]
           yes == TRUE
           u == CD!add_contract_funds(ct[c], yes, v)
<1>1. SoundContract(ct[c]) /\ Tied(c) /\ ct[c].cid = c
  BY Sound
<1>2. ~ct[c].closed
  BY <1>1 DEF SoundContract, OrderedContract
<1>3. /\ IsContract(ct[c]) /\ ct[c].tx_total \in Int
      /\ Cardinality(Conf(c)) \in Nat /\ Worth(Conf(c)) \in Nat /\ Worth(Pend(c)) \in Nat
      /\ ct[c].vin_count  = Cardinality(Conf(c))
      /\ ct[c].funds_conf = Worth(Conf(c))
      /\ ct[c].funds_pend = Worth(Pend(c))
      /\ ct[c].tx_fees    = BaseFee + VinFee * Cardinality(Conf(c))
  BY <1>2, Counts
<1>4. d \in Deposits
  BY FundsFinite
<1>5. v \in Nat /\ VinFee \in Nat /\ BaseFee \in Nat
  BY <1>4, ValueAssumption, FeesAssumption
<1>6. e = [u EXCEPT !.funds_pend = u.funds_pend - v]
  BY DEF CD!confirm_contract_funds
<1>7. u = CD!CountFunds(ct[c], yes, v, 1) /\ yes \in BOOLEAN
  BY DEF CD!add_contract_funds
<1>7b. yes
  OBVIOUS
<1> HIDE DEF v, u, yes
<1>8. /\ ChangesOnly(ct[c], u, F)
      /\ u.funds_conf = ct[c].funds_conf + 1 * v
      /\ u.funds_pend = ct[c].funds_pend
      /\ u.vin_count = ct[c].vin_count + 1
      /\ u.tx_fees = ct[c].tx_fees + 1 * VinFee
      /\ u.tx_total = ct[c].tx_total + 1 * (v + VinFee)
  <2>1. /\ ChangesOnly(ct[c], u, F)
        /\ yes => /\ u.funds_conf = ct[c].funds_conf + 1 * v
                  /\ u.funds_pend = ct[c].funds_pend
                  /\ u.vin_count = ct[c].vin_count + 1
                  /\ u.tx_fees = ct[c].tx_fees + 1 * VinFee
                  /\ u.tx_total = ct[c].tx_total + 1 * (v + VinFee)
    BY <1>3, <1>7, ContractCounted
  <2> QED
    BY <1>7b, <2>1
<1>9. /\ ChangesOnly(u, e, {"funds_pend"}) /\ e.funds_pend = u.funds_pend - v
  BY <1>6, <1>8 DEF ChangesOnly, IsContract, ContractFields
<1>10. /\ ChangesOnly(ct[c], e, F)
       /\ e.funds_conf = u.funds_conf /\ e.vin_count = u.vin_count
       /\ e.tx_fees = u.tx_fees /\ e.tx_total = u.tx_total
  BY <1>8, <1>9 DEF ChangesOnly, ContractFields
<1>11. /\ e.vin_count  = Cardinality(Conf(c)')
       /\ e.funds_conf = Worth(Conf(c)')
       /\ e.funds_pend = Worth(Pend(c)')
       /\ e.tx_fees    = BaseFee + VinFee * Cardinality(Conf(c)')
       /\ {e.funds_conf, e.funds_pend, e.vin_count, e.tx_fees} \subseteq Nat
       /\ e.tx_total \in Int
  <2>1. Conf(c)' = Conf(c) \cup {d} /\ Pend(c)' = Pend(c) \ {d} /\ d \notin Conf(c)
    BY FundConfirms
  <2>2. Cardinality(Conf(c) \cup {d}) = Cardinality(Conf(c)) + 1
    BY <2>1, FundsFinite, FS_AddElement
  <2>3. Worth(Conf(c) \cup {d}) = Worth(Conf(c)) + v
    BY <1>4, <2>1, FundsFinite, WorthOfOneMore DEF v
  <2>4. Worth(Pend(c) \ {d}) = Worth(Pend(c)) - v
    BY FundsFinite, WorthOfOneLess DEF v
  <2>5. Worth(Pend(c) \ {d}) \in Nat
    BY FundsFinite, FS_RemoveElement, WorthType
  <2>6. /\ e.tx_fees = BaseFee + VinFee * (Cardinality(Conf(c)) + 1)
        /\ e.tx_fees \in Nat
    <3> DEFINE n == Cardinality(Conf(c))
               fees == e.tx_fees
    <3>1. fees = (BaseFee + VinFee * n) + 1 * VinFee
      BY <1>3, <1>8, <1>10
    <3>2. n \in Nat
      BY <1>3
    <3> HIDE DEF n, fees
    <3>3. fees \in Int /\ n + 1 \in Nat /\ (n + 1) - n = 1
      BY <1>5, <3>1, <3>2
    <3>4. fees = BaseFee + VinFee * (n + 1) /\ fees \in Nat
      BY <3>1, <3>2, <3>3, FeesOfOneMore
    <3> QED
      BY <3>4 DEF n, fees
  <2>7. /\ e.vin_count = Cardinality(Conf(c)) + 1 /\ e.vin_count \in Nat
        /\ e.funds_conf = Worth(Conf(c)) + v /\ e.funds_conf \in Nat
        /\ e.funds_pend = Worth(Pend(c)) - v
        /\ e.tx_total \in Int
    BY <1>3, <1>5, <1>8, <1>9, <1>10
  <2> QED
    BY <2>1, <2>2, <2>3, <2>4, <2>5, <2>6, <2>7
<1>12. SoundContract(e)
  BY <1>1, <1>10, <1>11, CountedSound
<1>13. e.cid = c /\ e.spent = ct[c].spent
  BY <1>1, <1>10 DEF ChangesOnly, ContractFields
<1>14. Tied(c)'
  BY <1>1, <1>2, <1>10, <1>11, TiedAnew
<1> QED
  BY <1>12, <1>13, <1>14

\* A deposit is confirmed, in a contract that waits for it or in none.
LEMMA ConfirmInv == ASSUME IInv, NEW d \in Deposits, Confirm(d) PROVE IInv'
<1> DEFINE f == confirm_deposit(dp[d], "mined")
<1>1. /\ d \in DOMAIN dp /\ dp[d].conf = NULL
      /\ dp' = [dp EXCEPT ![d] = f] /\ vm' = vm
      /\ ct' = [c \in Contracts |->
                  IF dp[d].covenant = c THEN CD!confirm_contract_funds(ct[c], Value[d])
                  ELSE ct[c]]
  BY DEF Confirm, MayConfirm
<1>2. SoundDeposit(dp[d])
  BY <1>1, Sound
<1>3. "mined" # NULL
  BY NullAssumption
<1>4. /\ SoundDeposit(f) /\ f.conf = "mined" /\ f.covenant = dp[d].covenant
      /\ f.spent = dp[d].spent
  BY <1>1, <1>2, <1>3, ConfirmedSound
<1> HIDE DEF f
<1>5. Moves(d, f)
  BY <1>1, StoredMoves
<1>6. f.spent = NULL
  BY <1>1, <1>2, <1>4 DEF SoundDeposit
<1>7. DOMAIN ct' = Contracts
  BY <1>1
<1>10. vm' = vm
  BY <1>1
<1>8. CASE dp[d].covenant = NULL
  <2>1. ASSUME NEW k \in Contracts PROVE ct'[k] = ct[k] /\ SameFunds(k)
    <3>1. f.covenant # k /\ d \notin Funds(k)
      BY <1>4, <1>8, NullAssumption DEF Funds
    <3>2. ct'[k] = ct[k]
      BY <1>1, <1>8, NullAssumption
    <3> QED
      BY <1>5, <3>1, <3>2, OthersFunds
  <2> QED
    BY <1>1, <1>4, <1>5, <1>6, <1>7, <2>1, DepositKept
<1>9. CASE dp[d].covenant # NULL
  <2>1. PICK c \in Contracts : c = dp[d].covenant
    BY <1>2, <1>9 DEF SoundDeposit
  <2> DEFINE e == CD!confirm_contract_funds(ct[c], Value[d])
  <2>2. d \in Pend(c)
    BY <1>1, <2>1 DEF Pend, Funds
  <2>3. ~ct[c].secured
    BY <2>1, <2>2, Sound DEF Tied, Covered
  <2>4. ct'[c] = e
    BY <1>1, <2>1
  <2>5. \A k \in Contracts \ {c} : ct'[k] = ct[k] /\ d \notin Funds(k) /\ f.covenant # k
    BY <1>1, <1>4, <2>1 DEF Funds
  <2>6. f.covenant = c /\ f.conf # NULL
    BY <1>3, <1>4, <2>1
  <2>7. SoundContract(e) /\ e.cid = c /\ e.spent = ct[c].spent /\ Tied(c)'
    BY <1>5, <1>10, <2>1, <2>2, <2>3, <2>4, <2>6, ConfirmCounted
  <2> HIDE DEF e
  <2> QED
    BY <1>4, <1>5, <1>6, <1>7, <1>10, <2>4, <2>5, <2>7, OthersStay
<1> QED
  BY <1>8, <1>9

\* A contract that is not closed takes a deposit that leaves it off its counts.
LEMMA LeaveCounted ==
  ASSUME IInv, NEW c \in Contracts, ~ct[c].closed, ct[c].secured => ct[c].canceled,
         NEW d \in Funds(c), NEW f, Moves(d, f), f.covenant # c,
         vm' = vm, NEW e, ct'[c] = e,
         e = CD!rem_contract_funds(ct[c], dp[d].conf # NULL, Value[d])
  PROVE  SoundContract(e) /\ e.cid = c /\ e.spent = ct[c].spent /\ Tied(c)'
<1> DEFINE F == {"funds_conf", "tx_fees", "tx_total", "vin_count", "funds_pend"}
           yes == dp[d].conf # NULL
           v == Value[d]
<1>1. SoundContract(ct[c]) /\ Tied(c) /\ ct[c].cid = c
  BY Sound
<1>3. /\ IsContract(ct[c]) /\ ct[c].tx_total \in Int
      /\ Cardinality(Conf(c)) \in Nat /\ Worth(Conf(c)) \in Nat /\ Worth(Pend(c)) \in Nat
      /\ ct[c].vin_count  = Cardinality(Conf(c))
      /\ ct[c].funds_conf = Worth(Conf(c))
      /\ ct[c].funds_pend = Worth(Pend(c))
      /\ ct[c].tx_fees    = BaseFee + VinFee * Cardinality(Conf(c))
  BY Counts
<1>4. v \in Nat /\ VinFee \in Nat /\ BaseFee \in Nat
  <2>1. d \in Deposits
    BY FundsFinite
  <2> QED
    BY <2>1, ValueAssumption, FeesAssumption
<1>5. yes \in BOOLEAN
  OBVIOUS
<1>6. e = CD!CountFunds(ct[c], yes, v, -1)
  BY DEF CD!rem_contract_funds
<1> HIDE DEF v, yes
<1>7. /\ ChangesOnly(ct[c], e, F)
      /\ yes => /\ e.funds_conf = ct[c].funds_conf + (-1) * v
                /\ e.funds_pend = ct[c].funds_pend
                /\ e.vin_count = ct[c].vin_count + (-1)
                /\ e.tx_fees = ct[c].tx_fees + (-1) * VinFee
                /\ e.tx_total = ct[c].tx_total + (-1) * (v + VinFee)
      /\ ~yes => /\ e.funds_conf = ct[c].funds_conf
                 /\ e.funds_pend = ct[c].funds_pend + (-1) * v
                 /\ e.vin_count = ct[c].vin_count /\ e.tx_fees = ct[c].tx_fees
                 /\ e.tx_total = ct[c].tx_total
  BY <1>3, <1>5, <1>6, ContractCounted
<1>8. /\ e.vin_count  = Cardinality(Conf(c)')
      /\ e.funds_conf = Worth(Conf(c)')
      /\ e.funds_pend = Worth(Pend(c)')
      /\ e.tx_fees    = BaseFee + VinFee * Cardinality(Conf(c)')
      /\ {e.funds_conf, e.funds_pend, e.vin_count, e.tx_fees} \subseteq Nat
      /\ e.tx_total \in Int
  <2>1. CASE yes
    <3>1. Conf(c)' = Conf(c) \ {d} /\ Pend(c)' = Pend(c) /\ d \in Conf(c)
      BY <2>1, FundLeaves DEF yes
    <3>2. /\ Cardinality(Conf(c) \ {d}) = Cardinality(Conf(c)) - 1
          /\ Cardinality(Conf(c) \ {d}) \in Nat
      BY <3>1, FundsFinite, FS_RemoveElement, FS_CardinalityType
    <3>3. Worth(Conf(c) \ {d}) = Worth(Conf(c)) - v /\ Worth(Conf(c) \ {d}) \in Nat
      BY <3>1, FundsFinite, WorthOfOneLess, FS_RemoveElement, WorthType DEF v
    <3>4. /\ e.tx_fees = BaseFee + VinFee * (Cardinality(Conf(c)) - 1)
          /\ e.tx_fees \in Nat
      <4> DEFINE n == Cardinality(Conf(c))
                 fees == e.tx_fees
      <4>1. fees = (BaseFee + VinFee * n) + (-1) * VinFee
        BY <1>3, <1>7, <2>1
      <4>2. n \in Nat /\ n - 1 \in Nat
        BY <1>3, <3>2
      <4> HIDE DEF n, fees
      <4>3. fees \in Int /\ (n - 1) - n = -1
        BY <1>4, <4>1, <4>2
      <4>4. fees = BaseFee + VinFee * (n - 1) /\ fees \in Nat
        BY <4>1, <4>2, <4>3, FeesOfOneMore
      <4> QED
        BY <4>4 DEF n, fees
    <3>5. /\ e.vin_count = Cardinality(Conf(c)) - 1
          /\ e.funds_conf = Worth(Conf(c)) - v
          /\ e.funds_pend = Worth(Pend(c)) /\ e.funds_pend \in Nat
          /\ e.tx_total \in Int
      BY <1>3, <1>4, <1>7, <2>1
    <3> QED
      BY <3>1, <3>2, <3>3, <3>4, <3>5
  <2>2. CASE ~yes
    <3>1. Conf(c)' = Conf(c) /\ Pend(c)' = Pend(c) \ {d} /\ d \in Pend(c)
      BY <2>2, FundLeaves DEF yes
    <3>2. Worth(Pend(c) \ {d}) = Worth(Pend(c)) - v /\ Worth(Pend(c) \ {d}) \in Nat
      BY <3>1, FundsFinite, WorthOfOneLess, FS_RemoveElement, WorthType DEF v
    <3>3. /\ e.vin_count = Cardinality(Conf(c)) /\ e.vin_count \in Nat
          /\ e.funds_conf = Worth(Conf(c)) /\ e.funds_conf \in Nat
          /\ e.funds_pend = Worth(Pend(c)) - v
          /\ e.tx_fees = BaseFee + VinFee * Cardinality(Conf(c))
          /\ e.tx_total \in Int
      BY <1>3, <1>4, <1>7, <2>2
    <3>4. e.tx_fees \in Nat
      BY <1>3, <1>4, <3>3
    <3> QED
      BY <3>1, <3>2, <3>3, <3>4
  <2> QED
    BY <1>5, <2>1, <2>2
<1>9. SoundContract(e)
  BY <1>1, <1>7, <1>8, CountedSound
<1>10. e.cid = c /\ e.spent = ct[c].spent
  BY <1>1, <1>7 DEF ChangesOnly, ContractFields
<1>11. Pend(c)' \subseteq Pend(c)
  BY FundLeaves
<1>12. Tied(c)'
  <2>1. ct[c].secured => ct[c].canceled /\ Pend(c)' = {}
    BY <1>1, <1>11 DEF Tied, Covered
  <2> QED
    BY <1>1, <1>7, <1>8, <2>1, TiedAnew
<1> QED
  BY <1>9, <1>10, <1>12

\* A deposit leaves a contract that waits for its funds, was canceled, or ended
\* without outcome.
LEMMA ReleaseInv ==
  ASSUME IInv, NEW d \in Deposits, NEW c \in Contracts,
         d \in Funds(c), ct[c].status = "published" \/ Released(c), ReleaseFrom(d, c)
  PROVE  IInv'
<1> DEFINE f == release_deposit(dp[d])
           e == CD!rem_contract_funds(ct[c], dp[d].conf # NULL, Value[d])
<1>1. /\ dp[d].closed = NULL /\ dp[d].spent = NULL
      /\ dp' = [dp EXCEPT ![d] = f] /\ vm' = vm
      /\ ct' = IF ct[c].closed THEN ct ELSE [ct EXCEPT ![c] = e]
  BY DEF ReleaseFrom, MayRelease
<1>2. d \in DOMAIN dp /\ dp[d].covenant = c
  BY DEF Funds
<1>3. SoundDeposit(dp[d])
  BY <1>2, Sound
<1>4. /\ SoundDeposit(f) /\ f.covenant = NULL /\ f.conf = dp[d].conf
      /\ f.spent = dp[d].spent
  BY <1>1, <1>3, ReleasedSound
<1> HIDE DEF f
<1>5. Moves(d, f)
  BY <1>1, <1>2, StoredMoves
<1>6. SoundContract(ct[c]) /\ ct[c].cid = c /\ Tied(c) /\ DOMAIN ct = Contracts
  BY Sound
<1>7. f.spent = NULL /\ f.covenant # c
  BY <1>1, <1>4, NullAssumption
<1>8. \A k \in Contracts \ {c} : d \notin Funds(k) /\ f.covenant # k
  BY <1>2, <1>4, NullAssumption DEF Funds
<1>9. CASE ct[c].closed
  <2>1. ct' = ct
    BY <1>1, <1>9
  <2>2. /\ ~ct[c].canceled /\ ct[c].secured /\ ct[c].machine_vout = NULL
        /\ ct[c].spent = NULL
    BY <1>6, <1>9 DEF SoundContract, OrderedContract, TypedContract, StatusOf, Released
  <2>3. Released(c)'
    BY <1>9, <2>1, <2>2 DEF Released
  <2>4. Counted(c)'
    BY <1>9, <2>1, <2>3 DEF Counted
  <2>5. Covered(c)'
    <3>1. Pend(c) = {}
      BY <1>6, <2>2 DEF Tied, Covered
    <3>2. Pend(c)' = {}
      BY <1>5, <1>7, <3>1, FundLeaves
    <3> QED
      BY <2>3, <3>2 DEF Covered
  <2>6. Spends(c)'
    BY <2>1, <2>2 DEF Spends
  <2>7. Follows(c)'
    BY <1>1, <1>6, <2>1 DEF Follows, Tied
  <2>8. Tied(c)'
    BY <2>4, <2>5, <2>6, <2>7 DEF Tied
  <2>9. \A k \in Contracts \ {c} : ct'[k] = ct[k] /\ d \notin Funds(k) /\ f.covenant # k
    BY <1>8, <2>1
  <2>10. /\ SoundContract(ct'[c]) /\ ct'[c].cid = c /\ ct'[c].spent = ct[c].spent
         /\ DOMAIN ct' = Contracts /\ vm' = vm
    BY <1>1, <1>6, <2>1
  <2> QED
    BY <1>4, <1>5, <1>7, <2>8, <2>9, <2>10, OthersStay
<1>10. CASE ~ct[c].closed
  <2>1. ct[c].secured => ct[c].canceled
    BY <1>6, <1>10 DEF SoundContract, OrderedContract, TypedContract, StatusOf, Released
  <2>2. Writes(c, e) /\ vm' = vm
    BY <1>1, <1>6, <1>10, StoredWrites
  <2>3. e = CD!rem_contract_funds(ct[c], dp[d].conf # NULL, Value[d])
    OBVIOUS
  <2> HIDE DEF e
  <2>4. SoundContract(e) /\ e.cid = c /\ e.spent = ct[c].spent /\ Tied(c)'
    BY <1>5, <1>7, <1>10, <2>1, <2>2, <2>3, LeaveCounted DEF Writes
  <2>5. \A k \in Contracts \ {c} : ct'[k] = ct[k] /\ d \notin Funds(k) /\ f.covenant # k
    BY <1>8, <2>2 DEF Writes
  <2> QED
    BY <1>4, <1>5, <1>7, <2>2, <2>4, <2>5, OthersStay DEF Writes
<1> QED
  BY <1>9, <1>10

-----------------------------------------------------------------------------
(* The steps of the contracts.                                              *)

\* A contract is canceled: its deposits stay until they are released.
LEMMA CancelInv == ASSUME IInv, NEW c \in Contracts, Cancel(c) PROVE IInv'
<1> DEFINE e == CD!cancel_contract(ct[c])
<1>1. /\ ~ct[c].canceled /\ ~ct[c].activated
      /\ ct' = [ct EXCEPT ![c] = e] /\ dp' = dp /\ vm' = vm
  BY DEF Cancel
<1>2. SoundContract(ct[c]) /\ ct[c].cid = c /\ Tied(c) /\ DOMAIN ct = Contracts
  BY Sound
<1>3. /\ SoundContract(e) /\ e.canceled = TRUE
      /\ ChangesOnly(ct[c], e, {"canceled", "status", "canceled_sig"})
  BY <1>1, <1>2, CanceledSound
<1>4. Writes(c, e)
  BY <1>1, <1>2, StoredWrites
<1> HIDE DEF e
<1>5. /\ e.cid = c /\ e.spent = ct[c].spent
      /\ e.funds_conf = ct[c].funds_conf /\ e.funds_pend = ct[c].funds_pend
      /\ e.vin_count = ct[c].vin_count /\ e.tx_fees = ct[c].tx_fees
      /\ e.activated = ct[c].activated /\ e.closed = ct[c].closed
      /\ e.secured = ct[c].secured
  BY <1>2, <1>3 DEF ChangesOnly, ContractFields
<1>6. ct'[c] = e /\ SameFunds(c)
  BY <1>1, <1>4, FundsStay DEF Writes
<1>7. ~ct[c].closed /\ ct[c].spent = NULL
  BY <1>1, <1>2 DEF SoundContract, OrderedContract
<1>8. Counted(c)'
  BY <1>2, <1>5, <1>6, <1>7 DEF Counted, Tied, SameFunds
<1>9. Covered(c)'
  <2>1. Released(c)'
    BY <1>3, <1>6 DEF Released
  <2> QED
    BY <1>2, <1>5, <1>6, <2>1 DEF Covered, Tied, SameFunds
<1>10. Spends(c)'
  BY <1>5, <1>6, <1>7 DEF Spends
<1>11. Follows(c)'
  BY <1>1, <1>2, <1>5, <1>6, <1>7 DEF Follows, Tied
<1>12. Tied(c)'
  BY <1>8, <1>9, <1>10, <1>11 DEF Tied
<1>13. DOMAIN vm' \subseteq Contracts /\ \A k \in Contracts \ {c} : SameMachine(k)
  BY <1>1 DEF IInv, SameMachine
<1> QED
  BY <1>1, <1>3, <1>4, <1>5, <1>12, <1>13, ContractKept

\* A contract is secured when all its funds are confirmed, and enough.
LEMMA SecureInv == ASSUME IInv, NEW c \in Contracts, Secure(c) PROVE IInv'
<1> DEFINE count == Cardinality(Funds(c))
           value == Worth(Funds(c))
           e == CD!secure_contract(ct[c], count, value)
<1>1. /\ ct[c].status = "published" /\ \A d \in Funds(c) : dp[d].conf # NULL
      /\ CD!MaySecure(ct[c], count, value)
      /\ ct' = [ct EXCEPT ![c] = e] /\ dp' = dp /\ vm' = vm
  BY DEF Secure
<1>2. SoundContract(ct[c]) /\ ct[c].cid = c /\ Tied(c) /\ DOMAIN ct = Contracts
  BY Sound
<1>3. count \in Nat /\ value \in Nat
  BY FundsFinite, FS_CardinalityType, WorthType
<1>4. Conf(c) = Funds(c) /\ Pend(c) = {}
  BY <1>1 DEF Conf, Pend
<1>5. value >= Subtotal + BaseFee + VinFee * count
  BY <1>1 DEF CD!MaySecure
<1>6. Writes(c, e)
  BY <1>1, <1>2, StoredWrites
<1> HIDE DEF count, value
<1>7. /\ SoundContract(e)
      /\ ChangesOnly(ct[c], e, {"vin_count", "funds_pend", "funds_conf", "secured",
                                "tx_fees", "tx_total", "status", "secured_sig"})
      /\ e.vin_count = count /\ e.funds_pend = 0 /\ e.funds_conf = value
      /\ e.tx_fees = FeesOf(count) /\ e.tx_total = Subtotal + FeesOf(count)
  BY <1>1, <1>2, <1>3, SecuredSound
<1> HIDE DEF e
<1>8. /\ e.cid = c /\ e.spent = ct[c].spent
      /\ e.canceled = ct[c].canceled
      /\ e.activated = ct[c].activated /\ e.closed = ct[c].closed
  BY <1>2, <1>7 DEF ChangesOnly, ContractFields
<1>9. ct'[c] = e /\ SameFunds(c)
  BY <1>1, <1>6, FundsStay DEF Writes
<1>10. ~ct[c].closed /\ ct[c].spent = NULL
  BY <1>1, Published
<1>11. Worth({}) = 0
  BY FS_EmptySet, WorthType
<1>12. Counted(c)'
  <2>1. e.vin_count = Cardinality(Conf(c)') /\ e.funds_conf = Worth(Conf(c)')
    BY <1>4, <1>7, <1>9 DEF SameFunds, count, value
  <2>2. e.funds_pend = Worth(Pend(c)')
    BY <1>4, <1>7, <1>9, <1>11 DEF SameFunds
  <2>3. e.tx_fees = BaseFee + VinFee * Cardinality(Conf(c)')
    BY <1>4, <1>7, <1>9 DEF SameFunds, count, FeesOf
  <2> QED
    BY <1>9, <2>1, <2>2, <2>3 DEF Counted
<1>13. Covered(c)'
  <2>1. Pend(c)' = {}
    BY <1>4, <1>9 DEF SameFunds
  <2>2. Worth(Funds(c)') >= Subtotal + BaseFee + VinFee * Cardinality(Funds(c)')
    BY <1>5, <1>9 DEF SameFunds, count, value
  <2>3. e.tx_total = Subtotal + e.tx_fees
    BY <1>7
  <2> QED
    BY <1>9, <2>1, <2>2, <2>3 DEF Covered
<1>14. Spends(c)'
  BY <1>8, <1>9, <1>10 DEF Spends
<1>15. Follows(c)'
  BY <1>1, <1>2, <1>8, <1>9, <1>10 DEF Follows, Tied
<1>16. Tied(c)'
  BY <1>12, <1>13, <1>14, <1>15 DEF Tied
<1>17. DOMAIN vm' \subseteq Contracts /\ \A k \in Contracts \ {c} : SameMachine(k)
  BY <1>1 DEF IInv, SameMachine
<1> QED
  BY <1>1, <1>6, <1>7, <1>8, <1>16, <1>17, ContractKept

\* The machine of another contract is not the one that a step stores.
LEMMA OtherMachines ==
  ASSUME NEW c \in Contracts, DOMAIN vm \subseteq Contracts, NEW m,
         \/ vm' = Stored(vm, c, m)
         \/ c \in DOMAIN vm /\ vm' = [vm EXCEPT ![c] = m]
  PROVE  /\ DOMAIN vm' \subseteq Contracts /\ c \in DOMAIN vm' /\ vm'[c] = m
         /\ \A k \in Contracts \ {c} : SameMachine(k)
BY DEF Stored, SameMachine

\* A contract that is secured gets its machine.
LEMMA ActivateInv == ASSUME IInv, NEW c \in Contracts, Activate(c) PROVE IInv'
<1> DEFINE m == [closed |-> FALSE, head |-> c, output |-> NULL]
           e == CD!activate_contract(ct[c])
<1>1. /\ ct[c].status = "secured"
      /\ ct' = [ct EXCEPT ![c] = e] /\ vm' = Stored(vm, c, m) /\ dp' = dp
  BY DEF Activate
<1>2. SoundContract(ct[c]) /\ ct[c].cid = c /\ Tied(c) /\ DOMAIN ct = Contracts
  BY Sound
<1>3. Writes(c, e)
  BY <1>1, <1>2, StoredWrites
<1>4. /\ SoundContract(e) /\ e.activated = TRUE
      /\ ChangesOnly(ct[c], e, {"activated", "head", "status", "active_sig"})
  BY <1>1, <1>2, ActivatedSound
<1> HIDE DEF e
<1>5. /\ e.cid = c /\ e.spent = ct[c].spent
      /\ e.funds_conf = ct[c].funds_conf /\ e.funds_pend = ct[c].funds_pend
      /\ e.vin_count = ct[c].vin_count /\ e.tx_fees = ct[c].tx_fees
      /\ e.tx_total = ct[c].tx_total
      /\ e.canceled = ct[c].canceled /\ e.closed = ct[c].closed
      /\ e.secured = ct[c].secured
  BY <1>2, <1>4 DEF ChangesOnly, ContractFields
<1>6. ct'[c] = e /\ SameFunds(c)
  BY <1>1, <1>3, FundsStay DEF Writes
<1>7. ~ct[c].closed /\ ct[c].spent = NULL
  BY <1>1, <1>2 DEF SoundContract, OrderedContract, TypedContract, StatusOf
<1>8. Counted(c)'
  BY <1>2, <1>5, <1>6, <1>7 DEF Counted, Tied, SameFunds
<1>9. Covered(c)'
  <2>1. ~Released(c)' => ~Released(c)
    BY <1>5, <1>6, <1>7 DEF Released
  <2> QED
    BY <1>2, <1>5, <1>6, <2>1 DEF Covered, Tied, SameFunds
<1>10. Spends(c)'
  BY <1>5, <1>6, <1>7 DEF Spends
<1>11. /\ DOMAIN vm' \subseteq Contracts /\ c \in DOMAIN vm' /\ vm'[c] = m
       /\ \A k \in Contracts \ {c} : SameMachine(k)
  <2> HIDE DEF m
  <2> QED
    BY <1>1, OtherMachines DEF IInv
<1>12. Follows(c)'
  BY <1>4, <1>5, <1>6, <1>7, <1>11 DEF Follows
<1>13. Tied(c)'
  BY <1>8, <1>9, <1>10, <1>12 DEF Tied
<1> QED
  BY <1>1, <1>3, <1>4, <1>5, <1>11, <1>13, ContractKept

\* A machine ends, or comes to have an output after all: until then the contract
\* has none.
LEMMA MachineEndsInv == ASSUME IInv, NEW c \in Contracts, MachineEnds(c) PROVE IInv'
<1>1. /\ c \in DOMAIN vm /\ vm[c].output = NULL /\ ct' = ct /\ dp' = dp
      /\ \E out \in Outputs \cup {NULL} :
           vm' = [vm EXCEPT ![c] = [closed |-> TRUE, head |-> <<c, out>>, output |-> out]]
  BY DEF MachineEnds
<1>2. PICK out \in Outputs \cup {NULL} :
        vm' = [vm EXCEPT ![c] = [closed |-> TRUE, head |-> <<c, out>>, output |-> out]]
  BY <1>1
<1> DEFINE m == [closed |-> TRUE, head |-> <<c, out>>, output |-> out]
           e == ct[c]
<1>3. SoundContract(e) /\ e.cid = c /\ Tied(c) /\ DOMAIN ct = Contracts
  BY Sound
<1>4. /\ DOMAIN vm' \subseteq Contracts /\ c \in DOMAIN vm' /\ vm'[c] = m
      /\ \A k \in Contracts \ {c} : SameMachine(k)
  <2>1. vm' = [vm EXCEPT ![c] = m]
    BY <1>2
  <2> HIDE DEF m
  <2> QED
    BY <1>1, <2>1, OtherMachines DEF IInv
<1>5. Writes(c, e)
  BY <1>1, <1>3 DEF Writes
<1>6. SameFunds(c) /\ (Released(c)' <=> Released(c))
  BY <1>1, FundsStay DEF Released
<1>7. Counted(c)' /\ Covered(c)' /\ Spends(c)'
  BY <1>1, <1>3, <1>6 DEF Tied, Counted, Covered, Spends, SameFunds
<1>8. Follows(c)'
  <2>1. c \in DOMAIN vm' <=> ct'[c].activated
    BY <1>1, <1>3, <1>4 DEF Tied, Follows
  <2>2. vm'[c] \in [closed : BOOLEAN, head : {vm'[c].head}, output : Outputs \cup {NULL}]
    BY <1>4
  <2>3. ~(ct'[c].closed /\ ct'[c].machine_vout # NULL)
    BY <1>1, <1>3 DEF Tied, Follows
  <2> QED
    BY <2>1, <2>2, <2>3 DEF Follows
<1>9. Tied(c)'
  BY <1>7, <1>8 DEF Tied
<1> QED
  BY <1>1, <1>3, <1>4, <1>5, <1>9, ContractKept

\* A contract is closed with what its machine has come to.
LEMMA CloseInv == ASSUME IInv, NEW c \in Contracts, Close(c) PROVE IInv'
<1> DEFINE m == vm[c]
           e == CD!close_contract(ct[c], m)
<1>1. /\ ~ct[c].closed /\ c \in DOMAIN vm /\ ct[c].activated /\ m.closed
      /\ ct' = [ct EXCEPT ![c] = e] /\ dp' = dp /\ vm' = vm
  BY DEF Close, CD!MayClose
<1>2. SoundContract(ct[c]) /\ ct[c].cid = c /\ Tied(c) /\ DOMAIN ct = Contracts
  BY Sound
<1>3. m.output \in Outputs \cup {NULL}
  BY <1>1, <1>2 DEF Tied, Follows
<1>4. Writes(c, e)
  BY <1>1, <1>2, StoredWrites
<1> HIDE DEF m
<1>5. /\ SoundContract(e) /\ e.closed = TRUE /\ e.head = m.head
      /\ e.machine_vout = m.output
      /\ ChangesOnly(ct[c], e, {"closed", "head", "machine_vout", "status", "closed_sig"})
  BY <1>1, <1>2, <1>3, ClosedSound
<1> HIDE DEF e
<1>6. /\ e.cid = c /\ e.spent = ct[c].spent
      /\ e.funds_conf = ct[c].funds_conf /\ e.funds_pend = ct[c].funds_pend
      /\ e.vin_count = ct[c].vin_count /\ e.tx_fees = ct[c].tx_fees
      /\ e.tx_total = ct[c].tx_total
      /\ e.canceled = ct[c].canceled /\ e.activated = ct[c].activated
      /\ e.secured = ct[c].secured
  BY <1>2, <1>5 DEF ChangesOnly, ContractFields
<1>7. ct'[c] = e /\ SameFunds(c)
  BY <1>1, <1>4, FundsStay DEF Writes
<1>8. ~ct[c].canceled /\ ct[c].spent = NULL
  BY <1>1, <1>2 DEF SoundContract, OrderedContract
<1>9. Counted(c)'
  BY <1>1, <1>2, <1>6, <1>7 DEF Counted, Tied, SameFunds
<1>10. Covered(c)'
  <2>1. ~Released(c)
    BY <1>1, <1>8 DEF Released
  <2> QED
    BY <1>2, <1>6, <1>7, <2>1 DEF Covered, Tied, SameFunds
<1>11. Spends(c)'
  BY <1>6, <1>7, <1>8 DEF Spends
<1>12. Follows(c)'
  <2>1. vm'[c] = m /\ (c \in DOMAIN vm' <=> ct'[c].activated) /\ m.closed
    BY <1>1, <1>2, <1>6, <1>7 DEF Tied, Follows, m
  <2>2. m \in [closed : BOOLEAN, head : {m.head}, output : Outputs \cup {NULL}]
    BY <1>1, <1>2 DEF Tied, Follows, m
  <2> QED
    BY <1>5, <1>7, <2>1, <2>2 DEF Follows
<1>13. Tied(c)'
  BY <1>9, <1>10, <1>11, <1>12 DEF Tied
<1>14. DOMAIN vm' \subseteq Contracts /\ \A k \in Contracts \ {c} : SameMachine(k)
  BY <1>1 DEF IInv, SameMachine
<1> QED
  BY <1>1, <1>4, <1>5, <1>6, <1>13, <1>14, ContractKept

\* A contract is spent by a settlement of its funds: none of them is spent yet.
LEMMA SpendContractInv == ASSUME IInv, NEW c \in Contracts, SpendContract(c) PROVE IInv'
<1> DEFINE tx == [cid |-> c, vin |-> Funds(c)]
           e == CD!spend_contract(ct[c], tx)
<1>1. /\ ct[c].spent = NULL /\ ct[c].closed /\ ct[c].machine_vout # NULL
      /\ ct' = [ct EXCEPT ![c] = e] /\ dp' = dp /\ vm' = vm
  BY DEF SpendContract, MaySettleTx, get_settlement_tx
<1>2. SoundContract(ct[c]) /\ ct[c].cid = c /\ Tied(c) /\ DOMAIN ct = Contracts
  BY Sound
<1>3. tx # NULL
  <2>1. tx \in [cid : Contracts \cup {NULL}, vin : SUBSET Deposits]
    BY FundsFinite
  <2> QED
    BY <2>1, NullAssumption
<1>4. Writes(c, e)
  BY <1>1, <1>2, StoredWrites
<1> HIDE DEF tx
<1>5. /\ SoundContract(e) /\ e.spent = tx
      /\ ChangesOnly(ct[c], e, {"spent", "status", "spent_sig"})
  BY <1>1, <1>2, <1>3, SpentSound
<1> HIDE DEF e
<1>6. /\ e.cid = c
      /\ e.funds_conf = ct[c].funds_conf /\ e.funds_pend = ct[c].funds_pend
      /\ e.vin_count = ct[c].vin_count /\ e.tx_fees = ct[c].tx_fees
      /\ e.tx_total = ct[c].tx_total
      /\ e.canceled = ct[c].canceled /\ e.activated = ct[c].activated
      /\ e.secured = ct[c].secured /\ e.closed = ct[c].closed
      /\ e.machine_vout = ct[c].machine_vout /\ e.head = ct[c].head
  BY <1>2, <1>5 DEF ChangesOnly, ContractFields
<1>7. ct'[c] = e /\ SameFunds(c)
  BY <1>1, <1>4, FundsStay DEF Writes
<1>8. Released(c)' <=> Released(c)
  BY <1>6, <1>7 DEF Released
<1>9. Counted(c)'
  BY <1>2, <1>6, <1>7, <1>8 DEF Counted, Tied, SameFunds
<1>10. Covered(c)'
  BY <1>2, <1>6, <1>7, <1>8 DEF Covered, Tied, SameFunds
<1>11. Spends(c)'
  BY <1>5, <1>7 DEF Spends, SameFunds, tx
<1>12. Follows(c)'
  BY <1>1, <1>2, <1>6, <1>7 DEF Follows, Tied
<1>13. Tied(c)'
  BY <1>9, <1>10, <1>11, <1>12 DEF Tied
<1>14. ASSUME NEW d \in Funds(c) PROVE dp[d].spent = NULL
  <2>1. d \in DOMAIN dp /\ dp[d].covenant = c
    BY DEF Funds
  <2> QED
    BY <1>1, <2>1, Sound DEF SpentBy
<1>15. DOMAIN vm' \subseteq Contracts /\ \A k \in Contracts \ {c} : SameMachine(k)
  BY <1>1 DEF IInv, SameMachine
<1> QED
  BY <1>1, <1>4, <1>5, <1>6, <1>13, <1>14, <1>15, ContractKept

\* A contract is settled once it is spent, or has no output and no funds left.
LEMMA SettleContractInv == ASSUME IInv, NEW c \in Contracts, SettleContract(c) PROVE IInv'
<1>1. SoundContract(ct[c]) /\ ct[c].cid = c /\ Tied(c) /\ DOMAIN ct = Contracts
  BY Sound
<1>2. PICK block \in {"mined", "none"} :
        /\ ct[c].settled = NULL /\ (ct[c].spent # NULL \/ (ct[c].closed /\ Released(c)))
        /\ ct' = [ct EXCEPT ![c] = CD!settle_contract(ct[c], block)]
        /\ dp' = dp /\ vm' = vm
  <2> DEFINE By(b) == ct' = [ct EXCEPT ![c] = CD!settle_contract(ct[c], b)]
  <2>1. /\ ct[c].settled = NULL /\ dp' = dp /\ vm' = vm
        /\ \/ ct[c].spent # NULL /\ By("mined")
           \/ ct[c].closed /\ Released(c) /\ By("none")
    BY DEF SettleContract
  <2> QED
    BY <2>1
<1> DEFINE e == CD!settle_contract(ct[c], block)
<1>3. block # NULL
  BY <1>2, NullAssumption
<1>4. ct[c].closed /\ (ct[c].spent # NULL \/ ct[c].machine_vout = NULL)
  BY <1>1, <1>2 DEF SoundContract, OrderedContract, Released
<1>5. Writes(c, e)
  BY <1>1, <1>2, StoredWrites
<1>6. /\ SoundContract(e)
      /\ ChangesOnly(ct[c], e, {"settled", "status", "settled_sig"})
  BY <1>1, <1>2, <1>3, <1>4, SettledSound
<1> HIDE DEF e
<1>7. /\ e.cid = c /\ e.spent = ct[c].spent
      /\ e.funds_conf = ct[c].funds_conf /\ e.funds_pend = ct[c].funds_pend
      /\ e.vin_count = ct[c].vin_count /\ e.tx_fees = ct[c].tx_fees
      /\ e.tx_total = ct[c].tx_total
      /\ e.canceled = ct[c].canceled /\ e.activated = ct[c].activated
      /\ e.secured = ct[c].secured /\ e.closed = ct[c].closed
      /\ e.machine_vout = ct[c].machine_vout /\ e.head = ct[c].head
  BY <1>1, <1>6 DEF ChangesOnly, ContractFields
<1>8. ct'[c] = e /\ SameFunds(c)
  BY <1>2, <1>5, FundsStay DEF Writes
<1>9. Released(c)' <=> Released(c)
  BY <1>7, <1>8 DEF Released
<1>10. Counted(c)'
  BY <1>1, <1>7, <1>8, <1>9 DEF Counted, Tied, SameFunds
<1>11. Covered(c)'
  BY <1>1, <1>7, <1>8, <1>9 DEF Covered, Tied, SameFunds
<1>12. Spends(c)'
  BY <1>1, <1>7, <1>8 DEF Spends, Tied, SameFunds
<1>13. Follows(c)'
  BY <1>1, <1>2, <1>7, <1>8 DEF Follows, Tied
<1>14. Tied(c)'
  BY <1>10, <1>11, <1>12, <1>13 DEF Tied
<1>15. DOMAIN vm' \subseteq Contracts /\ \A k \in Contracts \ {c} : SameMachine(k)
  BY <1>2 DEF IInv, SameMachine
<1> QED
  BY <1>2, <1>5, <1>6, <1>7, <1>14, <1>15, ContractKept

-----------------------------------------------------------------------------
(* The invariant holds.                                                     *)

\* It holds when there are no deposits and no machines yet,
LEMMA InitInv == Init => IInv
<1> SUFFICES ASSUME Init PROVE IInv
  OBVIOUS
<1>1. ct = [c \in Contracts |-> CD!create_contract(c)]
  BY DEF Init
<1>2. DOMAIN dp = {} /\ DOMAIN vm = {}
  BY DEF Init
<1>3. \A c : Funds(c) = {} /\ Conf(c) = {} /\ Pend(c) = {}
  BY <1>2 DEF Funds, Conf, Pend
<1>4. Cardinality({}) = 0 /\ IsFiniteSet({}) /\ Worth({}) = 0
  BY FS_EmptySet, WorthType
<1>5. ASSUME NEW c \in Contracts
      PROVE  SoundContract(ct[c]) /\ ct[c].cid = c /\ Tied(c)
  <2> DEFINE e == CD!create_contract(c)
  <2>1. SoundContract(e) /\ e.cid = c
    BY CreatedSound
  <2>2. /\ e.funds_conf = 0 /\ e.funds_pend = 0 /\ e.vin_count = 0
        /\ e.tx_fees = BaseFee
        /\ e.secured = FALSE /\ e.activated = FALSE
        /\ e.closed = FALSE /\ e.spent = NULL
    BY ContractCreated
  <2>3. ct[c] = e
    BY <1>1
  <2> HIDE DEF e
  <2>4. Counted(c)
    <3>1. BaseFee + VinFee * 0 = BaseFee
      BY FeesAssumption
    <3>2. BaseFee + VinFee * Cardinality({}) = BaseFee
      BY <1>4, <3>1
    <3> QED
      BY <1>3, <1>4, <2>2, <2>3, <3>2 DEF Counted
  <2>5. Covered(c) /\ Spends(c)
    BY <2>2, <2>3 DEF Covered, Spends
  <2>6. Follows(c)
    BY <1>2, <2>2, <2>3 DEF Follows
  <2> QED
    BY <2>1, <2>3, <2>4, <2>5, <2>6 DEF Tied
<1> QED
  BY <1>1, <1>2, <1>4, <1>5 DEF IInv

\* and every step keeps it.
LEMMA StepInv == CommitLocks /\ IInv /\ [Next]_vars => IInv'
<1> SUFFICES ASSUME CommitLocks, IInv, [Next]_vars PROVE IInv'
  OBVIOUS
<1>1. CASE UNCHANGED vars
  <2>1. ct' = ct /\ dp' = dp /\ vm' = vm
    BY <1>1 DEF vars
  <2>2. ASSUME NEW c \in Contracts
        PROVE  SoundContract(ct'[c]) /\ ct'[c].cid = c /\ Tied(c)'
    <3>1. SoundContract(ct[c]) /\ ct[c].cid = c /\ Tied(c)
      BY Sound
    <3>2. SameMachine(c) /\ SameFunds(c)
      BY <2>1, FundsStay DEF SameMachine
    <3> QED
      BY <2>1, <3>1, <3>2, TiesKept
  <2>3. ASSUME NEW d \in DOMAIN dp'
        PROVE  SoundDeposit(dp'[d]) /\ SpentBy(d)'
    BY <2>1, Sound DEF SpentBy
  <2>4. /\ DOMAIN ct' = Contracts /\ DOMAIN vm' \subseteq Contracts
        /\ DOMAIN dp' \subseteq Deposits /\ IsFiniteSet(DOMAIN dp')
    BY <2>1 DEF IInv
  <2> QED
    BY <2>2, <2>3, <2>4 DEF IInv
<1>2. ASSUME NEW c \in Contracts, ContractStep(c) PROVE IInv'
  BY <1>2, CancelInv, SecureInv, ActivateInv, MachineEndsInv, CloseInv,
     SpendContractInv, SettleContractInv DEF ContractStep
<1>3. ASSUME NEW d \in Deposits, DepositStep(d) PROVE IInv'
  BY <1>3, RegisterInv, ConfirmInv, ReturnInv, SettleDepositInv DEF DepositStep
<1>4. ASSUME NEW c \in Contracts, NEW d \in Deposits, FundingStep(d, c) PROVE IInv'
  <2>1. CASE Withdraw(d, c) \/ Free(d, c)
    BY <2>1, ReleaseInv DEF Withdraw, Free
  <2>2. CASE Commit(d, c) \/ Lock(d, c) \/ SpendDeposit(d, c)
    BY <2>2, CommitInv, LockInv, SpendDepositInv
  <2> QED
    BY <1>4, <2>1, <2>2 DEF FundingStep
<1> QED
  BY <1>1, <1>2, <1>3, <1>4 DEF Next

\* The invariant, of every behaviour of a server that locks what is committed
\* (contract/data.ts, deposit/data.ts, validation/deposit.ts:52-77).
THEOREM Invariance == ASSUME CommitLocks PROVE Spec => []IInv
<1>1. IInv /\ [Next]_vars => IInv'
  BY StepInv
<1> QED
  BY <1>1, InitInv, PTL DEF Spec

-----------------------------------------------------------------------------
(* What follows from it.                                                    *)

\* The data of contracts and deposits keep their types, and a contract has a
\* machine from the time that it is activated (schema/contract.ts, data.ts:173-190).
THEOREM EscrowTypeCorrect == ASSUME CommitLocks PROVE Spec => []TypeOK
<1>1. IInv => TypeOK
  <2> SUFFICES ASSUME IInv PROVE TypeOK
    OBVIOUS
  <2>1. ASSUME NEW c \in Contracts
        PROVE  /\ ct[c].status \in CD!ContractStatus
               /\ {ct[c].funds_conf, ct[c].funds_pend, ct[c].vin_count, ct[c].tx_fees}
                    \subseteq Nat
               /\ {ct[c].canceled, ct[c].secured, ct[c].activated, ct[c].closed}
                    \subseteq BOOLEAN
               /\ c \in DOMAIN vm <=> ct[c].activated
    <3>1. SoundContract(ct[c]) /\ Tied(c)
      BY Sound
    <3>2. ct[c].status \in CD!ContractStatus
      BY <3>1 DEF SoundContract, OrderedContract, StatusOf, CD!ContractStatus
    <3> QED
      BY <3>1, <3>2 DEF SoundContract, TypedContract, Tied, Follows
  <2>2. ASSUME NEW d \in DOMAIN dp
        PROVE  dp[d].status \in DepositStatus /\ dp[d].covenant \in Contracts \cup {NULL}
    BY Sound DEF SoundDeposit
  <2> QED
    BY <2>1, <2>2 DEF TypeOK
<1> QED
  BY <1>1, Invariance, PTL

\* The counts of a contract, and those a client makes.
LEMMA CountsAgree == IInv => FundsAgree
<1> SUFFICES ASSUME IInv, NEW c \in Contracts, ~(ct[c].closed /\ Released(c))
             PROVE  LET tab == tabulate_funds(c) IN
                    /\ ct[c].vin_count  = tab.vin_count
                    /\ ct[c].funds_conf = tab.fund_value
                    /\ ct[c].funds_pend = Worth({d \in Funds(c) : dp[d].conf = NULL})
                    /\ ct[c].tx_fees    = tab.tx_fees
                    /\ ct[c].secured /\ ~ct[c].canceled => verify_contract_funding(c)
                    /\ ~ct[c].canceled =>
                         (CD!get_contract_balance(ct[c]) <= 0
                            <=> CD!MaySecure(ct[c], tab.vin_count, tab.fund_value))
  BY DEF FundsAgree
<1> DEFINE n == Cardinality(Conf(c))
           v == Worth(Conf(c))
           tab == tabulate_funds(c)
<1>1. SoundContract(ct[c]) /\ Tied(c)
  BY Sound
<1>2. /\ tab.vin_count = n /\ tab.fund_value = v
      /\ tab.tx_fees = BaseFee + VinFee * n
      /\ tab.tx_total = Subtotal + (BaseFee + VinFee * n)
  BY DEF tabulate_funds, Conf
<1>3. n \in Nat /\ v \in Nat
  BY FundsFinite, FS_CardinalityType, WorthType
<1>4. /\ ct[c].vin_count = n /\ ct[c].funds_conf = v
      /\ ct[c].funds_pend = Worth(Pend(c)) /\ ct[c].tx_fees = BaseFee + VinFee * n
  BY <1>1 DEF Tied, Counted
<1>5. Pend(c) = {d \in Funds(c) : dp[d].conf = NULL}
  BY DEF Pend
<1> HIDE DEF n, v, tab
<1>6. ASSUME ct[c].secured, ~ct[c].canceled PROVE verify_contract_funding(c)
  <2>1. Pend(c) = {} /\ ct[c].tx_total = Subtotal + ct[c].tx_fees
    BY <1>1, <1>6 DEF Tied, Covered, Released
  <2>2. ct[c].funds_pend = 0
    BY <1>4, <2>1, FS_EmptySet, WorthType
  <2>3. ct[c].funds_pend + ct[c].funds_conf = v
    BY <1>3, <1>4, <2>2
  <2> QED
    BY <1>2, <1>4, <2>1, <2>3 DEF verify_contract_funding, tab
<1>7. ASSUME ~ct[c].canceled
      PROVE  CD!get_contract_balance(ct[c]) <= 0 <=> CD!MaySecure(ct[c], n, v)
  <2>1. {Subtotal, BaseFee, VinFee} \subseteq Nat
    BY FeesAssumption
  <2>2. n * VinFee = VinFee * n /\ VinFee * n \in Nat
    BY <1>3, <2>1
  <2>3. CD!get_contract_balance(ct[c]) = (Subtotal + BaseFee) + n * VinFee - v
    BY <1>4 DEF CD!get_contract_balance, CD!get_contract_value
  <2>4. CD!MaySecure(ct[c], n, v) <=> v >= Subtotal + BaseFee + VinFee * n
    BY <1>7 DEF CD!MaySecure
  <2>5. (Subtotal + BaseFee) + n * VinFee - v <= 0 <=> v >= Subtotal + BaseFee + VinFee * n
    BY <1>3, <2>1, <2>2
  <2> QED
    BY <2>3, <2>4, <2>5
<1> QED
  BY <1>2, <1>4, <1>5, <1>6, <1>7 DEF tab

\* A client who adds the funds of a contract up finds what the contract says, and
\* a contract asks for funds as long as they do not do to secure it
\* (contract/data.ts:96-157, util.ts:147-169).
THEOREM FundsAreCounted == ASSUME CommitLocks PROVE Spec => []FundsAgree
BY CountsAgree, Invariance, PTL

\* Whatever is done to a contract or a deposit after it was signed, the signature
\* goes on verifying (contract/state.ts:52-155, deposit/state.ts:35-120).
THEOREM EscrowSigsVerify == ASSUME CommitLocks PROVE Spec => []SigsVerify
<1>1. IInv => SigsVerify
  BY DEF IInv, SoundContract, SignedContract, SoundDeposit, SigsVerify
<1> QED
  BY <1>1, Invariance, PTL

\* A contract that is secured can pay until it is spent, or lets its deposits go
\* (contract/data.ts:146-157, validation/deposit.ts:52-77).
THEOREM SecuredIsBacked == ASSUME CommitLocks PROVE Spec => []Backed
<1>1. IInv => Backed
  <2> SUFFICES ASSUME IInv, NEW c \in Contracts,
                      ct[c].secured, ct[c].spent = NULL, ~Released(c)
               PROVE  LET live == {d \in Funds(c) :
                                     /\ dp[d].locked /\ dp[d].conf # NULL
                                     /\ dp[d].closed = NULL /\ dp[d].spent = NULL}
                      IN Worth(live) >= Subtotal + BaseFee + VinFee * Cardinality(live)
    BY DEF Backed
  <2> DEFINE live == {d \in Funds(c) : /\ dp[d].locked /\ dp[d].conf # NULL
                                       /\ dp[d].closed = NULL /\ dp[d].spent = NULL}
  <2>1. Pend(c) = {}
        /\ Worth(Funds(c)) >= Subtotal + BaseFee + VinFee * Cardinality(Funds(c))
    BY Sound DEF Tied, Covered
  <2>2. ASSUME NEW d \in Funds(c) PROVE d \in live
    <3>1. d \in DOMAIN dp /\ dp[d].covenant = c
      BY DEF Funds
    <3>2. SoundDeposit(dp[d]) /\ SpentBy(d)
      BY <3>1, Sound
    <3>3. dp[d].locked /\ dp[d].closed = NULL
      BY <3>1, <3>2, NullAssumption DEF SoundDeposit
    <3>4. dp[d].spent = NULL
      BY <3>1, <3>2 DEF SpentBy
    <3>5. dp[d].conf # NULL
      BY <2>1 DEF Pend
    <3> QED
      BY <3>3, <3>4, <3>5
  <2>3. live = Funds(c)
    BY <2>2
  <2> HIDE DEF live
  <2>4. Worth(live) >= Subtotal + BaseFee + VinFee * Cardinality(live)
    BY <2>1, <2>3
  <2> QED
    BY <2>4 DEF live
<1> QED
  BY <1>1, Invariance, PTL

\* The inputs of a settlement stay what they were when it was published, and a
\* client who verifies the settlement, then or later, finds it right
\* (contract/util.ts:127-145, validation/contract.ts:189-228).
THEOREM InputsAreKept == ASSUME CommitLocks PROVE Spec => []InputsStay
<1>1. IInv => InputsStay
  <2> SUFFICES ASSUME IInv, NEW c \in Contracts, ct[c].spent # NULL
               PROVE  /\ verify_contract_settlement(c)
                      /\ \A d \in ct[c].spent.vin :
                           /\ dp[d].locked /\ dp[d].covenant = c /\ dp[d].closed = NULL
                           /\ dp[d].spent \in {NULL, ct[c].spent}
    BY DEF InputsStay
  <2>1. SoundContract(ct[c]) /\ Tied(c)
    BY Sound
  <2>2. /\ ct[c].closed /\ ct[c].machine_vout # NULL /\ ct[c].activated /\ ct[c].secured
        /\ ~ct[c].canceled
    BY <2>1 DEF SoundContract, OrderedContract
  <2>3. ct[c].spent = [cid |-> c, vin |-> Funds(c)]
    BY <2>1 DEF Tied, Spends
  <2>4. ct[c].machine_vout \in Outputs
    BY <2>1, <2>2 DEF SoundContract, TypedContract
  <2>5. verify_contract_funding(c)
    BY <2>2, CountsAgree DEF FundsAgree, Released
  <2>6. verify_contract_close(c)
    BY <2>1, <2>2 DEF Tied, Follows, verify_contract_close
  <2>7. verify_contract_activation(c) /\ verify_contract_spending(c)
    BY <2>2, <2>3, <2>4 DEF verify_contract_activation, verify_contract_spending,
                            get_settlement_tx
  <2>8. ct[c].spent.vin = Funds(c)
    BY <2>3
  <2>9. ASSUME NEW d \in Funds(c)
        PROVE  /\ dp[d].locked /\ dp[d].covenant = c /\ dp[d].closed = NULL
               /\ dp[d].spent \in {NULL, ct[c].spent}
    <3>1. d \in DOMAIN dp /\ dp[d].covenant = c
      BY DEF Funds
    <3>2. SoundDeposit(dp[d]) /\ SpentBy(d)
      BY <3>1, Sound
    <3>3. dp[d].locked /\ dp[d].closed = NULL
      BY <3>1, <3>2, NullAssumption DEF SoundDeposit
    <3> QED
      BY <3>1, <3>2, <3>3 DEF SpentBy
  <2> QED
    BY <2>5, <2>6, <2>7, <2>8, <2>9 DEF verify_contract_settlement
<1> QED
  BY <1>1, Invariance, PTL

\* A deposit that another one's step stores is what it was.
LEMMA CovenantOfOne ==
  ASSUME NEW d, NEW e, Moves(d, e), NEW i \in DOMAIN dp, dp[i].covenant # NULL,
         i = d => e.covenant \in {dp[d].covenant, NULL}
  PROVE  dp'[i].covenant \in {dp[i].covenant, NULL}
<1>1. CASE i = d
  BY <1>1 DEF Moves
<1>2. CASE i # d
  BY <1>2 DEF Moves
<1> QED
  BY <1>1, <1>2

\* A covenant ends with the release of its deposit only, and no contract takes
\* the deposit of another (deposit/data.ts:102-131, validation/covenant.ts:51-52).
THEOREM CovenantsAreKept == ASSUME CommitLocks PROVE Spec => CovenantKept
<1> DEFINE Kept == \A d \in DOMAIN dp :
                     dp[d].covenant # NULL => dp'[d].covenant \in {dp[d].covenant, NULL}
<1>1. ASSUME IInv, [Next]_vars PROVE [Kept]_vars
  <2> USE <1>1
  <2> SUFFICES ASSUME NEW i \in DOMAIN dp, dp[i].covenant # NULL
               PROVE  dp'[i].covenant \in {dp[i].covenant, NULL}
    OBVIOUS
  <2>1. CASE dp' = dp
    BY <2>1
  <2>2. ASSUME NEW d \in Deposits, Register(d)
        PROVE  dp'[i].covenant \in {dp[i].covenant, NULL}
    <3>1. i # d /\ Moves(d, create_deposit(NULL))
      BY <2>2, StoredMoves DEF Register
    <3> QED
      BY <3>1, CovenantOfOne
  <2>3. ASSUME NEW d \in Deposits, NEW c \in Contracts, Commit(d, c)
        PROVE  dp'[i].covenant \in {dp[i].covenant, NULL}
    <3>1. i # d /\ \E e : Moves(d, e)
      BY <2>3, StoredMoves DEF Commit
    <3> QED
      BY <3>1, CovenantOfOne
  <2>4. ASSUME NEW d \in Deposits, NEW c \in Contracts, Lock(d, c)
        PROVE  dp'[i].covenant \in {dp[i].covenant, NULL}
    <3>1. dp[d].covenant = NULL
      BY <2>4, LockInv
    <3>2. Moves(d, lock_deposit(dp[d], c))
      BY <2>4, StoredMoves DEF Lock
    <3> QED
      BY <3>1, <3>2, CovenantOfOne
  <2>5. ASSUME NEW d \in DOMAIN dp, NEW e, dp' = [dp EXCEPT ![d] = e],
               e.covenant \in {dp[d].covenant, NULL}
        PROVE  dp'[i].covenant \in {dp[i].covenant, NULL}
    BY <2>5, StoredMoves, CovenantOfOne
  <2>6. ASSUME NEW d \in Deposits, Confirm(d) \/ Return(d) \/ SettleDeposit(d)
        PROVE  dp'[i].covenant \in {dp[i].covenant, NULL}
    <3>1. d \in DOMAIN dp /\ IsDeposit(dp[d])
      BY <2>6, Sound DEF Confirm, Return, SettleDeposit, SoundDeposit
    <3>2. CASE Confirm(d)
      <4>1. confirm_deposit(dp[d], "mined").covenant = dp[d].covenant
        BY <3>1, ConfirmChanges
      <4> QED
        BY <2>5, <3>1, <3>2, <4>1 DEF Confirm
    <3>3. CASE Return(d)
      <4>1. close_deposit(dp[d], [cid |-> NULL, vin |-> {d}]).covenant = dp[d].covenant
        BY <3>1, CloseChanges
      <4> QED
        BY <2>5, <3>1, <3>3, <4>1 DEF Return
    <3>4. CASE SettleDeposit(d)
      <4>1. settle_deposit(dp[d], "mined").covenant = dp[d].covenant
        BY <3>1, SettleChanges
      <4> QED
        BY <2>5, <3>1, <3>4, <4>1 DEF SettleDeposit
    <3> QED
      BY <2>6, <3>2, <3>3, <3>4
  <2>7. ASSUME NEW d \in Deposits, NEW c \in Contracts, Withdraw(d, c) \/ Free(d, c)
        PROVE  dp'[i].covenant \in {dp[i].covenant, NULL}
    <3>1. d \in DOMAIN dp /\ dp' = [dp EXCEPT ![d] = release_deposit(dp[d])]
      BY <2>7 DEF Withdraw, Free, ReleaseFrom, Funds
    <3>2. release_deposit(dp[d]).covenant = NULL
      BY <3>1, Sound, ReleaseChanges DEF SoundDeposit
    <3> QED
      BY <2>5, <3>1, <3>2
  <2>8. ASSUME NEW d \in Deposits, NEW c \in Contracts, SpendDeposit(d, c)
        PROVE  dp'[i].covenant \in {dp[i].covenant, NULL}
    <3>1. dp' = [dp EXCEPT ![d] = spend_deposit(dp[d], ct[c].spent)]
      BY <2>8 DEF SpendDeposit
    <3>2. CASE d \in DOMAIN dp
      <4>1. spend_deposit(dp[d], ct[c].spent).covenant = dp[d].covenant
        BY <3>2, Sound, SpendChanges DEF SoundDeposit
      <4> QED
        BY <2>5, <3>1, <3>2, <4>1
    <3>3. CASE d \notin DOMAIN dp
      BY <3>1, <3>3
    <3> QED
      BY <3>2, <3>3
  <2>9. CASE UNCHANGED vars
    BY <2>1, <2>9 DEF vars
  <2>10. ASSUME NEW c \in Contracts, ContractStep(c) PROVE dp' = dp
    BY <2>10 DEF ContractStep, Cancel, Secure, Activate, MachineEnds, Close,
                 SpendContract, SettleContract
  <2> QED
    BY <2>1, <2>2, <2>3, <2>4, <2>6, <2>7, <2>8, <2>9, <2>10
       DEF Next, DepositStep, FundingStep
<1> QED
  BY <1>1, Invariance, PTL DEF Spec, CovenantKept
=============================================================================
