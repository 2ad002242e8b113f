--------------------------- MODULE RefCountProofs ---------------------------
(***************************************************************************)
(* Proofs about RefCount for any finite set of handles.  The two counts    *)
(* are the numbers of handles that hold a reference; with that, and with   *)
(* where the death of the object has got to, every access finds its memory *)
(* alive.                                                                  *)
(***************************************************************************)
EXTENDS RefCount, FiniteSetTheorems, TLAPS

In(f, what) == {k \in Handles : f[k] = what}
Strong == In(state, "strong")
Weak   == In(state, "weak")

(* The counts in the control block count the handles.                      *)
Counts ==
  /\ refs = Cardinality(Strong) - 1
  /\ weakRefs = Cardinality(Weak) + (IF own THEN 1 ELSE 0) - 1

(* While there is an owner the object is whole; when there is none, one    *)
(* handle at most is taking it down, step by step.                         *)
Death ==
  /\ refs > -1 => /\ own /\ listed /\ object = "alive"
                  /\ \A h \in Handles : state[h] \notin Dying
  /\ refs = -1 => (own <=> \E h \in Handles : state[h] \in Dying)
  /\ \A h, k \in Handles : state[h] \in Dying /\ state[k] \in Dying => h = k
  /\ \A h \in Handles :
       /\ state[h] = "unlisting" => listed
       /\ state[h] = "destroying" => ~listed
       /\ state[h] = "dropping" => ~listed /\ object = "freed"
  /\ ~own => ~listed /\ object = "freed"

(* The control block goes with the last weak reference.                    *)
Block ==
  /\ \A h \in Handles : state[h] = "freeing" => weakRefs = -1 /\ control = "alive"
  /\ \A h, k \in Handles : state[h] = "freeing" /\ state[k] = "freeing" => h = k
  /\ control = "freed" => weakRefs = -1
  /\ weakRefs = -1 =>
       control = "freed" \/ \E h \in Handles : state[h] = "freeing"

(* A call of get_ref relies on a reference that stays, or on the list.     *)
Loans ==
  \A h \in Handles :
    /\ state[h] \in Getting =>
         \/ lender[h] \in Handles /\ state[lender[h]] \in Holding
         \/ mutex = h /\ listed
    /\ state[h] = "swapping" => owners[h] > -1

IInv == TypeOK /\ Counts /\ Death /\ Block /\ Loans

USE RefCountAssumption

-----------------------------------------------------------------------------
(* Counting.                                                               *)

(* Changing what one handle does moves it in or out of a counted set.      *)
LEMMA CountedAfter ==
  ASSUME TypeOK, NEW h \in Handles, NEW s, NEW what, Set(h, s)
  PROVE  Cardinality(In(state', what)) =
           Cardinality(In(state, what)) + (IF s = what THEN 1 ELSE 0)
                                        - (IF state[h] = what THEN 1 ELSE 0)
<1> DEFINE S == In(state, what)
           T == In(state', what)
           R == S \ {h}
<1>1. IsFiniteSet(S) /\ IsFiniteSet(T) /\ IsFiniteSet(R)
  BY FS_Subset DEF In
<1>2. T = IF s = what THEN R \cup {h} ELSE R
  BY DEF In, TypeOK, Set
<1>3. S = IF state[h] = what THEN R \cup {h} ELSE R
  BY DEF In
<1>4. Cardinality(R) \in Nat /\ h \notin R
  BY <1>1, FS_CardinalityType
<1>5. Cardinality(R \cup {h}) = Cardinality(R) + 1
  BY <1>1, <1>4, FS_AddElement
<1> HIDE DEF S, T, R
<1>6. Cardinality(T) = Cardinality(R) + (IF s = what THEN 1 ELSE 0)
  BY <1>2, <1>4, <1>5
<1>7. Cardinality(S) = Cardinality(R) + (IF state[h] = what THEN 1 ELSE 0)
  BY <1>3, <1>4, <1>5
<1>8. Cardinality(T) = Cardinality(S) + (IF s = what THEN 1 ELSE 0)
                         - (IF state[h] = what THEN 1 ELSE 0)
  BY <1>4, <1>6, <1>7
<1> QED
  BY <1>8 DEF S, T

(* What the counts say of the handles.                                     *)
LEMMA CountsMean ==
  ASSUME TypeOK, Counts
  PROVE  /\ refs >= -1 /\ weakRefs >= -1
         /\ refs > -1 <=> \E h \in Handles : state[h] = "strong"
         /\ weakRefs > -1 <=> own \/ \E h \in Handles : state[h] = "weak"
<1>1. IsFiniteSet(Strong) /\ IsFiniteSet(Weak)
  BY FS_Subset DEF Strong, Weak, In
<1>2. Cardinality(Strong) \in Nat /\ Cardinality(Weak) \in Nat
  BY <1>1, FS_CardinalityType
<1>3. (Cardinality(Strong) = 0 <=> Strong = {}) /\ (Cardinality(Weak) = 0 <=> Weak = {})
  BY <1>1, FS_EmptySet
<1>4. refs >= -1 /\ (refs > -1 <=> Strong # {})
  BY <1>2, <1>3 DEF Counts
<1>5. weakRefs >= -1 /\ (weakRefs > -1 <=> own \/ Weak # {})
  BY <1>2, <1>3 DEF Counts, TypeOK
<1> QED
  BY <1>4, <1>5 DEF Strong, Weak, In

(* A step that sets the state of one handle and moves the counts as its    *)
(* handle moves keeps them true.                                           *)
LEMMA CountsStep ==
  ASSUME TypeOK, Counts, NEW h \in Handles, NEW s, Set(h, s),
         own' \in BOOLEAN,
         refs' = refs + (IF s = "strong" THEN 1 ELSE 0)
                      - (IF state[h] = "strong" THEN 1 ELSE 0),
         weakRefs' = weakRefs + (IF s = "weak" THEN 1 ELSE 0)
                              - (IF state[h] = "weak" THEN 1 ELSE 0)
                              + (IF own' THEN 1 ELSE 0) - (IF own THEN 1 ELSE 0)
  PROVE  Counts'
<1>2. IsFiniteSet(Strong) /\ IsFiniteSet(Weak)
  BY FS_Subset DEF Strong, Weak, In
<1>3. Cardinality(Strong) \in Nat /\ Cardinality(Weak) \in Nat
  BY <1>2, FS_CardinalityType
<1>4. Cardinality(Strong') = Cardinality(Strong) + (IF s = "strong" THEN 1 ELSE 0)
                               - (IF state[h] = "strong" THEN 1 ELSE 0)
  <2>1. Cardinality(In(state', "strong")) =
          Cardinality(In(state, "strong")) + (IF s = "strong" THEN 1 ELSE 0)
                                       - (IF state[h] = "strong" THEN 1 ELSE 0)
    BY CountedAfter
  <2> QED
    BY <2>1 DEF Strong
<1>5. Cardinality(Weak') = Cardinality(Weak) + (IF s = "weak" THEN 1 ELSE 0)
                             - (IF state[h] = "weak" THEN 1 ELSE 0)
  <2>1. Cardinality(In(state', "weak")) =
          Cardinality(In(state, "weak")) + (IF s = "weak" THEN 1 ELSE 0)
                                       - (IF state[h] = "weak" THEN 1 ELSE 0)
    BY CountedAfter
  <2> QED
    BY <2>1 DEF Weak
<1>6. refs' = Cardinality(Strong') - 1
  BY <1>3, <1>4 DEF Counts
<1>7. weakRefs' = Cardinality(Weak') + (IF own' THEN 1 ELSE 0) - 1
  BY <1>3, <1>5 DEF Counts, TypeOK
<1> QED
  BY <1>6, <1>7 DEF Counts

-----------------------------------------------------------------------------
(* The invariant is inductive.                                             *)

LEMMA InitIInv == Init => IInv
<1> SUFFICES ASSUME Init PROVE IInv
  OBVIOUS
<1>1. TypeOK
  BY DEF Init, TypeOK, State, Holding, Getting, Dying
<1>2. Strong = {First} /\ Weak = {}
  BY DEF Init, Strong, Weak, In
<1>3. Cardinality(Strong) = 1 /\ Cardinality(Weak) = 0
  BY <1>2, FS_Singleton, FS_EmptySet
<1>4. Counts
  BY <1>3 DEF Init, Counts
<1>5. Death /\ Block /\ Loans
  BY DEF Init, Death, Block, Loans, Dying, Getting, Holding
<1> QED
  BY <1>1, <1>4, <1>5 DEF IInv

(* One lemma per action: the types, the counts by CountsStep, and the rest *)
(* from what the counts mean.                                              *)

LEMMA KeepAddRef ==
  ASSUME IInv, NEW g \in Handles, NEW h \in Handles, AddRef(g, h)
  PROVE  IInv'
<1> USE DEF Set, Holding, Getting, Dying
<1>1. TypeOK /\ Counts /\ Death /\ Block /\ Loans
  BY DEF IInv
<1>2. /\ refs >= -1 /\ weakRefs >= -1
      /\ refs > -1 <=> \E k \in Handles : state[k] = "strong"
      /\ weakRefs > -1 <=> own \/ \E k \in Handles : state[k] = "weak"
  BY <1>1, CountsMean
<1>3. TypeOK'
  BY <1>1 DEF AddRef, TypeOK, State
<1>4. Counts'
  <2> DEFINE s == "strong"
  <2>1. Set(h, s) /\ own' \in BOOLEAN
    BY <1>3 DEF AddRef, TypeOK
  <2>2. refs' = refs + (IF s = "strong" THEN 1 ELSE 0)
                     - (IF state[h] = "strong" THEN 1 ELSE 0)
    BY <1>1, <1>2 DEF AddRef, TypeOK
  <2>3. weakRefs' = weakRefs + (IF s = "weak" THEN 1 ELSE 0)
                             - (IF state[h] = "weak" THEN 1 ELSE 0)
                             + (IF own' THEN 1 ELSE 0) - (IF own THEN 1 ELSE 0)
    BY <1>1, <1>2 DEF AddRef, TypeOK, Death
  <2> HIDE DEF s, Set
  <2> QED
    BY <1>1, <2>1, <2>2, <2>3, CountsStep
<1>5. Death'
  BY <1>1, <1>2 DEF AddRef, TypeOK, Death
<1>6. Block'
  BY <1>1, <1>2 DEF AddRef, TypeOK, Death, Block, Loans
<1>7. Loans'
  BY <1>1, <1>2 DEF AddRef, TypeOK, Loans, Lent
<1> QED
  BY <1>3, <1>4, <1>5, <1>6, <1>7 DEF IInv

LEMMA KeepRelease ==
  ASSUME IInv, NEW h \in Handles, Release(h)
  PROVE  IInv'
<1> USE DEF Set, Holding, Getting, Dying
<1>1. TypeOK /\ Counts /\ Death /\ Block /\ Loans
  BY DEF IInv
<1>2. /\ refs >= -1 /\ weakRefs >= -1
      /\ refs > -1 <=> \E k \in Handles : state[k] = "strong"
      /\ weakRefs > -1 <=> own \/ \E k \in Handles : state[k] = "weak"
  BY <1>1, CountsMean
<1>3. TypeOK'
  BY <1>1 DEF Release, TypeOK, State
<1>4. Counts'
  <2> DEFINE s == IF refs = 0 THEN "unlisting" ELSE "none"
  <2>1. Set(h, s) /\ own' \in BOOLEAN
    BY <1>3 DEF Release, TypeOK
  <2>2. refs' = refs + (IF s = "strong" THEN 1 ELSE 0)
                     - (IF state[h] = "strong" THEN 1 ELSE 0)
    BY <1>1, <1>2 DEF Release, TypeOK
  <2>3. weakRefs' = weakRefs + (IF s = "weak" THEN 1 ELSE 0)
                             - (IF state[h] = "weak" THEN 1 ELSE 0)
                             + (IF own' THEN 1 ELSE 0) - (IF own THEN 1 ELSE 0)
    BY <1>1, <1>2 DEF Release, TypeOK, Death
  <2> HIDE DEF s, Set
  <2> QED
    BY <1>1, <2>1, <2>2, <2>3, CountsStep
<1>5. Death'
  BY <1>1, <1>2 DEF Release, TypeOK, Death
<1>6. Block'
  BY <1>1, <1>2 DEF Release, TypeOK, Death, Block, Loans
<1>7. Loans'
  BY <1>1, <1>2 DEF Release, TypeOK, Loans, Lent
<1> QED
  BY <1>3, <1>4, <1>5, <1>6, <1>7 DEF IInv

LEMMA KeepUnlist ==
  ASSUME IInv, NEW h \in Handles, Unlist(h)
  PROVE  IInv'
<1> USE DEF Set, Holding, Getting, Dying
<1>1. TypeOK /\ Counts /\ Death /\ Block /\ Loans
  BY DEF IInv
<1>2. /\ refs >= -1 /\ weakRefs >= -1
      /\ refs > -1 <=> \E k \in Handles : state[k] = "strong"
      /\ weakRefs > -1 <=> own \/ \E k \in Handles : state[k] = "weak"
  BY <1>1, CountsMean
<1>3. TypeOK'
  BY <1>1 DEF Unlist, TypeOK, State
<1>4. Counts'
  <2> DEFINE s == "destroying"
  <2>1. Set(h, s) /\ own' \in BOOLEAN
    BY <1>3 DEF Unlist, TypeOK
  <2>2. refs' = refs + (IF s = "strong" THEN 1 ELSE 0)
                     - (IF state[h] = "strong" THEN 1 ELSE 0)
    BY <1>1, <1>2 DEF Unlist, TypeOK
  <2>3. weakRefs' = weakRefs + (IF s = "weak" THEN 1 ELSE 0)
                             - (IF state[h] = "weak" THEN 1 ELSE 0)
                             + (IF own' THEN 1 ELSE 0) - (IF own THEN 1 ELSE 0)
    BY <1>1, <1>2 DEF Unlist, TypeOK, Death
  <2> HIDE DEF s, Set
  <2> QED
    BY <1>1, <2>1, <2>2, <2>3, CountsStep
<1>5. Death'
  BY <1>1, <1>2 DEF Unlist, TypeOK, Death
<1>6. Block'
  BY <1>1, <1>2 DEF Unlist, TypeOK, Death, Block, Loans
<1>7. Loans'
  BY <1>1, <1>2 DEF Unlist, TypeOK, Loans, Lent
<1> QED
  BY <1>3, <1>4, <1>5, <1>6, <1>7 DEF IInv

LEMMA KeepDestroy ==
  ASSUME IInv, NEW h \in Handles, Destroy(h)
  PROVE  IInv'
<1> USE DEF Set, Holding, Getting, Dying
<1>1. TypeOK /\ Counts /\ Death /\ Block /\ Loans
  BY DEF IInv
<1>2. /\ refs >= -1 /\ weakRefs >= -1
      /\ refs > -1 <=> \E k \in Handles : state[k] = "strong"
      /\ weakRefs > -1 <=> own \/ \E k \in Handles : state[k] = "weak"
  BY <1>1, CountsMean
<1>3. TypeOK'
  BY <1>1 DEF Destroy, TypeOK, State
<1>4. Counts'
  <2> DEFINE s == "dropping"
  <2>1. Set(h, s) /\ own' \in BOOLEAN
    BY <1>3 DEF Destroy, TypeOK
  <2>2. refs' = refs + (IF s = "strong" THEN 1 ELSE 0)
                     - (IF state[h] = "strong" THEN 1 ELSE 0)
    BY <1>1, <1>2 DEF Destroy, TypeOK
  <2>3. weakRefs' = weakRefs + (IF s = "weak" THEN 1 ELSE 0)
                             - (IF state[h] = "weak" THEN 1 ELSE 0)
                             + (IF own' THEN 1 ELSE 0) - (IF own THEN 1 ELSE 0)
    BY <1>1, <1>2 DEF Destroy, TypeOK, Death
  <2> HIDE DEF s, Set
  <2> QED
    BY <1>1, <2>1, <2>2, <2>3, CountsStep
<1>5. Death'
  BY <1>1, <1>2 DEF Destroy, TypeOK, Death
<1>6. Block'
  BY <1>1, <1>2 DEF Destroy, TypeOK, Death, Block, Loans
<1>7. Loans'
  BY <1>1, <1>2 DEF Destroy, TypeOK, Loans, Lent
<1> QED
  BY <1>3, <1>4, <1>5, <1>6, <1>7 DEF IInv

LEMMA KeepDropOwn ==
  ASSUME IInv, NEW h \in Handles, DropOwn(h)
  PROVE  IInv'
<1> USE DEF Set, Holding, Getting, Dying
<1>1. TypeOK /\ Counts /\ Death /\ Block /\ Loans
  BY DEF IInv
<1>2. /\ refs >= -1 /\ weakRefs >= -1
      /\ refs > -1 <=> \E k \in Handles : state[k] = "strong"
      /\ weakRefs > -1 <=> own \/ \E k \in Handles : state[k] = "weak"
  BY <1>1, CountsMean
<1>3. TypeOK'
  <2>1. own' \in BOOLEAN
    BY DEF DropOwn
  <2>2. weakRefs' \in Int /\ state' \in [Handles -> State]
    BY <1>1 DEF DropOwn, TypeOK, State
  <2> QED
    BY <1>1, <2>1, <2>2 DEF DropOwn, TypeOK
<1>4. Counts'
  <2> DEFINE s == IF weakRefs = 0 THEN "freeing" ELSE "none"
  <2>1. Set(h, s) /\ own' \in BOOLEAN
    BY <1>3 DEF DropOwn, TypeOK
  <2>2. refs' = refs + (IF s = "strong" THEN 1 ELSE 0)
                     - (IF state[h] = "strong" THEN 1 ELSE 0)
    BY <1>1, <1>2 DEF DropOwn, TypeOK
  <2>3. weakRefs' = weakRefs + (IF s = "weak" THEN 1 ELSE 0)
                             - (IF state[h] = "weak" THEN 1 ELSE 0)
                             + (IF own' THEN 1 ELSE 0) - (IF own THEN 1 ELSE 0)
    BY <1>1, <1>2 DEF DropOwn, TypeOK, Death
  <2> HIDE DEF s, Set
  <2> QED
    BY <1>1, <2>1, <2>2, <2>3, CountsStep
<1>5. Death'
  BY <1>1, <1>2 DEF DropOwn, TypeOK, Death
<1>6. Block'
  BY <1>1, <1>2 DEF DropOwn, TypeOK, Death, Block, Loans
<1>7. Loans'
  BY <1>1, <1>2 DEF DropOwn, TypeOK, Loans, Lent
<1> QED
  BY <1>3, <1>4, <1>5, <1>6, <1>7 DEF IInv

LEMMA KeepAddWeak ==
  ASSUME IInv, NEW g \in Handles, NEW h \in Handles, AddWeak(g, h)
  PROVE  IInv'
<1> USE DEF Set, Holding, Getting, Dying
<1>1. TypeOK /\ Counts /\ Death /\ Block /\ Loans
  BY DEF IInv
<1>2. /\ refs >= -1 /\ weakRefs >= -1
      /\ refs > -1 <=> \E k \in Handles : state[k] = "strong"
      /\ weakRefs > -1 <=> own \/ \E k \in Handles : state[k] = "weak"
  BY <1>1, CountsMean
<1>3. TypeOK'
  BY <1>1 DEF AddWeak, TypeOK, State
<1>4. Counts'
  <2> DEFINE s == "weak"
  <2>1. Set(h, s) /\ own' \in BOOLEAN
    BY <1>3 DEF AddWeak, TypeOK
  <2>2. refs' = refs + (IF s = "strong" THEN 1 ELSE 0)
                     - (IF state[h] = "strong" THEN 1 ELSE 0)
    BY <1>1, <1>2 DEF AddWeak, TypeOK
  <2>3. weakRefs' = weakRefs + (IF s = "weak" THEN 1 ELSE 0)
                             - (IF state[h] = "weak" THEN 1 ELSE 0)
                             + (IF own' THEN 1 ELSE 0) - (IF own THEN 1 ELSE 0)
    BY <1>1, <1>2 DEF AddWeak, TypeOK, Death
  <2> HIDE DEF s, Set
  <2> QED
    BY <1>1, <2>1, <2>2, <2>3, CountsStep
<1>5. Death'
  BY <1>1, <1>2 DEF AddWeak, TypeOK, Death
<1>6. Block'
  BY <1>1, <1>2 DEF AddWeak, TypeOK, Death, Block, Loans
<1>7. Loans'
  BY <1>1, <1>2 DEF AddWeak, TypeOK, Loans, Lent
<1> QED
  BY <1>3, <1>4, <1>5, <1>6, <1>7 DEF IInv

LEMMA KeepReleaseWeak ==
  ASSUME IInv, NEW h \in Handles, ReleaseWeak(h)
  PROVE  IInv'
<1> USE DEF Set, Holding, Getting, Dying
<1>1. TypeOK /\ Counts /\ Death /\ Block /\ Loans
  BY DEF IInv
<1>2. /\ refs >= -1 /\ weakRefs >= -1
      /\ refs > -1 <=> \E k \in Handles : state[k] = "strong"
      /\ weakRefs > -1 <=> own \/ \E k \in Handles : state[k] = "weak"
  BY <1>1, CountsMean
<1>3. TypeOK'
  BY <1>1 DEF ReleaseWeak, TypeOK, State
<1>4. Counts'
  <2> DEFINE s == IF weakRefs = 0 THEN "freeing" ELSE "none"
  <2>1. Set(h, s) /\ own' \in BOOLEAN
    BY <1>3 DEF ReleaseWeak, TypeOK
  <2>2. refs' = refs + (IF s = "strong" THEN 1 ELSE 0)
                     - (IF state[h] = "strong" THEN 1 ELSE 0)
    BY <1>1, <1>2 DEF ReleaseWeak, TypeOK
  <2>3. weakRefs' = weakRefs + (IF s = "weak" THEN 1 ELSE 0)
                             - (IF state[h] = "weak" THEN 1 ELSE 0)
                             + (IF own' THEN 1 ELSE 0) - (IF own THEN 1 ELSE 0)
    BY <1>1, <1>2 DEF ReleaseWeak, TypeOK, Death
  <2> HIDE DEF s, Set
  <2> QED
    BY <1>1, <2>1, <2>2, <2>3, CountsStep
<1>5. Death'
  BY <1>1, <1>2 DEF ReleaseWeak, TypeOK, Death
<1>6. Block'
  BY <1>1, <1>2 DEF ReleaseWeak, TypeOK, Death, Block, Loans
<1>7. Loans'
  BY <1>1, <1>2 DEF ReleaseWeak, TypeOK, Loans, Lent
<1> QED
  BY <1>3, <1>4, <1>5, <1>6, <1>7 DEF IInv

LEMMA KeepFree ==
  ASSUME IInv, NEW h \in Handles, Free(h)
  PROVE  IInv'
<1> USE DEF Set, Holding, Getting, Dying
<1>1. TypeOK /\ Counts /\ Death /\ Block /\ Loans
  BY DEF IInv
<1>2. /\ refs >= -1 /\ weakRefs >= -1
      /\ refs > -1 <=> \E k \in Handles : state[k] = "strong"
      /\ weakRefs > -1 <=> own \/ \E k \in Handles : state[k] = "weak"
  BY <1>1, CountsMean
<1>3. TypeOK'
  BY <1>1 DEF Free, TypeOK, State
<1>4. Counts'
  <2> DEFINE s == "none"
  <2>1. Set(h, s) /\ own' \in BOOLEAN
    BY <1>3 DEF Free, TypeOK
  <2>2. refs' = refs + (IF s = "strong" THEN 1 ELSE 0)
                     - (IF state[h] = "strong" THEN 1 ELSE 0)
    BY <1>1, <1>2 DEF Free, TypeOK
  <2>3. weakRefs' = weakRefs + (IF s = "weak" THEN 1 ELSE 0)
                             - (IF state[h] = "weak" THEN 1 ELSE 0)
                             + (IF own' THEN 1 ELSE 0) - (IF own THEN 1 ELSE 0)
    BY <1>1, <1>2 DEF Free, TypeOK, Death
  <2> HIDE DEF s, Set
  <2> QED
    BY <1>1, <2>1, <2>2, <2>3, CountsStep
<1>5. Death'
  BY <1>1, <1>2 DEF Free, TypeOK, Death
<1>6. Block'
  BY <1>1, <1>2 DEF Free, TypeOK, Death, Block, Loans
<1>7. Loans'
  BY <1>1, <1>2 DEF Free, TypeOK, Loans, Lent
<1> QED
  BY <1>3, <1>4, <1>5, <1>6, <1>7 DEF IInv

LEMMA KeepGetRef ==
  ASSUME IInv, NEW g \in Handles, NEW h \in Handles, GetRef(g, h)
  PROVE  IInv'
<1> USE DEF Set, Holding, Getting, Dying
<1>1. TypeOK /\ Counts /\ Death /\ Block /\ Loans
  BY DEF IInv
<1>2. /\ refs >= -1 /\ weakRefs >= -1
      /\ refs > -1 <=> \E k \in Handles : state[k] = "strong"
      /\ weakRefs > -1 <=> own \/ \E k \in Handles : state[k] = "weak"
  BY <1>1, CountsMean
<1>3. TypeOK'
  BY <1>1 DEF GetRef, TypeOK, State
<1>4. Counts'
  <2> DEFINE s == "reading"
  <2>1. Set(h, s) /\ own' \in BOOLEAN
    BY <1>3 DEF GetRef, TypeOK
  <2>2. refs' = refs + (IF s = "strong" THEN 1 ELSE 0)
                     - (IF state[h] = "strong" THEN 1 ELSE 0)
    BY <1>1, <1>2 DEF GetRef, TypeOK
  <2>3. weakRefs' = weakRefs + (IF s = "weak" THEN 1 ELSE 0)
                             - (IF state[h] = "weak" THEN 1 ELSE 0)
                             + (IF own' THEN 1 ELSE 0) - (IF own THEN 1 ELSE 0)
    BY <1>1, <1>2 DEF GetRef, TypeOK, Death
  <2> HIDE DEF s, Set
  <2> QED
    BY <1>1, <2>1, <2>2, <2>3, CountsStep
<1>5. Death'
  BY <1>1, <1>2 DEF GetRef, TypeOK, Death
<1>6. Block'
  BY <1>1, <1>2 DEF GetRef, TypeOK, Death, Block, Loans
<1>7. Loans'
  BY <1>1, <1>2 DEF GetRef, TypeOK, Loans, Lent
<1> QED
  BY <1>3, <1>4, <1>5, <1>6, <1>7 DEF IInv

LEMMA KeepLookUp ==
  ASSUME IInv, NEW h \in Handles, LookUp(h)
  PROVE  IInv'
<1> USE DEF Set, Holding, Getting, Dying
<1>1. TypeOK /\ Counts /\ Death /\ Block /\ Loans
  BY DEF IInv
<1>2. /\ refs >= -1 /\ weakRefs >= -1
      /\ refs > -1 <=> \E k \in Handles : state[k] = "strong"
      /\ weakRefs > -1 <=> own \/ \E k \in Handles : state[k] = "weak"
  BY <1>1, CountsMean
<1>3. TypeOK'
  BY <1>1 DEF LookUp, TypeOK, State
<1>4. Counts'
  <2> DEFINE s == "reading"
  <2>1. Set(h, s) /\ own' \in BOOLEAN
    BY <1>3 DEF LookUp, TypeOK
  <2>2. refs' = refs + (IF s = "strong" THEN 1 ELSE 0)
                     - (IF state[h] = "strong" THEN 1 ELSE 0)
    BY <1>1, <1>2 DEF LookUp, TypeOK
  <2>3. weakRefs' = weakRefs + (IF s = "weak" THEN 1 ELSE 0)
                             - (IF state[h] = "weak" THEN 1 ELSE 0)
                             + (IF own' THEN 1 ELSE 0) - (IF own THEN 1 ELSE 0)
    BY <1>1, <1>2 DEF LookUp, TypeOK, Death
  <2> HIDE DEF s, Set
  <2> QED
    BY <1>1, <2>1, <2>2, <2>3, CountsStep
<1>5. Death'
  BY <1>1, <1>2 DEF LookUp, TypeOK, Death
<1>6. Block'
  BY <1>1, <1>2 DEF LookUp, TypeOK, Death, Block, Loans
<1>7. Loans'
  BY <1>1, <1>2 DEF LookUp, TypeOK, Loans, Lent
<1> QED
  BY <1>3, <1>4, <1>5, <1>6, <1>7 DEF IInv

LEMMA KeepRead ==
  ASSUME IInv, NEW h \in Handles, Read(h)
  PROVE  IInv'
<1> USE DEF Set, Holding, Getting, Dying
<1>1. TypeOK /\ Counts /\ Death /\ Block /\ Loans
  BY DEF IInv
<1>2. /\ refs >= -1 /\ weakRefs >= -1
      /\ refs > -1 <=> \E k \in Handles : state[k] = "strong"
      /\ weakRefs > -1 <=> own \/ \E k \in Handles : state[k] = "weak"
  BY <1>1, CountsMean
<1>3. TypeOK'
  BY <1>1 DEF Read, TypeOK, State
<1>4. Counts'
  <2> DEFINE s == "swapping"
  <2>1. Set(h, s) /\ own' \in BOOLEAN
    BY <1>3 DEF Read, TypeOK
  <2>2. refs' = refs + (IF s = "strong" THEN 1 ELSE 0)
                     - (IF state[h] = "strong" THEN 1 ELSE 0)
    BY <1>1, <1>2 DEF Read, TypeOK
  <2>3. weakRefs' = weakRefs + (IF s = "weak" THEN 1 ELSE 0)
                             - (IF state[h] = "weak" THEN 1 ELSE 0)
                             + (IF own' THEN 1 ELSE 0) - (IF own THEN 1 ELSE 0)
    BY <1>1, <1>2 DEF Read, TypeOK, Death
  <2> HIDE DEF s, Set
  <2> QED
    BY <1>1, <2>1, <2>2, <2>3, CountsStep
<1>5. Death'
  BY <1>1, <1>2 DEF Read, TypeOK, Death
<1>6. Block'
  BY <1>1, <1>2 DEF Read, TypeOK, Death, Block, Loans
<1>7. Loans'
  BY <1>1, <1>2 DEF Read, TypeOK, Loans, Lent
<1> QED
  BY <1>3, <1>4, <1>5, <1>6, <1>7 DEF IInv

LEMMA KeepReadNoOwner ==
  ASSUME IInv, NEW h \in Handles, ReadNoOwner(h)
  PROVE  IInv'
<1> USE DEF Set, Holding, Getting, Dying
<1>1. TypeOK /\ Counts /\ Death /\ Block /\ Loans
  BY DEF IInv
<1>2. /\ refs >= -1 /\ weakRefs >= -1
      /\ refs > -1 <=> \E k \in Handles : state[k] = "strong"
      /\ weakRefs > -1 <=> own \/ \E k \in Handles : state[k] = "weak"
  BY <1>1, CountsMean
<1>3. TypeOK'
  BY <1>1 DEF ReadNoOwner, Leave, TypeOK, State
<1>4. Counts'
  <2> DEFINE s == "none"
  <2>1. Set(h, s) /\ own' \in BOOLEAN
    BY <1>3 DEF ReadNoOwner, Leave, TypeOK
  <2>2. refs' = refs + (IF s = "strong" THEN 1 ELSE 0)
                     - (IF state[h] = "strong" THEN 1 ELSE 0)
    BY <1>1, <1>2 DEF ReadNoOwner, Leave, TypeOK
  <2>3. weakRefs' = weakRefs + (IF s = "weak" THEN 1 ELSE 0)
                             - (IF state[h] = "weak" THEN 1 ELSE 0)
                             + (IF own' THEN 1 ELSE 0) - (IF own THEN 1 ELSE 0)
    BY <1>1, <1>2 DEF ReadNoOwner, Leave, TypeOK, Death
  <2> HIDE DEF s, Set
  <2> QED
    BY <1>1, <2>1, <2>2, <2>3, CountsStep
<1>5. Death'
  BY <1>1, <1>2 DEF ReadNoOwner, Leave, TypeOK, Death
<1>6. Block'
  BY <1>1, <1>2 DEF ReadNoOwner, Leave, TypeOK, Death, Block, Loans
<1>7. Loans'
  BY <1>1, <1>2 DEF ReadNoOwner, Leave, TypeOK, Loans, Lent
<1> QED
  BY <1>3, <1>4, <1>5, <1>6, <1>7 DEF IInv

LEMMA KeepSwap ==
  ASSUME IInv, NEW h \in Handles, Swap(h)
  PROVE  IInv'
<1> USE DEF Set, Holding, Getting, Dying
<1>1. TypeOK /\ Counts /\ Death /\ Block /\ Loans
  BY DEF IInv
<1>2. /\ refs >= -1 /\ weakRefs >= -1
      /\ refs > -1 <=> \E k \in Handles : state[k] = "strong"
      /\ weakRefs > -1 <=> own \/ \E k \in Handles : state[k] = "weak"
  BY <1>1, CountsMean
<1>3. TypeOK'
  BY <1>1 DEF Swap, Leave, TypeOK, State
<1>4. Counts'
  <2> DEFINE s == "strong"
  <2>1. Set(h, s) /\ own' \in BOOLEAN
    BY <1>3 DEF Swap, Leave, TypeOK
  <2>2. refs' = refs + (IF s = "strong" THEN 1 ELSE 0)
                     - (IF state[h] = "strong" THEN 1 ELSE 0)
    BY <1>1, <1>2 DEF Swap, Leave, TypeOK
  <2>3. weakRefs' = weakRefs + (IF s = "weak" THEN 1 ELSE 0)
                             - (IF state[h] = "weak" THEN 1 ELSE 0)
                             + (IF own' THEN 1 ELSE 0) - (IF own THEN 1 ELSE 0)
    BY <1>1, <1>2 DEF Swap, Leave, TypeOK, Death
  <2> HIDE DEF s, Set
  <2> QED
    BY <1>1, <2>1, <2>2, <2>3, CountsStep
<1>5. Death'
  BY <1>1, <1>2 DEF Swap, Leave, TypeOK, Death, Loans
<1>6. Block'
  BY <1>1, <1>2 DEF Swap, Leave, TypeOK, Death, Block, Loans
<1>7. Loans'
  BY <1>1, <1>2 DEF Swap, Leave, TypeOK, Loans, Lent
<1> QED
  BY <1>3, <1>4, <1>5, <1>6, <1>7 DEF IInv

LEMMA KeepSwapFails ==
  ASSUME IInv, NEW h \in Handles, SwapFails(h)
  PROVE  IInv'
<1> USE DEF Set, Holding, Getting, Dying
<1>1. TypeOK /\ Counts /\ Death /\ Block /\ Loans
  BY DEF IInv
<1>2. /\ refs >= -1 /\ weakRefs >= -1
      /\ refs > -1 <=> \E k \in Handles : state[k] = "strong"
      /\ weakRefs > -1 <=> own \/ \E k \in Handles : state[k] = "weak"
  BY <1>1, CountsMean
<1>3. TypeOK'
  BY <1>1 DEF SwapFails, TypeOK, State
<1>4. Counts'
  <2> DEFINE s == "reading"
  <2>1. Set(h, s) /\ own' \in BOOLEAN
    BY <1>3 DEF SwapFails, TypeOK
  <2>2. refs' = refs + (IF s = "strong" THEN 1 ELSE 0)
                     - (IF state[h] = "strong" THEN 1 ELSE 0)
    BY <1>1, <1>2 DEF SwapFails, TypeOK
  <2>3. weakRefs' = weakRefs + (IF s = "weak" THEN 1 ELSE 0)
                             - (IF state[h] = "weak" THEN 1 ELSE 0)
                             + (IF own' THEN 1 ELSE 0) - (IF own THEN 1 ELSE 0)
    BY <1>1, <1>2 DEF SwapFails, TypeOK, Death
  <2> HIDE DEF s, Set
  <2> QED
    BY <1>1, <2>1, <2>2, <2>3, CountsStep
<1>5. Death'
  BY <1>1, <1>2 DEF SwapFails, TypeOK, Death
<1>6. Block'
  BY <1>1, <1>2 DEF SwapFails, TypeOK, Death, Block, Loans
<1>7. Loans'
  BY <1>1, <1>2 DEF SwapFails, TypeOK, Loans, Lent
<1> QED
  BY <1>3, <1>4, <1>5, <1>6, <1>7 DEF IInv

LEMMA NextIInv == IInv /\ [Next]_vars => IInv'
<1> SUFFICES ASSUME IInv, [Next]_vars PROVE IInv'
  OBVIOUS
<1>1. CASE UNCHANGED vars
  BY <1>1 DEF vars, IInv, TypeOK, Counts, Death, Block, Loans, Strong, Weak, In
<1>2. ASSUME NEW g \in Handles, NEW h \in Handles, AddRef(g, h) PROVE IInv'
  BY <1>2, KeepAddRef
<1>3. ASSUME NEW h \in Handles, Release(h) PROVE IInv'
  BY <1>3, KeepRelease
<1>4. ASSUME NEW h \in Handles, Unlist(h) PROVE IInv'
  BY <1>4, KeepUnlist
<1>5. ASSUME NEW h \in Handles, Destroy(h) PROVE IInv'
  BY <1>5, KeepDestroy
<1>6. ASSUME NEW h \in Handles, DropOwn(h) PROVE IInv'
  BY <1>6, KeepDropOwn
<1>7. ASSUME NEW g \in Handles, NEW h \in Handles, AddWeak(g, h) PROVE IInv'
  BY <1>7, KeepAddWeak
<1>8. ASSUME NEW h \in Handles, ReleaseWeak(h) PROVE IInv'
  BY <1>8, KeepReleaseWeak
<1>9. ASSUME NEW h \in Handles, Free(h) PROVE IInv'
  BY <1>9, KeepFree
<1>10. ASSUME NEW g \in Handles, NEW h \in Handles, GetRef(g, h) PROVE IInv'
  BY <1>10, KeepGetRef
<1>11. ASSUME NEW h \in Handles, LookUp(h) PROVE IInv'
  BY <1>11, KeepLookUp
<1>12. ASSUME NEW h \in Handles, Read(h) PROVE IInv'
  BY <1>12, KeepRead
<1>13. ASSUME NEW h \in Handles, ReadNoOwner(h) PROVE IInv'
  BY <1>13, KeepReadNoOwner
<1>14. ASSUME NEW h \in Handles, Swap(h) PROVE IInv'
  BY <1>14, KeepSwap
<1>15. ASSUME NEW h \in Handles, SwapFails(h) PROVE IInv'
  BY <1>15, KeepSwapFails
<1> QED
  BY <1>1, <1>2, <1>3, <1>4, <1>5, <1>6, <1>7, <1>8, <1>9, <1>10, <1>11, <1>12, <1>13, <1>14, <1>15 DEF Next

LEMMA SpecIInv == Spec => []IInv
  BY InitIInv, NextIInv, PTL DEF Spec

-----------------------------------------------------------------------------

(* Every variable of the reference counts keeps its type.                  *)
THEOREM TypeCorrect == Spec => []TypeOK
<1>1. IInv => TypeOK
  BY DEF IInv
<1> QED
  BY <1>1, SpecIInv, PTL

(* No call finds the object or the control block freed, for any number of  *)
(* handles and threads.                                                    *)
THEOREM NoUseAfterFreeCorrect == Spec => []NoUseAfterFree
<1>1. IInv => NoUseAfterFree
  <2> SUFFICES ASSUME IInv PROVE NoUseAfterFree
    OBVIOUS
  <2>1. TypeOK /\ Counts /\ Death /\ Block /\ Loans
    BY DEF IInv
  <2>2. /\ refs > -1 <=> \E k \in Handles : state[k] = "strong"
        /\ weakRefs > -1 <=> own \/ \E k \in Handles : state[k] = "weak"
        /\ refs >= -1 /\ weakRefs >= -1
    BY <2>1, CountsMean
  <2>3. \A h \in Handles : state[h] = "strong" => object = "alive" /\ own
    BY <2>1, <2>2 DEF Death
  <2>4. own => control = "alive"
    BY <2>1, <2>2 DEF Block, TypeOK
  <2>5. \A h \in Handles : state[h] \in Holding => control = "alive"
    BY <2>1, <2>2, <2>3 DEF Block, TypeOK, Holding
  <2>6. \A h \in Handles : state[h] \in Getting => control = "alive"
    BY <2>1, <2>4, <2>5 DEF Loans, Death
  <2>7. \A h \in Handles : state[h] \in Dying => control = "alive"
    BY <2>1, <2>2, <2>4 DEF Death, TypeOK
  <2>8. \A h \in Handles : state[h] = "freeing" => control = "alive"
    BY <2>1 DEF Block
  <2> QED
    BY <2>3, <2>5, <2>6, <2>7, <2>8 DEF NoUseAfterFree
<1> QED
  BY <1>1, SpecIInv, PTL

(* When the last handle lets go, the object and the control block are      *)
(* gone, for any number of handles and threads.                            *)
THEOREM NoLeakCorrect == Spec => []NoLeak
<1>1. IInv => NoLeak
  <2> SUFFICES ASSUME IInv, \A h \in Handles : state[h] = "none"
               PROVE  object = "freed" /\ control = "freed"
    BY DEF NoLeak
  <2>1. TypeOK /\ Counts /\ Death /\ Block
    BY DEF IInv
  <2>2. refs = -1 /\ (weakRefs > -1 <=> own) /\ weakRefs >= -1
    BY <2>1, CountsMean DEF TypeOK
  <2>3. ~own
    BY <2>1, <2>2 DEF Death, Dying
  <2>4. object = "freed"
    BY <2>1, <2>3 DEF Death
  <2>5. weakRefs = -1
    BY <2>1, <2>2, <2>3 DEF TypeOK
  <2> QED
    BY <2>1, <2>4, <2>5 DEF Block
<1> QED
  BY <1>1, SpecIInv, PTL
=============================================================================
