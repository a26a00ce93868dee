--------------------------- MODULE NonceCacheProofs ---------------------------
(***************************************************************************)
(* The nonce cache keeps its types and implements the sliding window of    *)
(* RecentNonces, for any number of entries and pairs.                      *)
(***************************************************************************)
EXTENDS NonceCache, FiniteSetTheorems, SequenceTheorems, TLAPS

LEMMA Slots == NonceCacheSlots \in Nat \ {0}
BY NonceAssumption

(* The index moves on by one, and starts again after the last entry.       *)
LEMMA NextSlot ==
  ASSUME NEW i \in Slot
  PROVE  (i + 1) % NonceCacheSlots =
           IF i + 1 = NonceCacheSlots THEN 0 ELSE i + 1
BY Slots DEF Slot

-----------------------------------------------------------------------------
(* The invariant.                                                          *)

LEMMA NonceInitially == NonceInit => NonceIInv
<1> SUFFICES ASSUME NonceInit PROVE NonceIInv
  OBVIOUS
<1>1. NonceTypeOK
  BY Slots DEF NonceInit, NonceTypeOK, Slot
<1>2. FilledTo(0)
  BY DEF NonceInit, FilledTo, IsEmpty, Slot
<1> QED BY <1>1, <1>2, Slots DEF NonceIInv

(* A pair inserted in the first empty entry extends the filled part.       *)
LEMMA Inserted ==
  ASSUME NonceIInv, NEW p \in Pair, Insert(p),
         NEW n \in 0 .. NonceCacheSlots, FilledTo(n)
  PROVE  /\ n < NonceCacheSlots
         /\ cache' = [cache EXCEPT ![n] = p]
         /\ nonceRr = 0 /\ nonceRr' = 0
         /\ FilledTo(n + 1)'
<1>1. PICK i \in Slot :
        /\ IsEmpty(i) /\ \A j \in 0 .. i - 1 : ~ IsEmpty(j)
        /\ cache' = [cache EXCEPT ![i] = p]
  BY DEF Insert
<1>2. i = n
  BY <1>1, Slots DEF FilledTo, Slot
<1>3. nonceRr = 0 /\ nonceRr' = 0
  BY <1>2, Slots DEF FilledTo, Insert, Slot
<1>4. \A j \in Slot : IsEmpty(j)' <=> j >= n + 1
  BY <1>1, <1>2, NonceAssumption, Slots
     DEF NonceIInv, NonceTypeOK, FilledTo, IsEmpty, Slot
<1> QED BY <1>1, <1>2, <1>3, <1>4, Slots DEF FilledTo, Slot

(* Overwriting leaves the table full.                                      *)
LEMMA Overwritten ==
  ASSUME NonceIInv, NEW p \in Pair, Overwrite(p),
         NEW n \in 0 .. NonceCacheSlots, FilledTo(n)
  PROVE  /\ n = NonceCacheSlots
         /\ cache' = [cache EXCEPT ![nonceRr] = p]
         /\ nonceRr' = IF nonceRr + 1 = NonceCacheSlots THEN 0 ELSE nonceRr + 1
         /\ FilledTo(n)'
<1>1. n = NonceCacheSlots
  <2>1. SUFFICES ASSUME n # NonceCacheSlots PROVE FALSE
    OBVIOUS
  <2>2. n \in Slot
    BY <2>1, Slots DEF Slot
  <2> QED BY <2>2, Slots DEF FilledTo, Overwrite, Slot
<1>2. nonceRr' = IF nonceRr + 1 = NonceCacheSlots THEN 0 ELSE nonceRr + 1
  BY NextSlot DEF Overwrite, NonceIInv, NonceTypeOK
<1>3. \A j \in Slot : ~ IsEmpty(j)'
  BY <1>1, NonceAssumption, Slots
     DEF Overwrite, NonceIInv, NonceTypeOK, FilledTo, IsEmpty, Slot
<1>4. \A j \in Slot : j < NonceCacheSlots
  BY Slots DEF Slot
<1> QED BY <1>1, <1>2, <1>3, <1>4 DEF Overwrite, FilledTo, Slot

LEMMA NonceInductive == NonceIInv /\ [NonceNext]_nonceVars => NonceIInv'
<1> SUFFICES ASSUME NonceIInv, [NonceNext]_nonceVars PROVE NonceIInv'
  OBVIOUS
<1>1. PICK n \in 0 .. NonceCacheSlots : FilledTo(n)
  BY DEF NonceIInv
<1>2. ASSUME NEW p \in Pair, Reject(p) PROVE NonceIInv'
  <2>1. NonceTypeOK'
    BY <1>2 DEF Reject, Verdict, NonceIInv, NonceTypeOK
  <2>2. FilledTo(n)'
    BY <1>1, <1>2 DEF Reject, FilledTo, IsEmpty
  <2> QED BY <2>1, <2>2 DEF NonceIInv
<1>3. ASSUME NEW p \in Pair, Insert(p) PROVE NonceIInv'
  <2>1. NonceTypeOK'
    BY <1>3 DEF Insert, Verdict, NonceIInv, NonceTypeOK
  <2>2. n < NonceCacheSlots /\ FilledTo(n + 1)'
    BY <1>1, <1>3, Inserted
  <2> QED BY <2>1, <2>2, Slots DEF NonceIInv
<1>4. ASSUME NEW p \in Pair, Overwrite(p) PROVE NonceIInv'
  <2>1. FilledTo(n)' /\ nonceRr' \in Slot
    BY <1>1, <1>4, Overwritten, Slots DEF NonceIInv, NonceTypeOK, Slot
  <2>2. NonceTypeOK'
    BY <1>4, <2>1 DEF Overwrite, Verdict, NonceIInv, NonceTypeOK
  <2> QED BY <2>1, <2>2 DEF NonceIInv
<1>5. CASE NonceReset
  <2>1. NonceInit'
    BY <1>5 DEF NonceReset, NonceInit
  <2>2. (NonceInit => NonceIInv)'
    BY NonceInitially, PTL
  <2> QED BY <2>1, <2>2
<1>6. CASE UNCHANGED nonceVars
  BY <1>1, <1>6 DEF nonceVars, NonceIInv, NonceTypeOK, FilledTo, IsEmpty
<1> QED BY <1>2, <1>3, <1>4, <1>5, <1>6 DEF NonceNext, NonceAccept

LEMMA NonceInvariance == NonceSpec => []NonceIInv
<1> QED BY NonceInitially, NonceInductive, PTL DEF NonceSpec

(* The round-robin index never leaves the table (nonce_accept).            *)
THEOREM NonceTypes == NonceSpec => []NonceTypeOK
<1>1. NonceIInv => NonceTypeOK
  BY DEF NonceIInv
<1> QED BY NonceInvariance, <1>1, PTL

-----------------------------------------------------------------------------
(* The refinement.                                                         *)

LEMMA UsedIs ==
  ASSUME NEW n \in 0 .. NonceCacheSlots, FilledTo(n)
  PROVE  Used = n
<1>1. {i \in Slot : ~ IsEmpty(i)} = 0 .. n - 1
  BY Slots DEF FilledTo, Slot
<1>2. Cardinality(0 .. n - 1) = n
  BY FS_Interval
<1> QED BY <1>1, <1>2 DEF Used

(* The remembered pairs as a sequence.                                     *)
LEMMA View ==
  ASSUME NonceTypeOK, NEW n \in 0 .. NonceCacheSlots, FilledTo(n)
  PROVE  /\ RecentView = [k \in 1 .. n |-> cache[Position(k)]]
         /\ RecentView \in Seq(Pair)
         /\ Len(RecentView) = n
<1>1. RecentView = [k \in 1 .. n |-> cache[Position(k)]]
  BY UsedIs DEF RecentView
<1>2. \A k \in 1 .. n : Position(k) \in Slot /\ ~ IsEmpty(Position(k))
  BY Slots DEF NonceTypeOK, FilledTo, Position, Slot
<1>3. RecentView \in [1 .. n -> Pair]
  BY <1>1, <1>2 DEF NonceTypeOK, IsEmpty
<1>4. RecentView \in Seq(Pair)
  BY <1>3, SeqDef, Slots
<1>5. DOMAIN RecentView = 1 .. n /\ n \in Nat
  BY <1>3, Slots
<1>6. Len(RecentView) = n
  BY <1>4, <1>5, LenProperties
<1> QED BY <1>1, <1>4, <1>6

(* The same after a step.                                                  *)
LEMMA NextView ==
  ASSUME NonceTypeOK', NEW n \in 0 .. NonceCacheSlots, FilledTo(n)'
  PROVE  /\ RecentView' = [k \in 1 .. n |-> cache'[Position(k)']]
         /\ RecentView' \in Seq(Pair)
         /\ Len(RecentView') = n
<1>1. {i \in Slot : ~ IsEmpty(i)'} = 0 .. n - 1
  BY Slots DEF FilledTo, Slot
<1>2. Used' = n
  <2>1. Cardinality(0 .. n - 1) = n
    BY FS_Interval
  <2> QED BY <1>1, <2>1 DEF Used, IsEmpty
<1>3. RecentView' = [k \in 1 .. n |-> cache'[Position(k)']]
  BY <1>2 DEF RecentView
<1>4. ASSUME NEW k \in 1 .. n
      PROVE  Position(k)' \in Slot /\ cache'[Position(k)'] # Empty
  <2>1. nonceRr' \in Slot /\ (n = NonceCacheSlots \/ nonceRr' = 0)
    BY DEF NonceTypeOK, FilledTo
  <2>2. Position(k)' \in Slot /\ Position(k)' < n
    <3> DEFINE r == nonceRr'
    <3>1. r \in 0 .. NonceCacheSlots - 1 /\ k \in 1 .. n /\ n \in 0 .. NonceCacheSlots
          /\ (n = NonceCacheSlots \/ r = 0)
      BY <2>1 DEF Slot
    <3> DEFINE q == IF r + k <= NonceCacheSlots THEN r + k - 1
                                                ELSE r + k - 1 - NonceCacheSlots
    <3>2. Position(k)' = q
      BY DEF Position
    <3> HIDE DEF r
    <3>3. q \in 0 .. NonceCacheSlots - 1 /\ q < n
      BY <3>1, Slots
    <3> QED BY <3>2, <3>3 DEF Slot
  <2>3. \A i \in Slot : cache'[i] = Empty <=> i >= n
    BY DEF FilledTo, IsEmpty
  <2>4. Position(k)' \in Int
    BY <2>2, Slots DEF Slot
  <2> QED BY <2>2, <2>3, <2>4, Slots
<1>5. RecentView' \in [1 .. n -> Pair]
  BY <1>3, <1>4 DEF NonceTypeOK, IsEmpty
<1>6. RecentView' \in Seq(Pair)
  BY <1>5, SeqDef, Slots
<1>7. DOMAIN RecentView' = 1 .. n /\ n \in Nat
  BY <1>5, Slots
<1>8. Len(RecentView') = n
  BY <1>6, <1>7, LenProperties
<1> QED BY <1>3, <1>6, <1>8

(* A pair is in the table exactly if it is among the remembered ones.      *)
LEMMA CachedIsRecent ==
  ASSUME NonceTypeOK, NEW n \in 0 .. NonceCacheSlots, FilledTo(n), NEW p \in Pair
  PROVE  Cached(p) <=> \E k \in DOMAIN RecentView : RecentView[k] = p
<1>1. RecentView = [k \in 1 .. n |-> cache[Position(k)]]
  BY View
<1>2. ASSUME Cached(p) PROVE \E k \in 1 .. n : cache[Position(k)] = p
  <2>1. PICK i \in Slot : cache[i] = p
    BY <1>2 DEF Cached
  <2>2. i < n /\ nonceRr \in Slot
    BY <2>1, NonceAssumption, Slots DEF FilledTo, IsEmpty, Slot, NonceTypeOK
  <2> DEFINE k == IF i >= nonceRr THEN i - nonceRr + 1
                                  ELSE i - nonceRr + 1 + NonceCacheSlots
  <2>3. k \in 1 .. n /\ Position(k) = i
    BY <2>2, Slots DEF FilledTo, Position, Slot
  <2> QED BY <2>1, <2>3
<1>3. \A k \in 1 .. n : Position(k) \in Slot
  BY Slots DEF NonceTypeOK, FilledTo, Position, Slot
<1> QED BY <1>1, <1>2, <1>3 DEF Cached

(* nonce_accept is the sliding window of RecentNonces.                     *)
THEOREM Window == NonceSpec => ImplementsRecentNonces
<1>1. NonceInit => Promise!Init
  <2> SUFFICES ASSUME NonceInit PROVE Promise!Init
    OBVIOUS
  <2>1. NonceTypeOK /\ FilledTo(0)
    BY Slots DEF NonceInit, NonceTypeOK, FilledTo, IsEmpty, Slot
  <2>2. RecentView \in Seq(Pair) /\ Len(RecentView) = 0
    BY <2>1, View, Slots
  <2>3. RecentView = <<>>
    BY <2>2, EmptySeq
  <2> QED BY <2>3 DEF NonceInit, Promise!Init
<1>2. NonceIInv /\ NonceIInv' /\ [NonceNext]_nonceVars
        => [Promise!Next]_(Promise!vars)
  <2> SUFFICES ASSUME NonceIInv, NonceIInv', [NonceNext]_nonceVars
               PROVE  [Promise!Next]_(Promise!vars)
    OBVIOUS
  <2>1. PICK n \in 0 .. NonceCacheSlots : FilledTo(n)
    BY DEF NonceIInv
  <2>2. NonceTypeOK /\ NonceTypeOK'
    BY DEF NonceIInv
  <2> DEFINE r == RecentView
  <2>3. /\ r = [k \in 1 .. n |-> cache[Position(k)]]
        /\ r \in Seq(Pair) /\ Len(r) = n /\ DOMAIN r = 1 .. n
    BY <2>1, <2>2, View
  <2>4. ASSUME NEW p \in Pair, Reject(p) PROVE Promise!Next
    <3>1. r' = r
      BY <2>4 DEF Reject, RecentView, Used, Position, IsEmpty
    <3>2. \E i \in DOMAIN r : r[i] = p
      BY <2>1, <2>2, <2>4, CachedIsRecent DEF Reject
    <3> QED BY <2>4, <3>1, <3>2 DEF Reject, Verdict, Promise!Next, Promise!Refuse
  <2>5. ASSUME NEW p \in Pair, Insert(p) PROVE Promise!Accept(p)
    <3>1. /\ n < NonceCacheSlots /\ FilledTo(n + 1)'
          /\ cache' = [cache EXCEPT ![n] = p]
          /\ nonceRr = 0 /\ nonceRr' = 0
      BY <2>1, <2>5, Inserted
    <3>2. /\ r' = [k \in 1 .. n + 1 |-> cache'[Position(k)']]
          /\ r' \in Seq(Pair) /\ Len(r') = n + 1
      BY <2>2, <3>1, NextView, Slots
    <3>3. \A k \in 1 .. n + 1 : r'[k] = Append(r, p)[k]
      <4>1. ASSUME NEW k \in 1 .. n + 1 PROVE Position(k)' = k - 1
        BY <3>1, Slots DEF Position
      <4>2. ASSUME NEW k \in 1 .. n PROVE Position(k) = k - 1
        BY <3>1, Slots DEF Position
      <4>3. r'[n + 1] = p
        BY <2>2, <3>1, <3>2, <4>1, Slots DEF NonceTypeOK, Slot
      <4>4. ASSUME NEW k \in 1 .. n PROVE r'[k] = r[k]
        BY <2>2, <2>3, <3>1, <3>2, <4>1, <4>2, Slots DEF NonceTypeOK, Slot
      <4> QED BY <2>3, <4>3, <4>4, AppendProperties
    <3>4. r' = Append(r, p)
      BY <2>3, <3>2, <3>3, AppendProperties, SeqEqual
    <3>5. \A i \in DOMAIN r : r[i] # p
      BY <2>1, <2>2, <2>5, CachedIsRecent DEF Insert
    <3> QED BY <2>3, <2>5, <3>1, <3>4, <3>5 DEF Insert, Verdict, Promise!Accept
  <2>6. ASSUME NEW p \in Pair, Overwrite(p) PROVE Promise!Accept(p)
    <3>1. /\ n = NonceCacheSlots /\ FilledTo(n)'
          /\ cache' = [cache EXCEPT ![nonceRr] = p]
          /\ nonceRr' = IF nonceRr + 1 = NonceCacheSlots THEN 0 ELSE nonceRr + 1
      BY <2>1, <2>6, Overwritten
    <3>2. /\ r' = [k \in 1 .. n |-> cache'[Position(k)']]
          /\ r' \in Seq(Pair) /\ Len(r') = n
      BY <2>2, <3>1, NextView
    <3>3. r # <<>> /\ Tail(r) \in Seq(Pair) /\ Len(Tail(r)) = n - 1
          /\ \A i \in 1 .. n - 1 : Tail(r)[i] = r[i + 1]
      <4>1. r # <<>>
        BY <2>3, <3>1, EmptySeq, Slots
      <4> QED BY <2>3, <4>1, HeadTailProperties
    <3>4. \A k \in 1 .. n : r'[k] = Append(Tail(r), p)[k]
      <4>1. ASSUME NEW k \in 1 .. n - 1
            PROVE  /\ Position(k)' = Position(k + 1)
                   /\ Position(k + 1) \in Slot /\ Position(k + 1) # nonceRr
        BY <2>2, <3>1, Slots DEF Position, NonceTypeOK, Slot
      <4>2. Position(n)' = nonceRr
        BY <2>2, <3>1, Slots DEF Position, NonceTypeOK, Slot
      <4>3. r'[n] = p
        BY <2>2, <3>1, <3>2, <4>2, Slots DEF NonceTypeOK
      <4>4. ASSUME NEW k \in 1 .. n - 1 PROVE r'[k] = r[k + 1]
        BY <2>2, <2>3, <3>1, <3>2, <4>1, Slots DEF NonceTypeOK
      <4> QED BY <3>1, <3>3, <4>3, <4>4, AppendProperties, Slots
    <3>5. r' = Append(Tail(r), p)
      <4>1. Append(Tail(r), p) \in Seq(Pair) /\ Len(Append(Tail(r), p)) = n
        BY <3>1, <3>3, AppendProperties, Slots
      <4> QED BY <3>2, <3>4, <4>1, SeqEqual
    <3>6. \A i \in DOMAIN r : r[i] # p
      BY <2>1, <2>2, <2>6, CachedIsRecent DEF Overwrite
    <3>7. ~ (Len(r) < NonceCacheSlots)
      BY <2>3, <3>1, Slots
    <3>8. verdict' = [pair |-> p, fresh |-> TRUE]
      BY <2>6 DEF Overwrite, Verdict
    <3> QED BY <3>5, <3>6, <3>7, <3>8 DEF Promise!Accept
  <2>7. CASE NonceReset
    <3>1. NonceInit'
      BY <2>7 DEF NonceReset, NonceInit
    <3>2. (NonceInit => Promise!Init)'
      BY <1>1, PTL
    <3>3. Promise!Init'
      BY <3>1, <3>2
    <3> QED BY <3>3 DEF Promise!Init, Promise!Next, Promise!Forget
  <2>8. CASE UNCHANGED nonceVars
    BY <2>8 DEF nonceVars, Promise!vars, RecentView, Used, Position, IsEmpty
  <2> QED
    BY <2>4, <2>5, <2>6, <2>7, <2>8 DEF NonceNext, NonceAccept, Promise!Next
<1> QED
  BY <1>1, <1>2, NonceInvariance, PTL
     DEF NonceSpec, ImplementsRecentNonces, Promise!Spec
=============================================================================
