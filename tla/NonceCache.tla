------------------------------ MODULE NonceCache ------------------------------
(***************************************************************************)
(* security.c: nonce_accept over g_nonce_cache, the table of sender/nonce  *)
(* pairs filled from the front and then overwritten round-robin.  A nonce  *)
(* is a whole value of GMAC_NONCE_LEN bytes; nonce_accept turns away every *)
(* other length without looking at the table.  The table lives in RAM.     *)
(***************************************************************************)
EXTENDS Integers, FiniteSets

CONSTANTS
  Pair,             \* sender_id and nonce of a message
  NonceCacheSlots,  \* NONCE_CACHE_SLOTS
  Empty,            \* an entry with used = false
  None              \* nonce_accept not called yet

Slot == 0 .. NonceCacheSlots - 1

ASSUME NonceAssumption ==
  /\ NonceCacheSlots \in 1 .. 255     \* g_nonce_rr_idx is a uint8_t
  /\ Empty \notin Pair
  /\ None \notin [pair : Pair, fresh : BOOLEAN]

VARIABLES
  cache,    \* g_nonce_cache
  nonceRr,  \* g_nonce_rr_idx
  verdict   \* the last call and what it returned

nonceVars == <<cache, nonceRr, verdict>>

NonceInit ==
  /\ cache = [i \in Slot |-> Empty]
  /\ nonceRr = 0
  /\ verdict = None

Verdict(p, fresh) == verdict' = [pair |-> p, fresh |-> fresh]

Cached(p) == \E i \in Slot : cache[i] = p
IsEmpty(i) == cache[i] = Empty

(* An exact replay for the same sender is refused.                         *)
Reject(p) ==
  /\ Cached(p)
  /\ Verdict(p, FALSE)
  /\ UNCHANGED <<cache, nonceRr>>

(* A new pair goes into the first free entry.                              *)
Insert(p) ==
  /\ ~ Cached(p)
  /\ \E i \in Slot :
       /\ IsEmpty(i) /\ \A j \in 0 .. i - 1 : ~ IsEmpty(j)
       /\ cache' = [cache EXCEPT ![i] = p]
  /\ Verdict(p, TRUE)
  /\ UNCHANGED nonceRr

(* Mutants: the index is not advanced; its wrap is one too late.           *)
OverwriteStuck(p) ==
  /\ ~ Cached(p)
  /\ \A i \in Slot : ~ IsEmpty(i)
  /\ cache' = [cache EXCEPT ![nonceRr] = p]
  /\ Verdict(p, TRUE)
  /\ UNCHANGED nonceRr
OverwriteNoWrap(p) ==
  /\ ~ Cached(p)
  /\ \A i \in Slot : ~ IsEmpty(i)
  /\ cache' = [cache EXCEPT ![nonceRr] = p]
  /\ nonceRr' = (nonceRr + 1) % (NonceCacheSlots + 1)
  /\ Verdict(p, TRUE)

(* The cache is full: round-robin.                                         *)
Overwrite(p) ==
  /\ ~ Cached(p)
  /\ \A i \in Slot : ~ IsEmpty(i)
  /\ cache' = [cache EXCEPT ![nonceRr] = p]
  /\ nonceRr' = (nonceRr + 1) % NonceCacheSlots
  /\ Verdict(p, TRUE)

NonceAccept(p) == Reject(p) \/ Insert(p) \/ Overwrite(p)

NonceReset ==
  /\ cache' = [i \in Slot |-> Empty]
  /\ nonceRr' = 0
  /\ verdict' = None

NonceNext == (\E p \in Pair : NonceAccept(p)) \/ NonceReset

NonceSpec == NonceInit /\ [][NonceNext]_nonceVars

-----------------------------------------------------------------------------
(* The index stays in the table.                                           *)
NonceTypeOK ==
  /\ cache \in [Slot -> Pair \cup {Empty}]
  /\ nonceRr \in Slot
  /\ verdict \in [pair : Pair, fresh : BOOLEAN] \cup {None}

(* The remembered pairs, oldest first: from nonceRr around the table,      *)
(* without the entries not used yet.                                       *)
Used == Cardinality({i \in Slot : ~ IsEmpty(i)})
Position(k) ==
  IF nonceRr + k <= NonceCacheSlots THEN nonceRr + k - 1
                                    ELSE nonceRr + k - 1 - NonceCacheSlots
RecentView == [k \in 1 .. Used |-> cache[Position(k)]]

Promise == INSTANCE RecentNonces WITH
  Window <- NonceCacheSlots,
  recent <- RecentView

(* The cache is a sliding window: whatever the order of senders, a replay  *)
(* is refused as long as fewer than NONCE_CACHE_SLOTS newer messages were  *)
(* accepted, and nothing else is refused.                                  *)
ImplementsRecentNonces == Promise!Spec

(* What makes it inductive: the table fills up from the front, and the     *)
(* index only moves once it is full.                                       *)
FilledTo(n) ==
  /\ \A i \in Slot : IsEmpty(i) <=> i >= n
  /\ n = NonceCacheSlots \/ nonceRr = 0

NonceIInv == NonceTypeOK /\ \E n \in 0 .. NonceCacheSlots : FilledTo(n)
=============================================================================
