---------------------------- MODULE ReplayCounter ----------------------------
(***************************************************************************)
(* security.c: replay_ctr_next_local and replay_ctr_accept, the counters   *)
(* of messages sent and the table g_replay_ctr of the highest counter seen *)
(* of each sender.  Both live in RAM.  The caller may hand in any sender   *)
(* and counter, in any order and as often as it likes.                     *)
(***************************************************************************)
EXTENDS Integers

CONSTANTS
  Sender,          \* sender_id values
  ReplayCtrSlots,  \* REPLAY_CTR_SLOTS
  CtrMod,          \* 2^32, one more than the largest counter
  Unused           \* an entry with used = false

Ctr == 0 .. CtrMod - 1
Index == 0 .. ReplayCtrSlots - 1
Entry == [sender : Sender, highest : Ctr]

ASSUME ReplayAssumption ==
  /\ ReplayCtrSlots \in 1 .. 255      \* g_replay_ctr_rr_idx is a uint8_t
  /\ CtrMod \in Nat \ {0, 1}
  /\ Unused \notin Entry

VARIABLES
  table,    \* g_replay_ctr
  rr,       \* g_replay_ctr_rr_idx
  local,    \* g_local_send_ctr
  issued,   \* what the last replay_ctr_next_local returned
  refused,  \* what the last replay_ctr_accept refused, if it did
  times     \* history: how often each message of each sender was accepted
            \*   since the sender was last entered in the table

vars == <<table, rr, local, issued, refused, times>>
Nobody == [s \in Sender |-> [c \in Ctr |-> 0]]

Init ==
  /\ table = [i \in Index |-> Unused]
  /\ rr = 0
  /\ local = 1
  /\ issued = 1
  /\ refused = {}
  /\ times = Nobody

Knows(i, s) == table[i] # Unused /\ table[i].sender = s
Known(s) == \E i \in Index : Knows(i, s)
Free(i) == table[i] = Unused
Counted(s, c) == [times EXCEPT ![s][c] = @ + 1]

-----------------------------------------------------------------------------
(* Mutant: 0 is not skipped after the counter wraps.                       *)
NextLocalZero ==
  /\ issued' = local
  /\ local' = (local + 1) % CtrMod
  /\ UNCHANGED <<table, rr, refused, times>>

(* replay_ctr_next_local: 0 is reserved.                                   *)
NextLocal ==
  LET c == IF local = 0 THEN 1 ELSE local IN
  /\ issued' = c
  /\ local' = (c + 1) % CtrMod
  /\ UNCHANGED <<table, rr, refused, times>>

(* replay_ctr_accept returns false: counter 0, or not above the highest.   *)
Refuse(s, c) ==
  /\ \/ c = 0
     \/ \E i \in Index : Knows(i, s) /\ c <= table[i].highest
  /\ refused' = {<<s, c>>}
  /\ UNCHANGED <<table, rr, local, issued, times>>

(* Mutant: the highest counter is not kept.                                *)
AdvanceForgets(s, c) ==
  /\ c # 0
  /\ \E i \in Index : Knows(i, s) /\ c > table[i].highest
  /\ refused' = {}
  /\ times' = Counted(s, c)
  /\ UNCHANGED <<table, rr, local, issued>>

(* A higher counter of a sender in the table.                              *)
Advance(s, c) ==
  /\ c # 0
  /\ \E i \in Index :
       /\ Knows(i, s) /\ c > table[i].highest
       /\ table' = [table EXCEPT ![i].highest = c]
  /\ refused' = {}
  /\ times' = Counted(s, c)
  /\ UNCHANGED <<rr, local, issued>>

(* A sender not in the table takes the first free entry.                   *)
Enter(s, c) ==
  /\ c # 0
  /\ ~ Known(s)
  /\ \E i \in Index :
       /\ Free(i) /\ \A j \in 0 .. i - 1 : ~ Free(j)
       /\ table' = [table EXCEPT ![i] = [sender |-> s, highest |-> c]]
  /\ refused' = {}
  /\ times' = Counted(s, c)
  /\ UNCHANGED <<rr, local, issued>>

(* Mutant: only the counter of the entry is replaced.                      *)
ReplaceCtrOnly(s, c) ==
  /\ c # 0
  /\ ~ Known(s)
  /\ \A i \in Index : ~ Free(i)
  /\ table' = [table EXCEPT ![rr].highest = c]
  /\ rr' = (rr + 1) % ReplayCtrSlots
  /\ refused' = {}
  /\ times' = Counted(s, c)
  /\ UNCHANGED <<local, issued>>

(* The table is full: round-robin.  What is known of the sender whose      *)
(* entry is replaced is forgotten.                                         *)
Replace(s, c) ==
  /\ c # 0
  /\ ~ Known(s)
  /\ \A i \in Index : ~ Free(i)
  /\ table' = [table EXCEPT ![rr] = [sender |-> s, highest |-> c]]
  /\ rr' = (rr + 1) % ReplayCtrSlots
  /\ refused' = {}
  /\ times' = [Counted(s, c) EXCEPT ![table[rr].sender] = [d \in Ctr |-> 0]]
  /\ UNCHANGED <<local, issued>>

ReplayCtrAccept(s, c) ==
  Refuse(s, c) \/ Advance(s, c) \/ Enter(s, c) \/ Replace(s, c)

(* A restart: both tables are initialized again.                           *)
Reset ==
  /\ table' = [i \in Index |-> Unused]
  /\ rr' = 0
  /\ local' = 1
  /\ issued' = 1
  /\ refused' = {}
  /\ times' = Nobody

Next ==
  \/ NextLocal
  \/ \E s \in Sender, c \in Ctr : ReplayCtrAccept(s, c)
  \/ Reset

Spec == Init /\ [][Next]_vars

-----------------------------------------------------------------------------
(* Properties.                                                             *)

(* The counters handed out are never the reserved 0, across the wrap too.  *)
TypeOK ==
  /\ table \in [Index -> Entry \cup {Unused}]
  /\ rr \in Index
  /\ local \in Ctr
  /\ issued \in Ctr \ {0}
  /\ refused \in SUBSET (Sender \X Ctr)
  /\ times \in [Sender -> [Ctr -> Nat]]

(* However messages are repeated and reordered, none is accepted twice     *)
(* while its sender stays in the table.                                    *)
AcceptedOnce == \A s \in Sender, c \in Ctr : times[s][c] <= 1

(* Only stale messages are refused: one whose counter is 0 or not above    *)
(* that of a message already accepted from the same sender.                *)
RefusedOnlyStale ==
  \A m \in refused :
    m[2] = 0 \/ \E c \in Ctr : c >= m[2] /\ times[m[1]][c] > 0

(* What makes both inductive: a sender has one entry, and its counter is   *)
(* the highest accepted from that sender.                                  *)
OneEntry ==
  \A i, j \in Index : \A s \in Sender : Knows(i, s) /\ Knows(j, s) => i = j

HighestKept ==
  \A s \in Sender, c \in Ctr :
    times[s][c] > 0 => \E i \in Index : Knows(i, s) /\ table[i].highest >= c

HighestAccepted ==
  \A i \in Index : ~ Free(i) => times[table[i].sender][table[i].highest] > 0

IInv ==
  /\ TypeOK
  /\ AcceptedOnce
  /\ RefusedOnlyStale
  /\ OneEntry
  /\ HighestKept
  /\ HighestAccepted
=============================================================================
