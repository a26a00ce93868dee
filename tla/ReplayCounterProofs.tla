------------------------- MODULE ReplayCounterProofs -------------------------
(***************************************************************************)
(* AcceptedOnce and RefusedOnlyStale, for every number of senders, table   *)
(* entries and counter values.  OneEntry, HighestKept and HighestAccepted  *)
(* make them inductive: without the first a second entry of the sender     *)
(* could let an old counter pass, without the second the entry itself.     *)
(* At the end, the same for a receiver that keeps both tables (AntiReplay).*)
(***************************************************************************)
EXTENDS AntiReplay, NonceCacheProofs

USE ReplayAssumption

(* The initial state.                                                      *)
LEMMA Initially == Init => IInv
<1> SUFFICES ASSUME Init PROVE IInv
    OBVIOUS
<1>1. 0 \in Index
    BY DEF Index
<1>2. TypeOK
    BY <1>1 DEF Init, TypeOK, Nobody, Ctr
<1> QED
    BY <1>2 DEF Init, IInv, AcceptedOnce, RefusedOnlyStale, OneEntry,
       HighestKept, HighestAccepted, Nobody, Knows, Free

(* Advancing the round-robin index keeps it in range.                      *)
LEMMA NextIndex == ASSUME NEW i \in Index PROVE (i + 1) % ReplayCtrSlots \in Index
BY DEF Index

(* The counter stays in its width, and what is handed out is not 0.        *)
LEMMA Issue == ASSUME IInv, NextLocal PROVE IInv'
<1> DEFINE n == IF local = 0 THEN 1 ELSE local
<1>1. n \in Ctr \ {0} /\ (n + 1) % CtrMod \in Ctr
    BY DEF IInv, TypeOK, Ctr
<1>2. issued' = n /\ local' = (n + 1) % CtrMod
    BY DEF NextLocal
<1>3. TypeOK'
    BY <1>1, <1>2 DEF IInv, TypeOK, NextLocal
<1> QED
    BY <1>3 DEF IInv, NextLocal, AcceptedOnce, RefusedOnlyStale, OneEntry,
       HighestKept, HighestAccepted, Knows, Free

(* A refusal changes no table; what is refused is stale.                   *)
LEMMA Refusal ==
  ASSUME IInv, NEW s \in Sender, NEW c \in Ctr, Refuse(s, c)
  PROVE  IInv'
<1>1. TypeOK'
    BY DEF IInv, TypeOK, Refuse
<1>2. RefusedOnlyStale'
  <2>1. CASE c = 0
      BY <2>1 DEF Refuse, RefusedOnlyStale
  <2>2. CASE \E i \in Index : Knows(i, s) /\ c <= table[i].highest
    <3>1. PICK i \in Index : Knows(i, s) /\ c <= table[i].highest
        BY <2>2
    <3>2. table[i] \in Entry
        BY <3>1 DEF IInv, TypeOK, Knows
    <3>3. table[i].highest \in Ctr /\ times[s][table[i].highest] > 0
        BY <3>1, <3>2 DEF IInv, HighestAccepted, Knows, Free, Entry
    <3> QED
        BY <3>1, <3>3 DEF Refuse, RefusedOnlyStale, Ctr
  <2> QED
      BY <2>1, <2>2 DEF Refuse
<1> QED
    BY <1>1, <1>2 DEF IInv, Refuse, AcceptedOnce, OneEntry, HighestKept,
       HighestAccepted, Knows, Free

(* Every accepted counter of a sender is at most that of its entry.        *)
LEMMA AboveHighest ==
  ASSUME IInv, NEW s \in Sender, NEW i \in Index, Knows(i, s),
         NEW d \in Ctr, d > table[i].highest
  PROVE  times[s][d] = 0
<1>1. table[i] \in Entry /\ times[s][d] \in Nat
    BY DEF IInv, TypeOK, Knows
<1>2. \A j \in Index : Knows(j, s) => j = i
    BY DEF IInv, OneEntry
<1>3. ~ (times[s][d] > 0)
    BY <1>1, <1>2 DEF IInv, HighestKept, Entry, Ctr
<1> QED
    BY <1>1, <1>3

(* A sender without an entry has no accepted counter.                      *)
LEMMA NotKnown ==
  ASSUME IInv, NEW s \in Sender, ~ Known(s), NEW d \in Ctr
  PROVE  times[s][d] = 0
<1>1. times[s][d] \in Nat
    BY DEF IInv, TypeOK
<1> QED
    BY <1>1 DEF IInv, HighestKept, Known

(* Counting a message that has not been accepted before.                   *)
LEMMA Counting ==
  ASSUME IInv, NEW s \in Sender, NEW c \in Ctr, times[s][c] = 0,
         times' = Counted(s, c)
  PROVE  /\ times' \in [Sender -> [Ctr -> Nat]]
         /\ \A t \in Sender, d \in Ctr :
              times'[t][d] = IF t = s /\ d = c THEN 1 ELSE times[t][d]
         /\ AcceptedOnce'
<1>1. times \in [Sender -> [Ctr -> Nat]]
    BY DEF IInv, TypeOK
<1>2. times'[s] = [times[s] EXCEPT ![c] = times[s][c] + 1]
    BY <1>1 DEF Counted
<1>3. \A t \in Sender : t # s => times'[t] = times[t]
    BY <1>1 DEF Counted
<1>4. \A t \in Sender, d \in Ctr :
        times'[t][d] = IF t = s /\ d = c THEN 1 ELSE times[t][d]
    BY <1>1, <1>2, <1>3
<1>5. times' \in [Sender -> [Ctr -> Nat]]
    BY <1>1 DEF Counted
<1>6. AcceptedOnce'
    BY <1>4 DEF IInv, AcceptedOnce
<1> QED
    BY <1>4, <1>5, <1>6

(* A higher counter of a known sender.                                     *)
LEMMA Advancing ==
  ASSUME IInv, NEW s \in Sender, NEW c \in Ctr, Advance(s, c)
  PROVE  IInv'
<1>1. PICK i \in Index :
        /\ Knows(i, s) /\ c > table[i].highest
        /\ table' = [table EXCEPT ![i].highest = c]
    BY DEF Advance
<1>2. table[i] \in Entry /\ table[i].sender = s
    BY <1>1 DEF IInv, TypeOK, Knows
<1>3. times[s][c] = 0
    BY <1>1, AboveHighest
<1>4. /\ times' \in [Sender -> [Ctr -> Nat]]
      /\ \A t \in Sender, d \in Ctr :
           times'[t][d] = IF t = s /\ d = c THEN 1 ELSE times[t][d]
      /\ AcceptedOnce'
    BY <1>3, Counting DEF Advance
<1>5. /\ table'[i] = [sender |-> s, highest |-> c]
      /\ \A j \in Index : j # i => table'[j] = table[j]
      /\ table' \in [Index -> Entry \cup {Unused}]
    BY <1>1, <1>2 DEF IInv, TypeOK, Entry
<1>6. table'[i] # Unused
    BY <1>5 DEF Entry
<1>7. TypeOK'
    BY <1>4, <1>5 DEF IInv, TypeOK, Advance
<1>8. \A j \in Index, t \in Sender : Knows(j, t)' <=> Knows(j, t)
    BY <1>1, <1>2, <1>5, <1>6 DEF Knows
<1>9. OneEntry'
    BY <1>8 DEF IInv, OneEntry
<1>10. HighestKept'
  <2> SUFFICES ASSUME NEW t \in Sender, NEW d \in Ctr, times'[t][d] > 0
               PROVE  \E j \in Index : Knows(j, t)' /\ table'[j].highest >= d
      BY DEF HighestKept
  <2>1. CASE t = s /\ d = c
      BY <1>1, <1>5, <1>8, <2>1 DEF Ctr
  <2>2. CASE ~ (t = s /\ d = c)
    <3>1. PICK j \in Index : Knows(j, t) /\ table[j].highest >= d
        BY <1>4, <2>2 DEF IInv, HighestKept
    <3>2. CASE j # i
        BY <1>5, <1>8, <3>1, <3>2
    <3>3. CASE j = i
        BY <1>1, <1>2, <1>5, <1>8, <3>1, <3>3 DEF Ctr, Entry
    <3> QED
        BY <3>2, <3>3
  <2> QED
      BY <2>1, <2>2
<1>11. HighestAccepted'
  <2> SUFFICES ASSUME NEW j \in Index, table'[j] # Unused
               PROVE  times'[table'[j].sender][table'[j].highest] > 0
      BY DEF HighestAccepted, Free
  <2>1. CASE j = i
      BY <1>4, <1>5, <2>1
  <2>2. CASE j # i
    <3>1. table'[j] = table[j] /\ table[j] \in Entry
        BY <1>5, <2>2 DEF IInv, TypeOK
    <3>2. times[table[j].sender][table[j].highest] > 0
        BY <3>1 DEF IInv, HighestAccepted, Free
    <3> QED
        BY <1>4, <3>1, <3>2 DEF Entry
  <2> QED
      BY <2>1, <2>2
<1>12. RefusedOnlyStale'
    BY DEF Advance, RefusedOnlyStale
<1> QED
    BY <1>4, <1>7, <1>9, <1>10, <1>11, <1>12 DEF IInv

(* A sender that is not in the table gets entry i, while the counters of   *)
(* the sender that had it, if any, are forgotten.                          *)
LEMMA Entering ==
  ASSUME IInv, NEW s \in Sender, NEW c \in Ctr, ~ Known(s), NEW i \in Index,
         table' = [table EXCEPT ![i] = [sender |-> s, highest |-> c]],
         times' \in [Sender -> [Ctr -> Nat]],
         \A d \in Ctr : times'[s][d] = IF d = c THEN 1 ELSE 0,
         \A t \in Sender, d \in Ctr : t # s =>
           times'[t][d] = IF Knows(i, t) THEN 0 ELSE times[t][d],
         refused' = {}, rr' \in Index, UNCHANGED <<local, issued>>
  PROVE  IInv'
<1>1. [sender |-> s, highest |-> c] \in Entry
    BY DEF Entry
<1>2. /\ table'[i] = [sender |-> s, highest |-> c]
      /\ table'[i] # Unused
      /\ \A j \in Index : j # i => table'[j] = table[j]
      /\ table' \in [Index -> Entry \cup {Unused}]
    BY <1>1 DEF IInv, TypeOK
<1>3. TypeOK'
    BY <1>2 DEF IInv, TypeOK
<1>4. \A j \in Index, t \in Sender :
        Knows(j, t)' <=> IF j = i THEN t = s ELSE Knows(j, t)
    BY <1>2 DEF Knows
<1>5. \A j \in Index : ~ Knows(j, s)
    BY DEF Known
<1>6. OneEntry'
    BY <1>4, <1>5 DEF IInv, OneEntry
<1>7. AcceptedOnce'
  <2> SUFFICES ASSUME NEW t \in Sender, NEW d \in Ctr
               PROVE  times'[t][d] <= 1
      BY DEF AcceptedOnce
  <2>1. times[t][d] <= 1
      BY DEF IInv, AcceptedOnce
  <2> QED
      BY <2>1
<1>8. HighestKept'
  <2> SUFFICES ASSUME NEW t \in Sender, NEW d \in Ctr, times'[t][d] > 0
               PROVE  \E j \in Index : Knows(j, t)' /\ table'[j].highest >= d
      BY DEF HighestKept
  <2>1. CASE t = s
    <3>1. d = c
        BY <2>1
    <3> QED
        BY <1>2, <1>4, <2>1, <3>1 DEF Ctr
  <2>2. CASE t # s
    <3>1. ~ Knows(i, t) /\ times[t][d] > 0
        BY <2>2
    <3>2. PICK j \in Index : Knows(j, t) /\ table[j].highest >= d
        BY <3>1 DEF IInv, HighestKept
    <3> QED
        BY <1>2, <1>4, <3>1, <3>2
  <2> QED
      BY <2>1, <2>2
<1>9. HighestAccepted'
  <2> SUFFICES ASSUME NEW j \in Index, table'[j] # Unused
               PROVE  times'[table'[j].sender][table'[j].highest] > 0
      BY DEF HighestAccepted, Free
  <2>1. CASE j = i
      BY <1>2, <2>1
  <2>2. CASE j # i
    <3>1. table'[j] = table[j] /\ table[j] \in Entry
        BY <1>2, <2>2 DEF IInv, TypeOK
    <3>2. times[table[j].sender][table[j].highest] > 0
        BY <3>1 DEF IInv, HighestAccepted, Free
    <3>3. table[j].sender \in Sender /\ table[j].highest \in Ctr
        BY <3>1 DEF Entry
    <3>4. Knows(j, table[j].sender)
        BY <3>1 DEF Knows
    <3>5. table[j].sender # s
        BY <1>5, <3>4
    <3>6. ~ Knows(i, table[j].sender)
        BY <2>2, <3>3, <3>4 DEF IInv, OneEntry
    <3> QED
        BY <3>1, <3>2, <3>3, <3>5, <3>6
  <2> QED
      BY <2>1, <2>2
<1>10. RefusedOnlyStale'
    BY DEF RefusedOnlyStale
<1> QED
    BY <1>3, <1>6, <1>7, <1>8, <1>9, <1>10 DEF IInv

(* A new sender in a free entry.                                           *)
LEMMA FreeEntry ==
  ASSUME IInv, NEW s \in Sender, NEW c \in Ctr, Enter(s, c)
  PROVE  IInv'
<1>1. ~ Known(s) /\ times' = Counted(s, c)
    BY DEF Enter
<1>2. PICK i \in Index :
        Free(i) /\ table' = [table EXCEPT ![i] = [sender |-> s, highest |-> c]]
    BY DEF Enter
<1>3. \A d \in Ctr : times[s][d] = 0
    BY <1>1, NotKnown
<1>4. /\ times' \in [Sender -> [Ctr -> Nat]]
      /\ \A t \in Sender, d \in Ctr :
           times'[t][d] = IF t = s /\ d = c THEN 1 ELSE times[t][d]
    BY <1>1, <1>3, Counting
<1>5. \A t \in Sender : ~ Knows(i, t)
    BY <1>2 DEF Knows, Free
<1>6. refused' = {} /\ rr' \in Index /\ UNCHANGED <<local, issued>>
    BY DEF Enter, IInv, TypeOK
<1>7. \A d \in Ctr : times'[s][d] = IF d = c THEN 1 ELSE 0
    BY <1>3, <1>4
<1>8. \A t \in Sender, d \in Ctr : t # s =>
        times'[t][d] = IF Knows(i, t) THEN 0 ELSE times[t][d]
    BY <1>4, <1>5
<1> QED
    BY <1>1, <1>2, <1>4, <1>6, <1>7, <1>8, Entering

(* A new sender in the entry of another one.                               *)
LEMMA TakenEntry ==
  ASSUME IInv, NEW s \in Sender, NEW c \in Ctr, Replace(s, c)
  PROVE  IInv'
<1>1. /\ ~ Known(s)
      /\ table' = [table EXCEPT ![rr] = [sender |-> s, highest |-> c]]
    BY DEF Replace
<1>2. rr \in Index /\ table[rr] \in Entry
    BY DEF Replace, Free, IInv, TypeOK
<1>3. \A d \in Ctr : times[s][d] = 0
    BY <1>1, NotKnown
<1> DEFINE old == table[rr].sender
<1>4. old \in Sender /\ Knows(rr, old) /\ old # s
    BY <1>1, <1>2 DEF Entry, Knows, Known
<1>5. times \in [Sender -> [Ctr -> Nat]]
    BY DEF IInv, TypeOK
<1>6. times' = [Counted(s, c) EXCEPT ![old] = [d \in Ctr |-> 0]]
    BY DEF Replace
<1>7. Counted(s, c) \in [Sender -> [Ctr -> Nat]]
    BY <1>5 DEF Counted
<1>8. times' \in [Sender -> [Ctr -> Nat]]
    BY <1>6, <1>7
<1>9. \A d \in Ctr : times'[s][d] = IF d = c THEN 1 ELSE 0
  <2>1. times'[s] = Counted(s, c)[s]
      BY <1>4, <1>6, <1>7
  <2>2. Counted(s, c)[s] = [times[s] EXCEPT ![c] = times[s][c] + 1]
      BY <1>5 DEF Counted
  <2> QED
      BY <1>3, <1>5, <2>1, <2>2
<1>10. \A t \in Sender, d \in Ctr : t # s =>
         times'[t][d] = IF Knows(rr, t) THEN 0 ELSE times[t][d]
  <2> SUFFICES ASSUME NEW t \in Sender, NEW d \in Ctr, t # s
               PROVE  times'[t][d] = IF Knows(rr, t) THEN 0 ELSE times[t][d]
      OBVIOUS
  <2>1. Knows(rr, t) <=> t = old
      BY <1>4 DEF Knows
  <2>2. t # old => times'[t] = Counted(s, c)[t] /\ Counted(s, c)[t] = times[t]
      BY <1>5, <1>6, <1>7 DEF Counted
  <2>3. t = old => times'[t] = [e \in Ctr |-> 0]
      BY <1>6, <1>7
  <2> QED
      BY <2>1, <2>2, <2>3
<1>11. refused' = {} /\ rr' \in Index /\ UNCHANGED <<local, issued>>
    BY <1>2, NextIndex DEF Replace
<1> QED
    BY <1>1, <1>2, <1>8, <1>9, <1>10, <1>11, Entering

(* One step.                                                               *)
LEMMA Stepwise == IInv /\ [Next]_vars => IInv'
<1> SUFFICES ASSUME IInv, [Next]_vars PROVE IInv'
    OBVIOUS
<1>1. CASE NextLocal
    BY <1>1, Issue
<1>2. CASE \E s \in Sender, c \in Ctr : ReplayCtrAccept(s, c)
    BY <1>2, Refusal, Advancing, FreeEntry, TakenEntry DEF ReplayCtrAccept
<1>3. CASE Reset
  <2>1. Init'
      BY <1>3 DEF Reset, Init
  <2>2. (Init => IInv)'
      BY Initially, PTL
  <2> QED
      BY <2>1, <2>2
<1>4. CASE UNCHANGED vars
    BY <1>4 DEF vars, IInv, TypeOK, AcceptedOnce, RefusedOnlyStale, OneEntry,
       HighestKept, HighestAccepted, Knows, Free
<1> QED
    BY <1>1, <1>2, <1>3, <1>4 DEF Next

(* The inductive invariant holds in every reachable state.                 *)
THEOREM Inductive == Spec => []IInv
BY Initially, Stepwise, PTL DEF Spec

(* The round-robin index stays in the table, the counters in their width,  *)
(* and the reserved 0 is never handed out (replay_ctr_next_local).         *)
THEOREM Types == Spec => []TypeOK
<1>1. IInv => TypeOK
    BY DEF IInv
<1> QED
    BY <1>1, Inductive, PTL

(* No message is accepted twice while its sender stays in the table        *)
(* (replay_ctr_accept).                                                    *)
THEOREM Once == Spec => []AcceptedOnce
<1>1. IInv => AcceptedOnce
    BY DEF IInv
<1> QED
    BY <1>1, Inductive, PTL

(* Only stale messages are refused (replay_ctr_accept).                    *)
THEOREM OnlyStale == Spec => []RefusedOnlyStale
<1>1. IInv => RefusedOnlyStale
    BY DEF IInv
<1> QED
    BY <1>1, Inductive, PTL
-----------------------------------------------------------------------------
(* Both tables in one receiver: a call to one leaves the other alone, and  *)
(* the reset is the reset of each.                                         *)
LEMMA EachTable == TablesSpec => Spec /\ NonceSpec
<1>1. TablesInit => Init /\ NonceInit
    BY DEF TablesInit
<1>2. [TablesNext]_<<vars, nonceVars>> => [Next]_vars /\ [NonceNext]_nonceVars
    BY DEF TablesNext, Next, NonceNext
<1> QED
    BY <1>1, <1>2, PTL DEF TablesSpec, Spec, NonceSpec

(* A receiver with both tables (security.c) keeps the promises of each,    *)
(* however calls of nonce_accept, replay_ctr_accept and                    *)
(* replay_ctr_next_local follow each other, and across restarts.           *)
THEOREM BothTables ==
  TablesSpec => /\ [](NonceTypeOK /\ TypeOK /\ AcceptedOnce /\ RefusedOnlyStale)
                /\ ImplementsRecentNonces
BY EachTable, NonceTypes, Types, Once, OnlyStale, Window, PTL
=============================================================================
