---------------------------- MODULE RecentNonces ----------------------------
(***************************************************************************)
(* What the nonce cache promises: a nonce is refused exactly if its sender *)
(* used it in one of the last Window accepted messages.                    *)
(***************************************************************************)
EXTENDS Sequences, Naturals

CONSTANTS
  Pair,    \* the sender/nonce pairs
  Window,  \* how many accepted pairs are remembered
  None     \* nothing asked yet

VARIABLES
  recent,  \* the remembered pairs, oldest first
  verdict  \* the last question and its answer

vars == <<recent, verdict>>

Init == recent = <<>> /\ verdict = None

Refuse(p) ==
  /\ \E i \in DOMAIN recent : recent[i] = p
  /\ verdict' = [pair |-> p, fresh |-> FALSE]
  /\ UNCHANGED recent

Accept(p) ==
  /\ \A i \in DOMAIN recent : recent[i] # p
  /\ verdict' = [pair |-> p, fresh |-> TRUE]
  /\ recent' = Append(IF Len(recent) < Window THEN recent ELSE Tail(recent), p)

(* A restart forgets everything.                                           *)
Forget == recent' = <<>> /\ verdict' = None

Next == (\E p \in Pair : Refuse(p) \/ Accept(p)) \/ Forget

Spec == Init /\ [][Next]_vars
=============================================================================
