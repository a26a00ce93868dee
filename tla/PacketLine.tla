------------------------------ MODULE PacketLine ------------------------------
(***************************************************************************)
(* A UART line as the callers of write_packet and read_packet see it: what *)
(* each end is writing and what becomes of it.  No bytes, blocks or ACKs;  *)
(* what the calls return is in AtomicPacket.                               *)
(***************************************************************************)
CONSTANTS
  End,      \* the two ends of the line
  None      \* no packet

VARIABLES
  offer,    \* the packet each end is writing
  state     \* what has become of it: open; taken or passed over by the
            \*   other end's read; or void, spoilt by a write

Idle ==
  /\ offer = [e \in End |-> None]
  /\ state = [e \in End |-> "void"]

(* A write is open to be taken.                                            *)
Open(e) == offer[e] # None /\ state[e] = "open"

(* A write starts.                                                         *)
Offer(e, p) ==
  /\ offer[e] = None
  /\ offer' = [offer EXCEPT ![e] = p]
  /\ state' = [state EXCEPT ![e] = "open"]

(* The other end, which is not writing itself, stops reading the packet:   *)
(* it has taken all of it; or has passed it over, as it is too long for    *)
(* the buffer, or as the reader restarts.  Nobody tells the writer.        *)
Leave(w, r, how) ==
  /\ w # r
  /\ Open(w)
  /\ offer[r] = None
  /\ state' = [state EXCEPT ![w] = how]
  /\ UNCHANGED offer

Take(w, r) == Leave(w, r, "taken")
PassOver(w, r) == Leave(w, r, "passed")

Return(e) == offer' = [offer EXCEPT ![e] = None]

(* The write returns success: its packet has been read.                    *)
Confirm(e) ==
  /\ offer[e] # None
  /\ state[e] = "taken"
  /\ Return(e)
  /\ UNCHANGED state

(* Two writes meet, and the one of end w can no longer be taken.           *)
Spoil(e, w) ==
  /\ e # w
  /\ offer[e] # None
  /\ Open(w)
  /\ state' = [state EXCEPT ![w] = "void"]

(* The write returns failure: the other end's write has spoilt this one,   *)
(* or this one now spoils the other.                                       *)
Refuse(e) ==
  /\ offer[e] # None
  /\ \/ state[e] = "void" /\ UNCHANGED state
     \/ state[e] # "taken" /\ \E w \in End : Spoil(e, w)
  /\ Return(e)
=============================================================================
