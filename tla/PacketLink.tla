------------------------------ MODULE PacketLink ------------------------------
(***************************************************************************)
(* host_messaging.c: write_packet and read_packet run by the two ends of   *)
(* one UART line, each calling either of them whenever it is idle.  The    *)
(* line is two FIFO channels of tokens.  A token is one data byte or one   *)
(* whole header; an ACK is a header of its own command.                    *)
(*                                                                         *)
(* The UARTs have no FIFO and no flow control, so a header sent to an end  *)
(* that is not reading may be overrun and lost.  Left out: DEBUG_MSG       *)
(* packets and write_hex, which nobody acknowledges; data bytes that look  *)
(* like MSG_MAGIC; a restart of an end that is writing (afterwards nothing *)
(* brings the ACKs of the two ends back in step, and no promise holds).    *)
(***************************************************************************)
EXTENDS Integers, Sequences

CONSTANTS
  End,         \* the two ends of the line
  Packet,      \* the packets they write: a command and a payload each
  Size,        \* the payload bytes of each packet
  Block,       \* the bytes between two ACKs, 256 in the code
  Limit,       \* the values *len has when read_packet is called
  MayRestart,  \* whether an end may restart while it is not writing
  MayOverrun,  \* whether a header can be lost at an end that is not reading
  None,        \* no packet, no result
  Mangled      \* a packet nobody wrote

ASSUME EndAssumption == \E a, b \in End : a # b /\ End = {a, b}

ASSUME LinkAssumption ==
  /\ Size \in [Packet -> Nat]
  /\ Block \in Nat \ {0}
  /\ Limit \subseteq Nat
  /\ MayRestart \in BOOLEAN /\ MayOverrun \in BOOLEAN
  /\ None \notin Packet /\ Mangled \notin Packet /\ None # Mangled

VARIABLES
  pc,      \* where each end is in write_packet or read_packet
  out,     \* write_packet: the packet being written
  sent,    \* write_bytes: the loop counter i
  result,  \* what the last write_packet returned
  len,     \* read_packet: *len
  hdr,     \* read_packet: the header read
  got,     \* read_packet: buf, as far as it has been filled
  took,    \* history: the packet the last successful read_packet returned
  state,   \* history: what has become of the packet in out: open; taken
           \*   by the other end's read_packet; passed, its header read by
           \*   a read_packet that did not finish; or void, its header
           \*   read where an answer was expected
  chan     \* the tokens on their way to each end

vars == <<pc, out, sent, result, len, hdr, got, took, state, chan>>
writeVars == <<out, sent, result>>
readVars == <<len, hdr, got>>
histVars == <<took, state>>

Peer(e) == CHOOSE f \in End : f # e

(* Tokens.                                                                 *)
Header(p) == [kind |-> "header", of |-> p, at |-> 0]
Ack == [kind |-> "ack", of |-> None, at |-> 0]
Data(p, i) == [kind |-> "data", of |-> p, at |-> i]
Body(p) == [i \in 1 .. Size[p] |-> Data(p, i)]

Token ==
  {Header(p) : p \in Packet} \cup {Ack}
    \cup UNION {{Data(p, i) : i \in 1 .. Size[p]} : p \in Packet}

-----------------------------------------------------------------------------
(* The UART as both functions use it.                                      *)

(* End e reads its next token and, in the same step, writes reply.         *)
Move(e, reply) ==
  chan' = [chan EXCEPT ![e] = Tail(@), ![Peer(e)] = @ \o reply]

Write(e, token) == chan' = [chan EXCEPT ![Peer(e)] = Append(@, token)]

(* read_header: data bytes before the header are thrown away.              *)
Waits == {"headerAck", "blockAck", "lastAck", "header"}

Discard(e) ==
  /\ pc[e] \in Waits
  /\ chan[e] # <<>>
  /\ Head(chan[e]).kind = "data"
  /\ Move(e, <<>>)
  /\ UNCHANGED <<pc, writeVars, readVars, histVars>>

(* read_header returns: the next token is a header, or an ACK.             *)
HeaderHere(e) == chan[e] # <<>> /\ Head(chan[e]).kind # "data"

-----------------------------------------------------------------------------
(* write_packet.                                                           *)

BeginWrite(e, p) ==
  /\ pc[e] = "idle"
  /\ \/ Write(e, Header(p))
     \/ MayOverrun /\ pc[Peer(e)] = "idle" /\ UNCHANGED chan
  /\ out' = [out EXCEPT ![e] = p]
  /\ sent' = [sent EXCEPT ![e] = 0]
  /\ result' = [result EXCEPT ![e] = None]
  /\ state' = [state EXCEPT ![e] = "open"]
  /\ pc' = [pc EXCEPT ![e] = "headerAck"]
  /\ UNCHANGED <<readVars, took>>

ReturnFromWrite(e, r) ==
  /\ pc' = [pc EXCEPT ![e] = "idle"]
  /\ out' = [out EXCEPT ![e] = None]
  /\ result' = [result EXCEPT ![e] = r]
  /\ UNCHANGED sent

(* read_ack takes the next header for its answer.  If it is the header of  *)
(* the write the other end is still in, nobody will read that packet.      *)
TakeAnswer(e) ==
  /\ HeaderHere(e)
  /\ Move(e, <<>>)
  /\ state' = IF /\ Head(chan[e]) # Ack
                 /\ out[Peer(e)] # None
                 /\ \A i \in 2 .. Len(chan[e]) : chan[e][i].kind # "header"
                THEN [state EXCEPT ![Peer(e)] = "void"]
                ELSE state
  /\ UNCHANGED <<readVars, took>>

(* read_ack after the header.                                              *)
HeaderReply(e) ==
  /\ pc[e] = "headerAck"
  /\ TakeAnswer(e)
  /\ \/ /\ Head(chan[e]) # Ack
        /\ ReturnFromWrite(e, "noAck")
     \/ /\ Head(chan[e]) = Ack
        /\ Size[out[e]] = 0
        /\ ReturnFromWrite(e, "ok")
     \/ /\ Head(chan[e]) = Ack
        /\ Size[out[e]] > 0
        /\ pc' = [pc EXCEPT ![e] = "send"]
        /\ UNCHANGED writeVars

(* Mutants: write_bytes does not wait between blocks; it sends one byte    *)
(* more than the packet has.                                               *)
AfterByteNoWait(n, size) == IF n = size THEN "lastAck" ELSE "send"
AfterByteOneMore(n, size) ==
  CASE n > size                    -> "lastAck"
    [] n <= size /\ n % Block = 0  -> "blockAck"
    [] OTHER                       -> "send"

(* Where the writer is once n of size bytes are out.                       *)
AfterByte(n, size) ==
  CASE n = size                   -> "lastAck"
    [] n # size /\ n % Block = 0  -> "blockAck"
    [] OTHER                      -> "send"

SendByte(e) ==
  /\ pc[e] = "send"
  /\ Write(e, Data(out[e], sent[e] + 1))
  /\ sent' = [sent EXCEPT ![e] = @ + 1]
  /\ pc' = [pc EXCEPT ![e] = AfterByte(sent[e] + 1, Size[out[e]])]
  /\ UNCHANGED <<out, result, readVars, histVars>>

(* read_ack between blocks.  The test read_ack(..) < 0 never holds, as a   *)
(* missing ACK is the positive MSG_NO_ACK: any header continues the write. *)
BlockReply(e) ==
  /\ pc[e] = "blockAck"
  /\ TakeAnswer(e)
  /\ pc' = [pc EXCEPT ![e] = "send"]
  /\ UNCHANGED writeVars

(* Mutant: the result of the last read_ack is not looked at.               *)
LastReplyAny(e) ==
  /\ pc[e] = "lastAck"
  /\ TakeAnswer(e)
  /\ ReturnFromWrite(e, "ok")

(* read_ack after the last block.                                          *)
LastReply(e) ==
  /\ pc[e] = "lastAck"
  /\ TakeAnswer(e)
  /\ ReturnFromWrite(e, IF Head(chan[e]) = Ack THEN "ok" ELSE "noAck")

-----------------------------------------------------------------------------
(* read_packet.                                                            *)

BeginRead(e, n) ==
  /\ pc[e] = "idle"
  /\ len' = [len EXCEPT ![e] = n]
  /\ pc' = [pc EXCEPT ![e] = "header"]
  /\ UNCHANGED <<writeVars, hdr, got, histVars, chan>>

(* read_packet returns MSG_OK with packet p.                               *)
ReturnPacket(e, p) ==
  /\ pc' = [pc EXCEPT ![e] = "idle"]
  /\ took' = [took EXCEPT ![e] = p]
  /\ state' = [state EXCEPT ![Peer(e)] = "taken"]

(* The packet the other end is writing will not be read.                   *)
PassOver(e) ==
  state' = IF out[Peer(e)] # None /\ state[Peer(e)] = "open"
             THEN [state EXCEPT ![Peer(e)] = "passed"]
             ELSE state

(* read_header returns in read_packet: the header is acknowledged, unless  *)
(* it is an ACK, and then its length is looked at.  *len is not assigned.  *)
ReadHeader(e) ==
  /\ pc[e] = "header"
  /\ HeaderHere(e)
  /\ LET t == Head(chan[e])
         p == t.of
     IN IF t = Ack \/ Size[p] > len[e]
          THEN \* MSG_OK for a bare ACK, MSG_BAD_LEN for a long packet
               /\ Move(e, IF t = Ack THEN <<>> ELSE <<Ack>>)
               /\ pc' = [pc EXCEPT ![e] = "idle"]
               /\ IF t = Ack THEN UNCHANGED state ELSE PassOver(e)
               /\ UNCHANGED <<hdr, got, took>>
          ELSE /\ Move(e, <<Ack>>)
               /\ hdr' = [hdr EXCEPT ![e] = p]
               /\ got' = [got EXCEPT ![e] = <<>>]
               /\ IF Size[p] = 0
                    THEN ReturnPacket(e, p)
                    ELSE /\ pc' = [pc EXCEPT ![e] = "bytes"]
                         /\ UNCHANGED histVars
  /\ UNCHANGED <<writeVars, len>>

(* Mutant: no ACK after the last byte.                                     *)
AcksAtNoLast(n, size) == n % Block = 0

(* The reader acknowledges full blocks, and the end of the payload.        *)
AcksAt(n, size) == n = size \/ n % Block = 0

(* One turn of the loop of read_bytes, with the block ACK that the next    *)
(* turn starts with, or the ACK read_packet sends after the last byte.     *)
ReadByte(e) ==
  /\ pc[e] = "bytes"
  /\ chan[e] # <<>>
  /\ LET n    == Len(got[e]) + 1
         size == Size[hdr[e]]
     IN /\ got' = [got EXCEPT ![e] = Append(@, Head(chan[e]))]
        /\ Move(e, IF AcksAt(n, size) THEN <<Ack>> ELSE <<>>)
        /\ IF n = size
             THEN ReturnPacket(e, IF got'[e] = Body(hdr[e]) THEN hdr[e]
                                  ELSE Mangled)
             ELSE UNCHANGED <<pc, histVars>>
  /\ UNCHANGED <<writeVars, len, hdr>>

(* The device of end e restarts while it is not writing: what it was       *)
(* reading, and what is on its way to it, is lost.                         *)
Restart(e) ==
  /\ MayRestart
  /\ pc[e] \in {"idle", "header", "bytes"}
  /\ pc' = [pc EXCEPT ![e] = "idle"]
  /\ len' = [len EXCEPT ![e] = 0]
  /\ hdr' = [hdr EXCEPT ![e] = None]
  /\ got' = [got EXCEPT ![e] = <<>>]
  /\ chan' = [chan EXCEPT ![e] = <<>>]
  /\ PassOver(e)
  /\ UNCHANGED <<writeVars, took>>

-----------------------------------------------------------------------------
Init ==
  /\ pc = [e \in End |-> "idle"]
  /\ out = [e \in End |-> None]
  /\ sent = [e \in End |-> 0]
  /\ result = [e \in End |-> None]
  /\ len = [e \in End |-> 0]
  /\ hdr = [e \in End |-> None]
  /\ got = [e \in End |-> <<>>]
  /\ took = [e \in End |-> None]
  /\ state = [e \in End |-> "void"]
  /\ chan = [e \in End |-> <<>>]

(* What an end does inside a call; it never waits for anything but a byte. *)
Progress(e) ==
  \/ Discard(e) \/ HeaderReply(e) \/ SendByte(e) \/ BlockReply(e)
  \/ LastReply(e) \/ ReadHeader(e) \/ ReadByte(e)

Next ==
  \E e \in End :
    \/ \E p \in Packet : BeginWrite(e, p)
    \/ \E n \in Limit : BeginRead(e, n)
    \/ Progress(e)
    \/ Restart(e)

Spec == Init /\ [][Next]_vars

FairSpec == Spec /\ \A e \in End : WF_vars(Progress(e))

-----------------------------------------------------------------------------
(* Properties.                                                             *)

TypeOK ==
  /\ pc \in [End -> {"idle", "send", "bytes"} \cup Waits]
  /\ out \in [End -> Packet \cup {None}]
  /\ sent \in [End -> Nat]
  /\ \A e \in End : out[e] # None => sent[e] <= Size[out[e]]
  /\ result \in [End -> {None, "ok", "noAck"}]
  /\ len \in [End -> Limit \cup {0}]
  /\ hdr \in [End -> Packet \cup {None}]
  /\ got \in [End -> Seq(Token)]
  /\ \A e \in End : pc[e] = "bytes" => Len(got[e]) < Size[hdr[e]]
  /\ took \in [End -> Packet \cup {None}]
  /\ state \in [End -> {"open", "taken", "passed", "void"}]
  /\ chan \in [End -> Seq(Token)]

Contract == INSTANCE AtomicPacket WITH offer <- out

(* The byte protocol implements the packet contract: write_packet returns  *)
(* MSG_OK exactly when the other end's read_packet has returned this very  *)
(* packet, complete and in order; no packet is read twice; and a write is  *)
(* only refused when the other end was writing too, in vain.               *)
ImplementsAtomicPacket == Contract!Spec

(* The same without a history of what became of the packet: when           *)
(* write_packet returns MSG_OK, the last packet that read_packet returned  *)
(* to the other end is the one just written.                               *)
ConfirmedIsRead ==
  [][\A e \in End :
       out[e] # None /\ out'[e] = None /\ result'[e] = "ok" =>
         took[Peer(e)] = out[e]]_vars

(* While read_bytes runs, all that comes is the rest of its packet, never  *)
(* a header and never more than one block at once; and it does not wait    *)
(* for a writer that waits for it.                                         *)
BlocksInStep ==
  \A e \in End : pc[e] = "bytes" =>
    /\ \A i \in 1 .. Len(chan[e]) : chan[e][i] = Data(hdr[e], Len(got[e]) + i)
    /\ Len(chan[e]) <= Block
    /\ pc[Peer(e)] = "send" \/ \E f \in End : chan[f] # <<>>

(* A read_packet that has a header coming returns, with the packet or with *)
(* an error, unless its device restarts; and a write_packet whose packet   *)
(* has been read returns, even if the reader restarts at once.             *)
Completes ==
  \A e \in End :
    /\ (/\ pc[e] = "header"
        /\ \E i \in DOMAIN chan[e] : chan[e][i].kind = "header")
         ~> pc[e] = "idle"
    /\ (out[e] # None /\ state[e] = "taken") ~> out[e] = None

(* After a restart of the other end nothing the old session left behind is *)
(* mistaken for an answer: whoever starts a write has no ACK ahead of it.  *)
NoStaleAck ==
  \A e \in End : pc[e] \in {"idle", "header", "send"} =>
    \A i \in 1 .. Len(chan[e]) : chan[e][i] # Ack

(* write_packet goes "expecting an ack after every 256 bytes"              *)
(* (host_messaging.c:136), and "If the block was not ack'd, don't send the *)
(* rest of the message" (:126): whatever the other end does, never is more *)
(* than one block of payload under way to it.                              *)
OneBlockAhead ==
  \A e \in End :
    Len(SelectSeq(chan[e], LAMBDA t : t.kind = "data")) <= Block

(* "Send ACK for the header before length validation to prevent deadlock"  *)
(* (host_messaging.c:202): no writer and reader wait for each other with   *)
(* nothing on the line.                                                    *)
NoMutualWait ==
  ~ \E e \in End :
      /\ pc[e] \in {"headerAck", "blockAck", "lastAck"}
      /\ pc[Peer(e)] \in Waits \cup {"bytes"}
      /\ \A f \in End : chan[f] = <<>>
-----------------------------------------------------------------------------
(* What makes them inductive: the line is in one of seven conditions.      *)

(* An end that neither writes nor is inside a packet, and one whose header *)
(* is on its way, or lost, and can still start an exchange.                *)
Listening(r) == pc[r] \in {"idle", "header"}
Announced(r) == pc[r] = "headerAck" /\ state[r] = "open"

AllData(s) == \A i \in 1 .. Len(s) : s[i].kind = "data"

(* What an end that waits in vain may find before anything newer.          *)
Stale(s) == AllData(s) \/ \E q \in Packet : s = <<Header(q)>>

AllButLast(s) == SubSeq(s, 1, Len(s) - 1)

(* Nobody writes.                                                          *)
Quiet == \A e \in End : Listening(e) /\ chan[e] = <<>>

(* End w has written its header, and the other end is free to read it.     *)
Offered(w) ==
  LET r == Peer(w)
  IN /\ Announced(w) /\ chan[w] = <<>>
     /\ Listening(r) /\ chan[r] \in {<<>>, <<Header(out[w])>>}

(* Both ends have written a header and wait for an ACK.                    *)
Crossed(w) ==
  LET r == Peer(w)
  IN /\ Announced(w) /\ chan[w] \in {<<>>, <<Header(out[r])>>}
     /\ Announced(r) /\ chan[r] \in {<<>>, <<Header(out[w])>>}

(* The other end is in read_bytes.  What it has got and what is under way  *)
(* are the bytes sent so far, in order; and the writer is never past the   *)
(* end of a block that has not been read and acknowledged.                 *)
InStep(w) ==
  LET r == Peer(w)
      n == Len(got[r])
  IN /\ sent[w] = n + Len(chan[r])
     /\ \A i \in 1 .. n : got[r][i] = Data(out[w], i)
     /\ \A i \in 1 .. Len(chan[r]) : chan[r][i] = Data(out[w], n + i)
     /\ \A j \in n + 1 .. sent[w] : j % Block = 0 =>
          j = sent[w] /\ pc[w] \in {"blockAck", "lastAck"}

ReadingFrom(w) ==
  LET r == Peer(w)
  IN /\ pc[r] = "bytes" /\ hdr[r] = out[w] /\ state[w] = "open"
     /\ InStep(w)
     /\ \/ pc[w] = "headerAck" /\ chan[w] = <<Ack>>
        \/ pc[w] = "send" /\ chan[w] = <<>> /\ sent[w] < Size[out[w]]
        \/ /\ pc[w] = "blockAck"
           /\ sent[w] < Size[out[w]] /\ sent[w] % Block = 0
           /\ chan[w] = IF chan[r] = <<>> THEN <<Ack>> ELSE <<>>
        \/ pc[w] = "lastAck" /\ chan[w] = <<>> /\ sent[w] = Size[out[w]]

(* The other end has returned the packet and may already write its own.    *)
Taken(w) ==
  LET r == Peer(w)
  IN /\ state[w] = "taken" /\ chan[r] = <<>>
     /\ \/ pc[w] = "lastAck"
        \/ pc[w] = "headerAck" /\ Size[out[w]] = 0
     /\ \/ Listening(r) /\ chan[w] = <<Ack>>
        \/ Announced(r) /\ chan[w] = <<Ack, Header(out[r])>>

(* The other end has dropped the packet; what is still sent is discarded.  *)
(* One last ACK may be on its way, and then the header of another write,   *)
(* which is void once w has taken it for an ACK.                           *)
Passed(w) ==
  LET r == Peer(w)
      acked == pc[w] = "blockAck" \/ (pc[w] = "headerAck" /\ Size[out[w]] > 0)
  IN /\ state[w] = "passed" /\ AllData(chan[r])
     /\ \/ pc[w] \in {"headerAck", "lastAck"}
        \/ pc[w] \in {"send", "blockAck"} /\ sent[w] < Size[out[w]]
     /\ \/ Listening(r) /\ (chan[w] = <<>> \/ (acked /\ chan[w] = <<Ack>>))
        \/ /\ Announced(r)
           /\ \/ chan[w] = <<Header(out[r])>>
              \/ acked /\ chan[w] = <<Ack, Header(out[r])>>
        \/ /\ pc[r] = "headerAck" /\ state[r] = "void"
           /\ pc[w] # "headerAck" /\ chan[w] = <<>>

(* The other end has taken the header for an answer: w waits until a new   *)
(* header ends its write.                                                  *)
Voided(w) ==
  LET r == Peer(w)
  IN /\ pc[w] = "headerAck" /\ state[w] = "void" /\ chan[r] = <<>>
     /\ \/ Listening(r) /\ Stale(chan[w])
        \/ /\ Announced(r)
           /\ chan[w] # <<>> /\ Stale(AllButLast(chan[w]))
           /\ chan[w][Len(chan[w])] = Header(out[r])

Condition ==
  \/ Quiet
  \/ \E w \in End : \/ Offered(w) \/ Crossed(w) \/ ReadingFrom(w)
                    \/ Taken(w) \/ Passed(w) \/ Voided(w)

(* An end has a packet to write exactly while it is in write_packet.       *)
Writers ==
  \A e \in End :
    /\ out[e] # None <=> pc[e] \in {"headerAck", "send", "blockAck", "lastAck"}
    /\ pc[e] = "headerAck" => sent[e] = 0

IInv == TypeOK /\ Writers /\ Condition
=============================================================================
