--------------------------- MODULE PacketLinkProofs ---------------------------
(***************************************************************************)
(* The line is always in one of the conditions of PacketLink: each step of *)
(* either end leads from one of them to itself or to another.              *)
(***************************************************************************)
EXTENDS PacketLink, SequenceTheorems, TLAPS

(* Block consecutive numbers have a multiple of Block among them.          *)
LEMMA BlockEnds ==
  ASSUME NEW n \in Nat, NEW b \in Nat \ {0}
  PROVE  \E j \in n + 1 .. n + b : j % b = 0
<1>1. n % b \in 0 .. b - 1
  OBVIOUS
<1>2. (n + b - (n % b)) % b = 0
  OBVIOUS
<1>3. n + b - (n % b) \in n + 1 .. n + b
  BY <1>1
<1> QED BY <1>2, <1>3

USE LinkAssumption

(* The two ends.                                                           *)
LEMMA Ends ==
  ASSUME NEW e \in End
  PROVE  /\ Peer(e) \in End /\ Peer(e) # e /\ Peer(Peer(e)) = e
         /\ \A x \in End : x = e \/ x = Peer(e)
<1>1. PICK a \in End, b \in End : a # b /\ End = {a, b}
  BY EndAssumption
<1>2. \A x \in End : Peer(x) \in End /\ Peer(x) # x
  BY <1>1 DEF Peer
<1> QED BY <1>1, <1>2

(* Tokens are told apart by their kind.                                    *)
LEMMA Tokens ==
  /\ Ack \in Token /\ Ack.kind = "ack"
  /\ \A p \in Packet :
       /\ Header(p) \in Token /\ Header(p).kind = "header"
       /\ Header(p).of = p /\ Header(p) # Ack
  /\ \A p \in Packet, i \in Nat \ {0} :
       /\ i <= Size[p] => Data(p, i) \in Token
       /\ Data(p, i).kind = "data" /\ Data(p, i) # Ack
  /\ \A t \in Token :
       /\ t = Ack \/ t.kind = "data" \/ \E p \in Packet : t = Header(p)
       /\ t.kind # "data" /\ t # Ack => t.of \in Packet /\ t = Header(t.of)
<1>1. Ack \in Token /\ Ack.kind = "ack"
  BY DEF Token, Ack
<1>2. ASSUME NEW p \in Packet
      PROVE  /\ Header(p) \in Token /\ Header(p).kind = "header"
             /\ Header(p).of = p /\ Header(p) # Ack
  BY DEF Token, Ack, Header
<1>3. ASSUME NEW p \in Packet, NEW i \in Nat \ {0}
      PROVE  /\ i <= Size[p] => Data(p, i) \in Token
             /\ Data(p, i).kind = "data" /\ Data(p, i) # Ack
  <2>1. i <= Size[p] => Data(p, i) \in Token
    BY DEF Token
  <2>2. Data(p, i).kind = "data" /\ Data(p, i) # Ack
    BY DEF Data, Ack
  <2> QED BY <2>1, <2>2
<1>4. ASSUME NEW t \in Token
      PROVE  t = Ack \/ t.kind = "data" \/ \E p \in Packet : t = Header(p)
  <2>1. CASE t \in {Header(p) : p \in Packet} \cup {Ack}
    BY <2>1
  <2>2. CASE t \in UNION {{Data(p, i) : i \in 1 .. Size[p]} : p \in Packet}
    <3>0. PICK p \in Packet : t \in {Data(p, i) : i \in 1 .. Size[p]}
      BY <2>2, Zenon
    <3>1. PICK i \in 1 .. Size[p] : t = Data(p, i)
      BY <3>0
    <3> QED BY <3>1 DEF Data
  <2> QED BY <2>1, <2>2 DEF Token
<1>5. \A t \in Token : t.kind # "data" /\ t # Ack => t.of \in Packet /\ t = Header(t.of)
  BY <1>2, <1>4
<1> QED BY <1>1, <1>2, <1>3, <1>4, <1>5

(* Channels of no, one and two tokens.                                     *)
LEMMA Short ==
  ASSUME NEW x \in Token, NEW y \in Token
  PROVE  /\ <<>> \in Seq(Token) /\ Len(<<>>) = 0
         /\ <<x>> \in Seq(Token) /\ <<x>> # <<>> /\ Len(<<x>>) = 1
         /\ Head(<<x>>) = x /\ Tail(<<x>>) = <<>> /\ <<x>>[1] = x
         /\ <<x, y>> \in Seq(Token) /\ <<x, y>> # <<>> /\ Len(<<x, y>>) = 2
         /\ Head(<<x, y>>) = x /\ Tail(<<x, y>>) = <<y>>
         /\ <<x, y>>[1] = x /\ <<x, y>>[2] = y
         /\ <<>> \o <<x>> = <<x>> /\ <<x>> \o <<>> = <<x>>
         /\ Append(<<>>, x) = <<x>> /\ Append(<<x>>, y) = <<x, y>>
<1>1. /\ <<>> \in Seq(Token) /\ Len(<<>>) = 0
      /\ <<x>> \in Seq(Token) /\ <<x>> # <<>> /\ Len(<<x>>) = 1
      /\ <<x, y>> \in Seq(Token) /\ <<x, y>> # <<>> /\ Len(<<x, y>>) = 2
  OBVIOUS
<1>2. /\ Head(<<x>>) = x /\ <<x>>[1] = x
      /\ Head(<<x, y>>) = x /\ <<x, y>>[1] = x /\ <<x, y>>[2] = y
  OBVIOUS
<1>3. Tail(<<x>>) = <<>> /\ Tail(<<x, y>>) = <<y>>
  BY <1>1, <1>2, HeadTailProperties, SeqEqual
<1>4. <<>> \o <<x>> = <<x>> /\ <<x>> \o <<>> = <<x>>
  BY <1>1, ConcatEmptySeq
<1>5. Append(<<>>, x) = <<x>>
  BY <1>1, <1>4, AppendIsConcat
<1>6. Append(<<x>>, y) = <<x, y>>
  <2>1. /\ Append(<<x>>, y) \in Seq(Token) /\ Len(Append(<<x>>, y)) = 2
        /\ Append(<<x>>, y)[1] = x /\ Append(<<x>>, y)[2] = y
    BY <1>1, <1>2, AppendProperties
  <2>2. \A i \in 1 .. 2 : Append(<<x>>, y)[i] = <<x, y>>[i]
    BY <2>1, <1>2
  <2> QED BY <2>1, <2>2, <1>1, SeqEqual
<1> QED BY <1>1, <1>2, <1>3, <1>4, <1>5, <1>6

LEMMA DataMoves ==
  ASSUME NEW s \in Seq(Token), AllData(s)
  PROVE  /\ s # <<>> => AllData(Tail(s)) /\ Head(s).kind = "data"
         /\ \A t \in Token : t.kind = "data" => AllData(Append(s, t))
<1>1. s # <<>> => AllData(Tail(s)) /\ Head(s).kind = "data"
  BY DEF AllData
<1>2. ASSUME NEW t \in Token, t.kind = "data" PROVE AllData(Append(s, t))
  BY <1>2, AppendProperties DEF AllData
<1> QED BY <1>1, <1>2

LEMMA Last ==
  ASSUME NEW s \in Seq(Token), NEW t \in Token
  PROVE  /\ AllButLast(Append(s, t)) = s
         /\ Append(s, t) # <<>> /\ Append(s, t)[Len(Append(s, t))] = t
<1>1. /\ Append(s, t) \in Seq(Token) /\ Len(Append(s, t)) = Len(s) + 1
      /\ Append(s, t) # <<>> /\ Append(s, t)[Len(s) + 1] = t
      /\ \A i \in 1 .. Len(s) : Append(s, t)[i] = s[i]
  BY AppendProperties
<1>2. /\ AllButLast(Append(s, t)) \in Seq(Token)
      /\ Len(AllButLast(Append(s, t))) = Len(s)
      /\ \A i \in 1 .. Len(s) : AllButLast(Append(s, t))[i] = Append(s, t)[i]
  <2>1. \A i \in 1 .. Len(s) : Append(s, t)[i] \in Token
    BY <1>1
  <2> QED BY <1>1, <2>1, SubSeqProperties DEF AllButLast
<1>3. AllButLast(Append(s, t)) = s
  BY <1>1, <1>2, SeqEqual
<1> QED BY <1>1, <1>3

LEMMA Split ==
  ASSUME NEW s \in Seq(Token), s # <<>>
  PROVE  /\ AllButLast(s) \in Seq(Token) /\ s[Len(s)] \in Token
         /\ s = Append(AllButLast(s), s[Len(s)])
<1>1. PICK u \in Seq(Token), t \in Token : s = Append(u, t)
  BY SequenceEmptyOrAppend
<1> QED BY <1>1, Last

LEMMA Unstale ==
  ASSUME NEW s \in Seq(Token), Stale(s), s # <<>>
  PROVE  Stale(Tail(s)) /\ (Head(s).kind # "data" => Tail(s) = <<>> /\ Head(s) # Ack)
<1>1. CASE AllData(s)
  BY <1>1, DataMoves DEF Stale
<1>2. CASE \E q \in Packet : s = <<Header(q)>>
  <2>1. PICK q \in Packet : s = <<Header(q)>>
    BY <1>2
  <2>2. Tail(s) = <<>> /\ Head(s) # Ack
    BY <2>1, Tokens
  <2>3. AllData(<<>>)
    BY DEF AllData
  <2> QED BY <2>2, <2>3 DEF Stale
<1> QED BY <1>1, <1>2 DEF Stale
-----------------------------------------------------------------------------
(* What the actions do to the two ends, one value at a time.               *)

LEMMA Moved ==
  ASSUME TypeOK, NEW e \in End, chan[e] # <<>>,
         NEW reply \in Seq(Token), Move(e, reply)
  PROVE  /\ chan' \in [End -> Seq(Token)]
         /\ chan'[e] = Tail(chan[e])
         /\ chan'[Peer(e)] = chan[Peer(e)] \o reply
<1>1. chan[e] \in Seq(Token) /\ chan[Peer(e)] \in Seq(Token)
  BY Ends DEF TypeOK
<1>2. Tail(chan[e]) \in Seq(Token) /\ chan[Peer(e)] \o reply \in Seq(Token)
  BY <1>1, HeadTailProperties, ConcatProperties
<1> QED BY <1>2, Ends DEF Move, TypeOK

LEMMA Sends ==
  ASSUME TypeOK, NEW e \in End, NEW t \in Token, Write(e, t)
  PROVE  /\ chan' \in [End -> Seq(Token)]
         /\ chan'[e] = chan[e]
         /\ chan'[Peer(e)] = Append(chan[Peer(e)], t)
<1>1. Append(chan[Peer(e)], t) \in Seq(Token)
  BY Ends, AppendProperties DEF TypeOK
<1> QED BY <1>1, Ends DEF Write, TypeOK

(* An end as the conditions see it.                                        *)
Same(x) ==
  /\ pc'[x] = pc[x] /\ out'[x] = out[x] /\ sent'[x] = sent[x]
  /\ hdr'[x] = hdr[x] /\ got'[x] = got[x]

LEMMA DiscardDoes ==
  ASSUME TypeOK, Writers, NEW e \in End, Discard(e)
  PROVE  /\ TypeOK' /\ Writers' /\ Same(e) /\ Same(Peer(e)) /\ state' = state
         /\ chan[e] # <<>> /\ Head(chan[e]).kind = "data"
         /\ chan'[e] = Tail(chan[e]) /\ chan'[Peer(e)] = chan[Peer(e)]
<1>1. /\ chan' \in [End -> Seq(Token)] /\ chan'[e] = Tail(chan[e])
      /\ chan'[Peer(e)] = chan[Peer(e)] \o <<>>
  BY Moved, EmptySeq DEF Discard
<1>2. chan[Peer(e)] \o <<>> = chan[Peer(e)]
  BY Ends, ConcatEmptySeq DEF TypeOK
<1> QED
  BY <1>1, <1>2 DEF Discard, writeVars, readVars, histVars, TypeOK, Writers, Same

LEMMA BeginWriteDoes ==
  ASSUME TypeOK, Writers, NEW e \in End, NEW p \in Packet, BeginWrite(e, p)
  PROVE  /\ TypeOK' /\ Writers' /\ Same(Peer(e))
         /\ pc[e] = "idle" /\ pc'[e] = "headerAck"
         /\ out'[e] = p /\ sent'[e] = 0
         /\ state'[e] = "open" /\ state'[Peer(e)] = state[Peer(e)]
         /\ chan'[e] = chan[e]
         /\ \/ chan'[Peer(e)] = Append(chan[Peer(e)], Header(p))
            \/ pc[Peer(e)] = "idle" /\ chan'[Peer(e)] = chan[Peer(e)]
<1>1. /\ chan' \in [End -> Seq(Token)] /\ chan'[e] = chan[e]
      /\ \/ chan'[Peer(e)] = Append(chan[Peer(e)], Header(p))
         \/ pc[Peer(e)] = "idle" /\ chan'[Peer(e)] = chan[Peer(e)]
  BY Sends, Tokens DEF BeginWrite, TypeOK
<1>2. TypeOK'
  <2>1. /\ pc' \in [End -> {"idle", "send", "bytes"} \cup Waits]
        /\ out' \in [End -> Packet \cup {None}] /\ sent' \in [End -> Nat]
        /\ result' \in [End -> {None, "ok", "noAck"}]
        /\ state' \in [End -> {"open", "taken", "passed", "void"}]
    BY DEF BeginWrite, TypeOK, Waits
  <2>2. \A x \in End : out'[x] # None => sent'[x] <= Size[out'[x]]
    BY DEF BeginWrite, TypeOK
  <2>3. \A x \in End : pc'[x] = "bytes" => Len(got'[x]) < Size[hdr'[x]]
    BY DEF BeginWrite, readVars, TypeOK
  <2> QED BY <1>1, <2>1, <2>2, <2>3 DEF BeginWrite, readVars, TypeOK
<1>3. Writers'
  BY DEF BeginWrite, TypeOK, Writers
<1> QED BY <1>1, <1>2, <1>3, Ends DEF BeginWrite, readVars, TypeOK, Same

LEMMA BeginReadDoes ==
  ASSUME TypeOK, Writers, NEW e \in End, NEW n \in Limit, BeginRead(e, n)
  PROVE  /\ TypeOK' /\ Writers' /\ Same(Peer(e))
         /\ pc[e] = "idle" /\ pc'[e] = "header"
         /\ state' = state /\ chan' = chan
<1>1. TypeOK'
  <2>1. /\ pc' \in [End -> {"idle", "send", "bytes"} \cup Waits]
        /\ len' \in [End -> Limit \cup {0}]
    BY DEF BeginRead, TypeOK, Waits
  <2>2. \A x \in End : pc'[x] = "bytes" => Len(got'[x]) < Size[hdr'[x]]
    BY DEF BeginRead, TypeOK
  <2> QED BY <2>1, <2>2 DEF BeginRead, writeVars, histVars, TypeOK
<1>2. Writers'
  BY DEF BeginRead, writeVars, TypeOK, Writers
<1> QED BY <1>1, <1>2, Ends DEF BeginRead, writeVars, histVars, TypeOK, Same

LEMMA RestartDoes ==
  ASSUME TypeOK, Writers, NEW e \in End, Restart(e)
  PROVE  /\ TypeOK' /\ Writers' /\ Same(Peer(e))
         /\ pc[e] \in {"idle", "header", "bytes"} /\ pc'[e] = "idle"
         /\ state'[e] = state[e]
         /\ state'[Peer(e)] =
              IF out[Peer(e)] # None /\ state[Peer(e)] = "open" THEN "passed"
              ELSE state[Peer(e)]
         /\ chan'[e] = <<>> /\ chan'[Peer(e)] = chan[Peer(e)]
<1>1. /\ state' \in [End -> {"open", "taken", "passed", "void"}]
      /\ state'[e] = state[e]
      /\ state'[Peer(e)] =
           IF out[Peer(e)] # None /\ state[Peer(e)] = "open" THEN "passed"
           ELSE state[Peer(e)]
  BY Ends DEF Restart, PassOver, TypeOK
<1>2. <<>> \in Seq(Token)
  BY EmptySeq
<1>3. TypeOK'
  BY <1>1, <1>2 DEF Restart, writeVars, TypeOK
<1>4. Writers'
  BY DEF Restart, writeVars, TypeOK, Writers
<1> QED BY <1>1, <1>3, <1>4, Ends DEF Restart, writeVars, TypeOK, Same

(* read_ack takes what it finds for its answer.                            *)
Answers(e) ==
  LET f == Peer(e)
  IN /\ chan[e] # <<>> /\ Head(chan[e]).kind # "data"
     /\ chan'[e] = Tail(chan[e]) /\ chan'[f] = chan[f]
     /\ state'[e] = state[e]
     /\ Head(chan[e]) = Ack \/ out[f] = None
          \/ (\E i \in 2 .. Len(chan[e]) : chan[e][i].kind = "header")
        => state'[f] = state[f]
     /\ Head(chan[e]) # Ack /\ out[f] # None /\ Tail(chan[e]) = <<>>
        => state'[f] = "void"

LEMMA AnswerDoes ==
  ASSUME TypeOK, NEW e \in End, TakeAnswer(e)
  PROVE  /\ Answers(e) /\ UNCHANGED <<readVars, took>>
         /\ chan' \in [End -> Seq(Token)]
         /\ state' \in [End -> {"open", "taken", "passed", "void"}]
<1>1. /\ chan[e] # <<>> /\ Head(chan[e]).kind # "data"
      /\ Move(e, <<>>) /\ UNCHANGED <<readVars, took>>
  BY DEF TakeAnswer, HeaderHere
<1>2. /\ chan' \in [End -> Seq(Token)]
      /\ chan'[e] = Tail(chan[e]) /\ chan'[Peer(e)] = chan[Peer(e)]
  <2>1. <<>> \in Seq(Token) /\ chan[Peer(e)] \o <<>> = chan[Peer(e)]
    BY Ends, EmptySeq, ConcatEmptySeq DEF TypeOK
  <2> QED BY <1>1, <2>1, Moved
<1>3. /\ state' \in [End -> {"open", "taken", "passed", "void"}]
      /\ state'[e] = state[e]
      /\ Head(chan[e]) = Ack \/ out[Peer(e)] = None
           \/ (\E i \in 2 .. Len(chan[e]) : chan[e][i].kind = "header")
         => state'[Peer(e)] = state[Peer(e)]
  BY Ends DEF TakeAnswer, TypeOK
<1>4. ASSUME Head(chan[e]) # Ack, out[Peer(e)] # None, Tail(chan[e]) = <<>>
      PROVE  state'[Peer(e)] = "void"
  <2>1. 2 .. Len(chan[e]) = {}
    <3>1. chan[e] \in Seq(Token) /\ Len(Tail(chan[e])) = 0
      BY <1>4, EmptySeq DEF TypeOK
    <3>2. Len(Tail(chan[e])) = Len(chan[e]) - 1
      BY <1>1, <3>1, HeadTailProperties
    <3>3. Len(chan[e]) \in Nat
      BY <3>1, LenProperties
    <3>4. Len(chan[e]) = 1
      BY <3>1, <3>2, <3>3
    <3> QED BY <3>4
  <2> QED BY <1>4, <2>1, Ends DEF TakeAnswer, TypeOK
<1> QED BY <1>1, <1>2, <1>3, <1>4 DEF Answers

LEMMA HeaderReplyDoes ==
  ASSUME TypeOK, Writers, NEW e \in End, HeaderReply(e)
  PROVE  /\ TypeOK' /\ Writers' /\ Same(Peer(e)) /\ Answers(e)
         /\ pc[e] = "headerAck"
         /\ \/ /\ Head(chan[e]) # Ack \/ Size[out[e]] = 0
               /\ pc'[e] = "idle" /\ out'[e] = None
            \/ /\ Head(chan[e]) = Ack /\ Size[out[e]] > 0
               /\ pc'[e] = "send" /\ out'[e] = out[e] /\ sent'[e] = 0
<1>1. /\ Answers(e) /\ UNCHANGED <<readVars, took, sent>>
      /\ chan' \in [End -> Seq(Token)]
      /\ state' \in [End -> {"open", "taken", "passed", "void"}]
  BY AnswerDoes DEF HeaderReply, ReturnFromWrite, writeVars
<1>2. CASE \E r \in {"ok", "noAck"} :
             ReturnFromWrite(e, r) /\ (Head(chan[e]) # Ack \/ Size[out[e]] = 0)
  <2>1. TypeOK'
    <3>1. /\ pc' \in [End -> {"idle", "send", "bytes"} \cup Waits]
          /\ out' \in [End -> Packet \cup {None}]
          /\ result' \in [End -> {None, "ok", "noAck"}]
      BY <1>2 DEF ReturnFromWrite, TypeOK
    <3>2. \A x \in End : out'[x] # None => sent'[x] <= Size[out'[x]]
      BY <1>1, <1>2 DEF ReturnFromWrite, TypeOK
    <3>3. \A x \in End : pc'[x] = "bytes" => Len(got'[x]) < Size[hdr'[x]]
      BY <1>1, <1>2 DEF ReturnFromWrite, readVars, TypeOK
    <3> QED BY <1>1, <3>1, <3>2, <3>3 DEF readVars, TypeOK
  <2>2. Writers'
    BY <1>1, <1>2 DEF ReturnFromWrite, TypeOK, Writers
  <2> QED
    BY <1>1, <1>2, <2>1, <2>2, Ends DEF HeaderReply, ReturnFromWrite, readVars, TypeOK, Same
<1>3. CASE /\ Head(chan[e]) = Ack /\ Size[out[e]] > 0
           /\ pc' = [pc EXCEPT ![e] = "send"] /\ UNCHANGED writeVars
  <2>1. TypeOK'
    <3>1. pc' \in [End -> {"idle", "send", "bytes"} \cup Waits]
      BY <1>3 DEF TypeOK
    <3>2. \A x \in End : pc'[x] = "bytes" => Len(got'[x]) < Size[hdr'[x]]
      BY <1>1, <1>3 DEF readVars, TypeOK
    <3> QED BY <1>1, <1>3, <3>1, <3>2 DEF readVars, writeVars, TypeOK
  <2>2. pc[e] = "headerAck" /\ out[e] # None /\ sent[e] = 0
    BY DEF HeaderReply, Writers
  <2>3. Writers'
    BY <1>3, <2>2 DEF writeVars, TypeOK, Writers
  <2> QED
    BY <1>1, <1>3, <2>1, <2>2, <2>3, Ends DEF readVars, writeVars, TypeOK, Same
<1> QED BY <1>2, <1>3 DEF HeaderReply

LEMMA LastReplyDoes ==
  ASSUME TypeOK, Writers, NEW e \in End, LastReply(e)
  PROVE  /\ TypeOK' /\ Writers' /\ Same(Peer(e)) /\ Answers(e)
         /\ pc[e] = "lastAck" /\ pc'[e] = "idle" /\ out'[e] = None
<1>1. /\ Answers(e) /\ UNCHANGED <<readVars, took, sent>>
      /\ chan' \in [End -> Seq(Token)]
      /\ state' \in [End -> {"open", "taken", "passed", "void"}]
  BY AnswerDoes DEF LastReply, ReturnFromWrite
<1>2. PICK r \in {"ok", "noAck"} : ReturnFromWrite(e, r)
  BY DEF LastReply
<1>3. TypeOK'
  <2>1. /\ pc' \in [End -> {"idle", "send", "bytes"} \cup Waits]
        /\ out' \in [End -> Packet \cup {None}]
        /\ result' \in [End -> {None, "ok", "noAck"}]
    BY <1>2 DEF ReturnFromWrite, TypeOK
  <2>2. \A x \in End : out'[x] # None => sent'[x] <= Size[out'[x]]
    BY <1>1, <1>2 DEF ReturnFromWrite, TypeOK
  <2>3. \A x \in End : pc'[x] = "bytes" => Len(got'[x]) < Size[hdr'[x]]
    BY <1>1, <1>2 DEF ReturnFromWrite, readVars, TypeOK
  <2> QED BY <1>1, <2>1, <2>2, <2>3 DEF readVars, TypeOK
<1>4. Writers'
  BY <1>1, <1>2 DEF ReturnFromWrite, TypeOK, Writers
<1> QED
  BY <1>1, <1>2, <1>3, <1>4, Ends DEF LastReply, ReturnFromWrite, readVars, TypeOK, Same

LEMMA BlockReplyDoes ==
  ASSUME TypeOK, Writers, NEW e \in End, BlockReply(e)
  PROVE  /\ TypeOK' /\ Writers' /\ Same(Peer(e)) /\ Answers(e)
         /\ pc[e] = "blockAck" /\ pc'[e] = "send"
         /\ out'[e] = out[e] /\ sent'[e] = sent[e]
<1>1. /\ Answers(e) /\ UNCHANGED <<readVars, took, writeVars>>
      /\ chan' \in [End -> Seq(Token)]
      /\ state' \in [End -> {"open", "taken", "passed", "void"}]
  BY AnswerDoes DEF BlockReply
<1>2. pc[e] = "blockAck" /\ pc' = [pc EXCEPT ![e] = "send"]
  BY DEF BlockReply
<1>3. TypeOK'
  <2>1. pc' \in [End -> {"idle", "send", "bytes"} \cup Waits]
    BY <1>2 DEF TypeOK
  <2>2. \A x \in End : pc'[x] = "bytes" => Len(got'[x]) < Size[hdr'[x]]
    BY <1>1, <1>2 DEF readVars, TypeOK
  <2> QED BY <1>1, <2>1, <2>2 DEF readVars, writeVars, TypeOK
<1>4. Writers'
  BY <1>1, <1>2 DEF writeVars, TypeOK, Writers
<1> QED
  BY <1>1, <1>2, <1>3, <1>4, Ends DEF readVars, writeVars, TypeOK, Same

LEMMA SendByteDoes ==
  ASSUME TypeOK, Writers, NEW e \in End, SendByte(e), sent[e] < Size[out[e]]
  PROVE  /\ TypeOK' /\ Writers' /\ Same(Peer(e)) /\ state' = state
         /\ pc[e] = "send" /\ pc'[e] = AfterByte(sent[e] + 1, Size[out[e]])
         /\ out'[e] = out[e] /\ sent'[e] = sent[e] + 1
         /\ out[e] \in Packet /\ Data(out[e], sent[e] + 1) \in Token
         /\ chan'[e] = chan[e]
         /\ chan'[Peer(e)] = Append(chan[Peer(e)], Data(out[e], sent[e] + 1))
<1>1. /\ pc[e] = "send" /\ out[e] \in Packet /\ sent[e] \in Nat
      /\ Size[out[e]] \in Nat
  BY DEF SendByte, Writers, TypeOK
<1>2. Data(out[e], sent[e] + 1) \in Token
  BY <1>1, Tokens
<1>3. /\ chan' \in [End -> Seq(Token)] /\ chan'[e] = chan[e]
      /\ chan'[Peer(e)] = Append(chan[Peer(e)], Data(out[e], sent[e] + 1))
  BY <1>2, Sends DEF SendByte
<1>4. AfterByte(sent[e] + 1, Size[out[e]]) \in {"send", "blockAck", "lastAck"}
  BY <1>1 DEF AfterByte
<1>5. TypeOK'
  <2>1. /\ pc' \in [End -> {"idle", "send", "bytes"} \cup Waits]
        /\ sent' \in [End -> Nat]
    BY <1>1, <1>4 DEF SendByte, TypeOK, Waits
  <2>2. \A x \in End : out'[x] # None => sent'[x] <= Size[out'[x]]
    BY <1>1 DEF SendByte, TypeOK
  <2>3. \A x \in End : pc'[x] = "bytes" => Len(got'[x]) < Size[hdr'[x]]
    BY <1>4 DEF SendByte, readVars, TypeOK
  <2> QED BY <1>3, <2>1, <2>2, <2>3 DEF SendByte, readVars, histVars, TypeOK
<1>6. Writers'
  BY <1>1, <1>4 DEF SendByte, TypeOK, Writers
<1> QED
  BY <1>1, <1>2, <1>3, <1>5, <1>6, Ends DEF SendByte, readVars, histVars, TypeOK, Same

LEMMA ReadHeaderDoes ==
  ASSUME TypeOK, Writers, NEW e \in End, ReadHeader(e)
  PROVE  /\ TypeOK' /\ Writers' /\ Same(Peer(e))
         /\ pc[e] = "header" /\ out'[e] = out[e] /\ sent'[e] = sent[e]
         /\ chan[e] # <<>> /\ Head(chan[e]).kind # "data"
         /\ chan'[e] = Tail(chan[e]) /\ state'[e] = state[e]
         /\ \/ /\ Head(chan[e]) = Ack
               /\ pc'[e] = "idle" /\ state' = state
               /\ chan'[Peer(e)] = chan[Peer(e)]
            \/ \E p \in Packet :
                 /\ Head(chan[e]) = Header(p)
                 /\ chan'[Peer(e)] = Append(chan[Peer(e)], Ack)
                 /\ \/ /\ Size[p] > 0 /\ pc'[e] = "idle"
                       /\ state'[Peer(e)] =
                            IF out[Peer(e)] # None /\ state[Peer(e)] = "open"
                              THEN "passed" ELSE state[Peer(e)]
                    \/ /\ Size[p] = 0 /\ pc'[e] = "idle"
                       /\ state'[Peer(e)] = "taken" /\ took' = [took EXCEPT ![e] = p]
                    \/ /\ Size[p] > 0 /\ pc'[e] = "bytes" /\ state' = state
                       /\ hdr'[e] = p /\ got'[e] = <<>>
<1>1. /\ pc[e] = "header" /\ chan[e] # <<>> /\ Head(chan[e]).kind # "data"
      /\ UNCHANGED <<writeVars, len>>
  BY DEF ReadHeader, HeaderHere
<1>2. /\ chan[e] \in Seq(Token) /\ chan[Peer(e)] \in Seq(Token)
      /\ Head(chan[e]) \in Token /\ len[e] \in Nat
      /\ Head(chan[e]) # Ack =>
           /\ Head(chan[e]).of \in Packet
           /\ Head(chan[e]) = Header(Head(chan[e]).of)
  <2>0. len[e] \in Limit \cup {0}
    BY DEF TypeOK
  <2>1. chan[e] \in Seq(Token) /\ chan[Peer(e)] \in Seq(Token)
    BY Ends DEF TypeOK
  <2>3. len[e] \in Nat
    <3>1. ASSUME len[e] \in Limit PROVE len[e] \in Nat
      BY <3>1
    <3> QED BY <2>0, <3>1
  <2>2. Head(chan[e]) \in Token
    BY <1>1, <2>1, HeadTailProperties
  <2> QED BY <1>1, <2>1, <2>2, <2>3, Tokens
<1>3. ASSUME Move(e, <<>>)
      PROVE  /\ chan' \in [End -> Seq(Token)] /\ chan'[e] = Tail(chan[e])
             /\ chan'[Peer(e)] = chan[Peer(e)]
  <2>1. <<>> \in Seq(Token) /\ chan[Peer(e)] \o <<>> = chan[Peer(e)]
    BY <1>2, EmptySeq, ConcatEmptySeq
  <2> QED BY <1>1, <1>3, <2>1, Moved
<1>4. ASSUME Move(e, <<Ack>>)
      PROVE  /\ chan' \in [End -> Seq(Token)] /\ chan'[e] = Tail(chan[e])
             /\ chan'[Peer(e)] = Append(chan[Peer(e)], Ack)
  <2>1. <<Ack>> \in Seq(Token) /\ chan[Peer(e)] \o <<Ack>> = Append(chan[Peer(e)], Ack)
    BY <1>2, Tokens, AppendIsConcat
  <2> QED BY <1>1, <1>4, <2>1, Moved
<1>5. ASSUME PassOver(e)
      PROVE  /\ state' \in [End -> {"open", "taken", "passed", "void"}]
             /\ state'[e] = state[e]
             /\ state'[Peer(e)] =
                  IF out[Peer(e)] # None /\ state[Peer(e)] = "open"
                    THEN "passed" ELSE state[Peer(e)]
  BY <1>5, Ends DEF PassOver, TypeOK
<1>6. CASE Head(chan[e]) = Ack
  <2>1. /\ Move(e, <<>>) /\ pc' = [pc EXCEPT ![e] = "idle"]
        /\ UNCHANGED <<state, hdr, got, took>>
    BY <1>6 DEF ReadHeader
  <2>2. TypeOK'
    <3>1. \A x \in End : pc'[x] = "bytes" => Len(got'[x]) < Size[hdr'[x]]
      BY <2>1 DEF TypeOK
    <3>2. pc' \in [End -> {"idle", "send", "bytes"} \cup Waits]
      BY <2>1 DEF TypeOK
    <3> QED BY <1>1, <1>3, <2>1, <3>1, <3>2 DEF writeVars, TypeOK
  <2>3. Writers'
    BY <1>1, <2>1 DEF writeVars, TypeOK, Writers
  <2> QED BY <1>1, <1>3, <1>6, <2>1, <2>2, <2>3, Ends DEF writeVars, TypeOK, Same
<1>7. ASSUME NEW p \in Packet, Head(chan[e]) = Header(p), p = Head(chan[e]).of,
             Size[p] > len[e]
      PROVE  /\ TypeOK' /\ Writers' /\ Same(Peer(e))
             /\ pc'[e] = "idle" /\ Move(e, <<Ack>>) /\ PassOver(e)
  <2>1. /\ Move(e, <<Ack>>) /\ pc' = [pc EXCEPT ![e] = "idle"]
        /\ PassOver(e) /\ UNCHANGED <<hdr, got, took>>
    BY <1>7, Tokens DEF ReadHeader
  <2>2. TypeOK'
    <3>1. \A x \in End : pc'[x] = "bytes" => Len(got'[x]) < Size[hdr'[x]]
      BY <2>1 DEF TypeOK
    <3>2. pc' \in [End -> {"idle", "send", "bytes"} \cup Waits]
      BY <2>1 DEF TypeOK
    <3> QED BY <1>1, <1>4, <1>5, <2>1, <3>1, <3>2 DEF writeVars, TypeOK
  <2>3. Writers'
    BY <1>1, <2>1 DEF writeVars, TypeOK, Writers
  <2> QED BY <1>1, <2>1, <2>2, <2>3, Ends DEF writeVars, TypeOK, Same
<1>8. ASSUME NEW p \in Packet, Head(chan[e]) = Header(p), p = Head(chan[e]).of,
             ~ (Size[p] > len[e])
      PROVE  /\ TypeOK' /\ Writers' /\ Same(Peer(e)) /\ Move(e, <<Ack>>)
             /\ state'[e] = state[e]
             /\ \/ /\ Size[p] = 0 /\ pc'[e] = "idle"
                   /\ state'[Peer(e)] = "taken" /\ took' = [took EXCEPT ![e] = p]
                \/ /\ Size[p] > 0 /\ pc'[e] = "bytes" /\ state' = state
                   /\ hdr'[e] = p /\ got'[e] = <<>>
  <2>1. /\ Move(e, <<Ack>>) /\ hdr' = [hdr EXCEPT ![e] = p]
        /\ got' = [got EXCEPT ![e] = <<>>]
        /\ IF Size[p] = 0 THEN ReturnPacket(e, p)
           ELSE pc' = [pc EXCEPT ![e] = "bytes"] /\ UNCHANGED histVars
    BY <1>8, Tokens DEF ReadHeader
  <2>2. /\ pc' \in [End -> {"idle", "send", "bytes"} \cup Waits]
        /\ took' \in [End -> Packet \cup {None}]
        /\ state' \in [End -> {"open", "taken", "passed", "void"}]
        /\ state'[e] = state[e]
        /\ Size[p] = 0 => pc'[e] = "idle" /\ state'[Peer(e)] = "taken"
        /\ Size[p] # 0 => pc'[e] = "bytes" /\ state' = state
    <3>1. CASE Size[p] = 0
      <4>1. ReturnPacket(e, p)
        BY <2>1, <3>1
      <4>2. /\ pc' \in [End -> {"idle", "send", "bytes"} \cup Waits]
            /\ pc'[e] = "idle"
        BY <4>1 DEF ReturnPacket, TypeOK
      <4>3. took' \in [End -> Packet \cup {None}]
        BY <4>1 DEF ReturnPacket, TypeOK
      <4>4. /\ state' \in [End -> {"open", "taken", "passed", "void"}]
            /\ state'[e] = state[e] /\ state'[Peer(e)] = "taken"
        BY <4>1, Ends DEF ReturnPacket, TypeOK
      <4> QED BY <3>1, <4>2, <4>3, <4>4
    <3>2. CASE Size[p] # 0
      <4>1. pc' = [pc EXCEPT ![e] = "bytes"] /\ UNCHANGED histVars
        BY <2>1, <3>2
      <4> QED BY <3>2, <4>1 DEF histVars, TypeOK
    <3> QED BY <3>1, <3>2
  <2>3. /\ \A x \in End \ {e} : pc'[x] = pc[x]
        /\ pc'[e] \in {"idle", "bytes"}
    BY <2>1 DEF ReturnPacket, TypeOK
  <2>4. TypeOK'
    <3>1. hdr' \in [End -> Packet \cup {None}] /\ got' \in [End -> Seq(Token)]
      BY <2>1, EmptySeq DEF TypeOK
    <3>2. \A x \in End : pc'[x] = "bytes" => Len(got'[x]) < Size[hdr'[x]]
      <4>1. pc'[e] = "bytes" => Len(got'[e]) < Size[hdr'[e]]
        BY <2>1, <2>2, EmptySeq DEF TypeOK
      <4> QED BY <2>1, <2>3, <4>1 DEF TypeOK
    <3> QED BY <1>1, <1>4, <2>1, <2>2, <3>1, <3>2 DEF writeVars, TypeOK
  <2>5. Writers'
    BY <1>1, <2>3 DEF writeVars, TypeOK, Writers
  <2>6. Same(Peer(e))
    BY <1>1, <2>1, <2>3, Ends DEF writeVars, TypeOK, Same
  <2>7. hdr'[e] = p /\ got'[e] = <<>>
    BY <2>1 DEF TypeOK
  <2>8. Size[p] = 0 => took' = [took EXCEPT ![e] = p]
    BY <2>1 DEF ReturnPacket
  <2> QED BY <2>1, <2>2, <2>4, <2>5, <2>6, <2>7, <2>8
<1>9. CASE Head(chan[e]) # Ack
  <2>1. PICK p \in Packet : Head(chan[e]) = Header(p) /\ p = Head(chan[e]).of
    BY <1>2, <1>9
  <2>2. CASE Size[p] > len[e]
    <3>1. Size[p] > 0
      BY <1>2, <2>2
    <3> QED BY <1>1, <1>4, <1>5, <1>7, <2>1, <2>2, <3>1 DEF writeVars
  <2>3. CASE ~ (Size[p] > len[e])
    BY <1>1, <1>4, <1>8, <2>1, <2>3 DEF writeVars
  <2> QED BY <2>2, <2>3
<1> QED BY <1>6, <1>9

LEMMA Bodies ==
  ASSUME NEW p \in Packet, NEW s \in Seq(Token), Len(s) = Size[p],
         \A i \in 1 .. Size[p] : s[i] = Data(p, i)
  PROVE  s = Body(p)
<1>1. Size[p] \in Nat /\ \A i \in 1 .. Size[p] : Data(p, i) \in Token
  BY Tokens
<1>2. Body(p) = [i \in 1 .. Size[p] |-> Data(p, i)]
  BY DEF Body
<1>3. Body(p) \in Seq(Token) /\ Len(Body(p)) = Size[p]
  BY <1>1, <1>2
<1>4. \A i \in 1 .. Size[p] : Body(p)[i] = s[i]
  BY <1>2
<1> QED BY <1>3, <1>4, SeqEqual

LEMMA ReadByteDoes ==
  ASSUME TypeOK, Writers, NEW e \in End, ReadByte(e), ReadingFrom(Peer(e)),
         NEW n \in Nat, n = Len(got[e]) + 1, NEW p \in Packet, p = out[Peer(e)]
  PROVE  /\ TypeOK' /\ Writers' /\ Same(Peer(e)) /\ pc[e] = "bytes"
         /\ out'[e] = out[e] /\ sent'[e] = sent[e] /\ state'[e] = state[e]
         /\ hdr'[e] = p /\ n # 0
         /\ chan[e] # <<>> /\ Head(chan[e]) = Data(p, n)
         /\ chan'[e] = Tail(chan[e])
         /\ AcksAt(n, Size[p]) => chan'[Peer(e)] = Append(chan[Peer(e)], Ack)
         /\ ~ AcksAt(n, Size[p]) => chan'[Peer(e)] = chan[Peer(e)]
         /\ \/ /\ n = Size[p] /\ pc'[e] = "idle" /\ state'[Peer(e)] = "taken"
               /\ took' = [took EXCEPT ![e] = p]
            \/ /\ n < Size[p] /\ pc'[e] = "bytes" /\ state' = state
               /\ got'[e] = Append(got[e], Head(chan[e]))
<1> DEFINE w == Peer(e)
<1>0. w \in End /\ w # e /\ Peer(w) = e /\ \A x \in End : x = e \/ x = w
  BY Ends
<1>1. /\ pc[e] = "bytes" /\ chan[e] # <<>> /\ UNCHANGED <<writeVars, len, hdr>>
      /\ got' = [got EXCEPT ![e] = Append(@, Head(chan[e]))]
      /\ Move(e, IF AcksAt(n, Size[hdr[e]]) THEN <<Ack>> ELSE <<>>)
      /\ IF n = Size[hdr[e]]
           THEN ReturnPacket(e, IF got'[e] = Body(hdr[e]) THEN hdr[e] ELSE Mangled)
           ELSE UNCHANGED <<pc, histVars>>
  BY DEF ReadByte
<1>2. p \in Packet /\ hdr[e] = p /\ InStep(w)
  <2>1. hdr[e] = out[w] /\ InStep(w) /\ pc[w] \in {"headerAck", "send", "blockAck", "lastAck"}
    BY <1>0 DEF ReadingFrom
  <2> QED BY <1>0, <2>1 DEF Writers, TypeOK
<1>3. /\ chan[e] \in Seq(Token) /\ chan[w] \in Seq(Token) /\ got[e] \in Seq(Token)
      /\ n \in Nat \ {0} /\ Size[p] \in Nat /\ n <= Size[p]
  <2>1. chan[e] \in Seq(Token) /\ chan[w] \in Seq(Token) /\ got[e] \in Seq(Token)
    BY <1>0 DEF TypeOK
  <2>2. Len(got[e]) < Size[p] /\ Size[p] \in Nat
    BY <1>1, <1>2 DEF TypeOK
  <2>3. Len(got[e]) \in Nat
    BY <2>1, LenProperties
  <2>4. n \in Nat \ {0} /\ n <= Size[p]
    BY <2>2, <2>3
  <2> QED BY <2>1, <2>2, <2>4
<1>4. Head(chan[e]) = Data(p, n)
  <2>1. \A i \in 1 .. Len(chan[e]) : chan[e][i] = Data(p, Len(got[e]) + i)
    BY <1>0, <1>2 DEF InStep
  <2>2. 1 \in 1 .. Len(chan[e]) /\ Head(chan[e]) = chan[e][1]
    BY <1>1, <1>3
  <2> QED BY <2>1, <2>2
<1>5. Data(p, n) \in Token
  BY <1>2, <1>3, Tokens
<1>6. /\ chan' \in [End -> Seq(Token)] /\ chan'[e] = Tail(chan[e])
      /\ AcksAt(n, Size[p]) => chan'[w] = Append(chan[w], Ack)
      /\ ~ AcksAt(n, Size[p]) => chan'[w] = chan[w]
  <2>1. CASE AcksAt(n, Size[p])
    <3>1. <<Ack>> \in Seq(Token) /\ chan[w] \o <<Ack>> = Append(chan[w], Ack)
      BY <1>3, Tokens, AppendIsConcat
    <3> QED BY <1>1, <1>2, <2>1, <3>1, Moved DEF AcksAt
  <2>2. CASE ~ AcksAt(n, Size[p])
    <3>1. <<>> \in Seq(Token) /\ chan[w] \o <<>> = chan[w]
      BY <1>3, EmptySeq, ConcatEmptySeq
    <3> QED BY <1>1, <1>2, <2>2, <3>1, Moved DEF AcksAt
  <2> QED BY <2>1, <2>2
<1>7. /\ got' \in [End -> Seq(Token)]
      /\ got'[e] = Append(got[e], Data(p, n)) /\ got'[w] = got[w]
      /\ Len(got'[e]) = n
  <2>1. /\ Append(got[e], Data(p, n)) \in Seq(Token)
        /\ Len(Append(got[e], Data(p, n))) = n
    BY <1>3, <1>5, AppendProperties
  <2> QED BY <1>0, <1>1, <1>4, <2>1 DEF TypeOK
<1>8. CASE n = Size[p]
  <2>1. got'[e] = Body(p)
    <3>1. \A i \in 1 .. Len(got[e]) : got[e][i] = Data(p, i)
      BY <1>0, <1>2 DEF InStep
    <3>2. \A i \in 1 .. Size[p] : got'[e][i] = Data(p, i)
      BY <1>3, <1>5, <1>7, <1>8, <3>1, AppendProperties
    <3>3. got'[e] \in Seq(Token) /\ Len(got'[e]) = Size[p]
      BY <1>7, <1>8
    <3> QED BY <1>2, <3>2, <3>3, Bodies
  <2>2. ReturnPacket(e, p)
    BY <1>1, <1>2, <1>8, <2>1
  <2>3. /\ pc' \in [End -> {"idle", "send", "bytes"} \cup Waits]
        /\ pc'[e] = "idle" /\ pc'[w] = pc[w]
    BY <1>0, <2>2 DEF ReturnPacket, TypeOK
  <2>4. took' \in [End -> Packet \cup {None}] /\ took' = [took EXCEPT ![e] = p]
    BY <1>2, <2>2 DEF ReturnPacket, TypeOK
  <2>5. /\ state' \in [End -> {"open", "taken", "passed", "void"}]
        /\ state'[e] = state[e] /\ state'[w] = "taken"
    BY <1>0, <2>2 DEF ReturnPacket, TypeOK
  <2>6. \A x \in End : pc'[x] = "bytes" => Len(got'[x]) < Size[hdr'[x]]
    BY <1>0, <1>1, <1>7, <2>3 DEF TypeOK
  <2>7. TypeOK'
    BY <1>1, <1>6, <1>7, <2>3, <2>4, <2>5, <2>6 DEF writeVars, TypeOK
  <2>8. Writers'
    BY <1>0, <1>1, <2>3 DEF writeVars, TypeOK, Writers
  <2>9. Same(w)
    BY <1>0, <1>1, <1>7, <2>3 DEF writeVars, Same
  <2> QED
    BY <1>1, <1>2, <1>3, <1>4, <1>6, <1>8, <2>3, <2>4, <2>5, <2>7, <2>8, <2>9
    DEF writeVars
<1>9. CASE n # Size[p]
  <2>1. UNCHANGED <<pc, histVars>> /\ n < Size[p]
    BY <1>1, <1>2, <1>3, <1>9
  <2>2. \A x \in End : pc'[x] = "bytes" => Len(got'[x]) < Size[hdr'[x]]
    BY <1>0, <1>1, <1>2, <1>7, <2>1 DEF TypeOK
  <2>3. TypeOK'
    BY <1>1, <1>6, <1>7, <2>1, <2>2 DEF writeVars, histVars, TypeOK
  <2>4. Writers'
    BY <1>1, <2>1 DEF writeVars, Writers
  <2>5. Same(w)
    BY <1>1, <1>7, <2>1 DEF writeVars, Same
  <2> QED
    BY <1>1, <1>2, <1>3, <1>4, <1>6, <1>7, <2>1, <2>3, <2>4, <2>5
    DEF writeVars, histVars
<1> QED BY <1>8, <1>9

-----------------------------------------------------------------------------
(* From each condition, every step leads to a condition again.             *)

Step(e) ==
  \/ \E p \in Packet : BeginWrite(e, p)
  \/ \E n \in Limit : BeginRead(e, n)
  \/ Progress(e)
  \/ Restart(e)

LEMMA QuietSteps ==
  ASSUME TypeOK, Writers, Quiet, NEW e \in End, Step(e)
  PROVE  IInv'
<1> DEFINE r == Peer(e)
<1>0. r \in End /\ r # e /\ Peer(r) = e /\ \A x \in End : x = e \/ x = r
  BY Ends
<1>1. /\ pc[e] \in {"idle", "header"} /\ pc[r] \in {"idle", "header"}
      /\ chan[e] = <<>> /\ chan[r] = <<>>
  BY <1>0 DEF Quiet, Listening
<1>2. CASE \E p \in Packet : BeginWrite(e, p)
  <2>1. PICK p \in Packet : BeginWrite(e, p)
    BY <1>2
  <2>2. Append(<<>>, Header(p)) = <<Header(p)>>
    BY Tokens, Short
  <2>3. /\ TypeOK' /\ Writers' /\ Same(r) /\ pc'[e] = "headerAck"
        /\ out'[e] = p /\ state'[e] = "open" /\ chan'[e] = <<>>
        /\ chan'[r] \in {<<>>, <<Header(p)>>}
    <3>1. /\ TypeOK' /\ Writers' /\ Same(r) /\ pc'[e] = "headerAck"
          /\ out'[e] = p /\ state'[e] = "open" /\ chan'[e] = chan[e]
          /\ chan'[r] = Append(chan[r], Header(p)) \/ chan'[r] = chan[r]
      BY <2>1, BeginWriteDoes
    <3> QED BY <1>1, <2>2, <3>1
  <2>4. Offered(e)'
    BY <1>1, <2>3 DEF Offered, Announced, Listening, Same
  <2> QED BY <2>3, <2>4 DEF IInv, Condition
<1>3. CASE \E n \in Limit : BeginRead(e, n)
  <2>1. TypeOK' /\ Writers' /\ Quiet'
    BY <1>0, <1>1, <1>3, BeginReadDoes DEF Quiet, Listening, Same
  <2> QED BY <2>1 DEF IInv, Condition
<1>4. CASE Restart(e)
  <2>1. TypeOK' /\ Writers' /\ Quiet'
    BY <1>0, <1>1, <1>4, RestartDoes DEF Quiet, Listening, Same
  <2> QED BY <2>1 DEF IInv, Condition
<1>5. ~ Progress(e)
  BY <1>1 DEF Progress, Discard, HeaderReply, SendByte, BlockReply, LastReply,
              ReadHeader, ReadByte, HeaderHere
<1> QED BY <1>2, <1>3, <1>4, <1>5 DEF Step

LEMMA OfferedSteps ==
  ASSUME TypeOK, Writers, NEW w \in End, Offered(w), NEW e \in End, Step(e)
  PROVE  IInv'
<1> DEFINE r == Peer(w)
<1>0. r \in End /\ r # w /\ Peer(r) = w /\ \A x \in End : x = w \/ x = r
  BY Ends
<1>1. /\ pc[w] = "headerAck" /\ state[w] = "open" /\ chan[w] = <<>>
      /\ pc[r] \in {"idle", "header"} /\ chan[r] \in {<<>>, <<Header(out[w])>>}
  BY DEF Offered, Announced, Listening
<1>2. out[w] \in Packet /\ out[w] # None /\ sent[w] = 0
  BY <1>1 DEF Writers, TypeOK
<1>3. e = r
  <2>1. ~ Step(w)
    BY <1>1 DEF Step, BeginWrite, BeginRead, Restart, Progress, Discard,
                HeaderReply, SendByte, BlockReply, LastReply, ReadHeader,
                ReadByte, TakeAnswer, HeaderHere
  <2> QED BY <1>0, <2>1
<1>4. CASE \E p \in Packet : BeginWrite(r, p)
  <2>1. PICK p \in Packet : BeginWrite(r, p)
    BY <1>4
  <2>2. Append(<<>>, Header(p)) = <<Header(p)>>
    BY Tokens, Short
  <2>3. /\ TypeOK' /\ Writers' /\ Same(w) /\ pc'[r] = "headerAck"
        /\ out'[r] = p /\ state'[r] = "open" /\ state'[w] = state[w]
        /\ chan'[r] = chan[r] /\ chan'[w] \in {<<>>, <<Header(p)>>}
    <3>1. /\ TypeOK' /\ Writers' /\ Same(w) /\ pc'[r] = "headerAck"
          /\ out'[r] = p /\ state'[r] = "open" /\ state'[w] = state[w]
          /\ chan'[r] = chan[r]
          /\ chan'[w] = Append(chan[w], Header(p)) \/ pc[w] = "idle"
      BY <1>0, <2>1, BeginWriteDoes
    <3> QED BY <1>1, <2>2, <3>1
  <2>4. Crossed(w)'
    BY <1>1, <2>3 DEF Crossed, Announced, Same
  <2> QED BY <2>3, <2>4 DEF IInv, Condition
<1>5. CASE \E n \in Limit : BeginRead(r, n)
  <2>1. TypeOK' /\ Writers' /\ Offered(w)'
    BY <1>0, <1>1, <1>5, BeginReadDoes DEF Offered, Announced, Listening, Same
  <2> QED BY <2>1 DEF IInv, Condition
<1>6. CASE Restart(r)
  <2>1. TypeOK' /\ Writers' /\ Passed(w)'
    BY <1>0, <1>1, <1>2, <1>6, RestartDoes DEF Passed, Listening, AllData, Same
  <2> QED BY <2>1 DEF IInv, Condition
<1>7. CASE ReadHeader(r)
  <2>1. /\ chan[r] = <<Header(out[w])>> /\ Head(chan[r]) = Header(out[w])
        /\ Head(chan[r]) # Ack /\ Tail(chan[r]) = <<>>
    <3>1. chan[r] = <<Header(out[w])>>
      BY <1>0, <1>1, <1>7 DEF ReadHeader, HeaderHere
    <3>2. Header(out[w]) \in Token /\ Header(out[w]) # Ack
      BY <1>2, Tokens
    <3> QED BY <3>1, <3>2, Short
  <2>2. \A p \in Packet : Head(chan[r]) = Header(p) => p = out[w]
    BY <1>2, <2>1, Tokens
  <2>3. Append(<<>>, Ack) = <<Ack>>
    BY Tokens, Short
  <2>4. /\ TypeOK' /\ Writers' /\ Same(w) /\ chan'[r] = <<>> /\ chan'[w] = <<Ack>>
        /\ \/ /\ Size[out[w]] > 0 /\ pc'[r] = "idle" /\ state'[w] = "passed"
           \/ /\ Size[out[w]] = 0 /\ pc'[r] = "idle" /\ state'[w] = "taken"
           \/ /\ Size[out[w]] > 0 /\ pc'[r] = "bytes" /\ state' = state
              /\ hdr'[r] = out[w] /\ got'[r] = <<>>
    <3>1. PICK p \in Packet :
            /\ Head(chan[r]) = Header(p) /\ chan'[w] = Append(chan[w], Ack)
            /\ \/ /\ Size[p] > 0 /\ pc'[r] = "idle"
                  /\ state'[w] = IF out[w] # None /\ state[w] = "open"
                                   THEN "passed" ELSE state[w]
               \/ Size[p] = 0 /\ pc'[r] = "idle" /\ state'[w] = "taken"
               \/ /\ Size[p] > 0 /\ pc'[r] = "bytes" /\ state' = state
                  /\ hdr'[r] = p /\ got'[r] = <<>>
      BY <1>0, <1>7, <2>1, ReadHeaderDoes
    <3>2. TypeOK' /\ Writers' /\ Same(w) /\ chan'[r] = <<>>
      BY <1>0, <1>7, <2>1, ReadHeaderDoes
    <3>3. p = out[w]
      BY <2>2, <3>1
    <3> QED BY <1>1, <1>2, <2>3, <3>1, <3>2, <3>3
  <2>5. CASE Size[out[w]] > 0 /\ pc'[r] = "idle" /\ state'[w] = "passed"
    <3>1. Passed(w)'
      BY <1>0, <1>1, <2>4, <2>5 DEF Passed, Listening, AllData, Same
    <3> QED BY <2>4, <3>1 DEF IInv, Condition
  <2>6. CASE Size[out[w]] = 0 /\ pc'[r] = "idle" /\ state'[w] = "taken"
    <3>1. Taken(w)'
      BY <1>0, <1>1, <2>4, <2>6 DEF Taken, Listening, Same
    <3> QED BY <2>4, <3>1 DEF IInv, Condition
  <2>7. CASE /\ Size[out[w]] > 0 /\ pc'[r] = "bytes" /\ state' = state
             /\ hdr'[r] = out[w] /\ got'[r] = <<>>
    <3>1. InStep(w)'
      BY <1>0, <1>2, <2>4, <2>7 DEF InStep, Same
    <3>2. ReadingFrom(w)'
      BY <1>0, <1>1, <2>4, <2>7, <3>1 DEF ReadingFrom, Same
    <3> QED BY <2>4, <3>2 DEF IInv, Condition
  <2> QED BY <2>4, <2>5, <2>6, <2>7
<1>8. Progress(r) => ReadHeader(r)
  <2>1. ~ Discard(r)
    BY <1>1, <1>2, Tokens, Short DEF Discard
  <2> QED BY <1>1, <2>1 DEF Progress, HeaderReply, SendByte, BlockReply, LastReply, ReadByte
<1> QED BY <1>3, <1>4, <1>5, <1>6, <1>7, <1>8 DEF Step

LEMMA CrossedSteps ==
  ASSUME TypeOK, Writers, NEW e \in End, Crossed(e), Step(e)
  PROVE  IInv'
<1> DEFINE r == Peer(e)
<1>0. r \in End /\ r # e /\ Peer(r) = e /\ \A x \in End : x = e \/ x = r
  BY Ends
<1>1. /\ pc[e] = "headerAck" /\ chan[e] \in {<<>>, <<Header(out[r])>>}
      /\ pc[r] = "headerAck" /\ chan[r] \in {<<>>, <<Header(out[e])>>}
  BY DEF Crossed, Announced
<1>2. out[e] \in Packet /\ out[r] \in Packet /\ out[r] # None
  BY <1>0, <1>1 DEF Writers, TypeOK
<1>3. HeaderReply(e)
  <2>1. ~ Discard(e)
    BY <1>1, <1>2, Tokens, Short DEF Discard
  <2> QED
    BY <1>1, <2>1 DEF Step, BeginWrite, BeginRead, Restart, Progress, SendByte,
                      BlockReply, LastReply, ReadHeader, ReadByte
<1>4. TypeOK' /\ Writers' /\ Same(r) /\ Answers(e)
  BY <1>3, HeaderReplyDoes
<1>5. /\ Head(chan[e]) # Ack /\ Tail(chan[e]) = <<>>
  <2>1. chan[e] = <<Header(out[r])>>
    BY <1>1, <1>4 DEF Answers
  <2>2. Header(out[r]) \in Token /\ Header(out[r]) # Ack
    BY <1>2, Tokens
  <2> QED BY <2>1, <2>2, Short
<1>6. pc'[e] = "idle"
  BY <1>3, <1>5, HeaderReplyDoes
<1>7. state'[r] = "void" /\ chan'[e] = <<>> /\ chan'[r] = chan[r]
  BY <1>2, <1>4, <1>5 DEF Answers
<1>8. Stale(chan'[r])
  BY <1>1, <1>2, <1>7 DEF Stale, AllData
<1>9. Voided(r)'
  BY <1>0, <1>1, <1>4, <1>6, <1>7, <1>8 DEF Voided, Listening, Same
<1> QED BY <1>0, <1>4, <1>9 DEF IInv, Condition

LEMMA TakenSteps ==
  ASSUME TypeOK, Writers, NEW w \in End, Taken(w), NEW e \in End, Step(e)
  PROVE  IInv'
<1> DEFINE r == Peer(w)
<1>0. r \in End /\ r # w /\ Peer(r) = w /\ \A x \in End : x = w \/ x = r
  BY Ends
<1>1. /\ state[w] = "taken" /\ chan[r] = <<>>
      /\ pc[w] = "lastAck" \/ (pc[w] = "headerAck" /\ Size[out[w]] = 0)
      /\ \/ pc[r] \in {"idle", "header"} /\ chan[w] = <<Ack>>
         \/ /\ pc[r] = "headerAck" /\ state[r] = "open"
            /\ chan[w] = <<Ack, Header(out[r])>>
  BY DEF Taken, Listening, Announced
<1>2. pc[r] = "headerAck" => out[r] \in Packet
  BY <1>0 DEF Writers, TypeOK
<1>3. CASE e = w
  <2>1. HeaderReply(w) \/ LastReply(w)
    <3>1. Head(chan[w]) = Ack
      BY <1>1, <1>2, Tokens, Short
    <3>2. ~ Discard(w)
      BY <3>1, Tokens DEF Discard
    <3> QED
      BY <1>1, <1>3, <3>2 DEF Step, BeginWrite, BeginRead, Restart, Progress,
                              SendByte, BlockReply, ReadHeader, ReadByte
  <2>2. TypeOK' /\ Writers' /\ Same(r) /\ Answers(w) /\ pc'[w] = "idle"
    BY <1>1, <2>1, HeaderReplyDoes, LastReplyDoes
  <2>3. CASE pc[r] \in {"idle", "header"} /\ chan[w] = <<Ack>>
    <3>1. Tail(chan[w]) = <<>>
      BY <2>3, Tokens, Short
    <3>2. Quiet'
      BY <1>0, <1>1, <2>2, <2>3, <3>1 DEF Quiet, Listening, Answers, Same
    <3> QED BY <2>2, <3>2 DEF IInv, Condition
  <2>4. CASE /\ pc[r] = "headerAck" /\ state[r] = "open"
             /\ chan[w] = <<Ack, Header(out[r])>>
    <3>1. Head(chan[w]) = Ack /\ Tail(chan[w]) = <<Header(out[r])>>
      <4>1. Ack \in Token /\ Header(out[r]) \in Token
        BY <1>2, <2>4, Tokens
      <4> QED BY <2>4, <4>1, Short
    <3>2. Offered(r)'
      BY <1>0, <1>1, <2>2, <2>4, <3>1 DEF Offered, Announced, Listening, Answers, Same
    <3> QED BY <1>0, <2>2, <3>2 DEF IInv, Condition
  <2> QED BY <1>1, <2>3, <2>4
<1>4. CASE e = r
  <2>1. CASE \E p \in Packet : BeginWrite(r, p)
    <3>1. PICK p \in Packet : BeginWrite(r, p)
      BY <2>1
    <3>2. Append(<<Ack>>, Header(p)) = <<Ack, Header(p)>>
      <4>1. Ack \in Token /\ Header(p) \in Token
        BY Tokens
      <4> QED BY <4>1, Short
    <3>3. /\ TypeOK' /\ Writers' /\ Same(w) /\ pc[r] = "idle" /\ pc'[r] = "headerAck"
          /\ out'[r] = p /\ state'[r] = "open" /\ state'[w] = state[w]
          /\ chan'[r] = chan[r]
          /\ chan'[w] = Append(chan[w], Header(p)) \/ pc[w] = "idle"
      BY <1>0, <3>1, BeginWriteDoes
    <3>4. chan'[w] = <<Ack, Header(p)>>
      BY <1>1, <3>2, <3>3
    <3>5. Taken(w)'
      BY <1>1, <3>3, <3>4 DEF Taken, Announced, Same
    <3> QED BY <3>3, <3>5 DEF IInv, Condition
  <2>2. CASE \E n \in Limit : BeginRead(r, n)
    <3>1. TypeOK' /\ Writers' /\ Taken(w)'
      BY <1>0, <1>1, <2>2, BeginReadDoes DEF Taken, Listening, Same
    <3> QED BY <3>1 DEF IInv, Condition
  <2>3. CASE Restart(r)
    <3>1. TypeOK' /\ Writers' /\ Taken(w)'
      BY <1>0, <1>1, <2>3, RestartDoes DEF Taken, Listening, Same
    <3> QED BY <3>1 DEF IInv, Condition
  <2>4. ~ Progress(r)
    BY <1>1 DEF Progress, Discard, HeaderReply, SendByte, BlockReply, LastReply,
                ReadHeader, ReadByte, TakeAnswer, HeaderHere
  <2> QED BY <1>4, <2>1, <2>2, <2>3, <2>4 DEF Step
<1> QED BY <1>0, <1>3, <1>4

(* The reader: the byte it reads is the next one of the packet, and when   *)
(* it acknowledges a block the writer is waiting for that.                 *)
LEMMA ByteRead ==
  ASSUME TypeOK, Writers, NEW w \in End, ReadingFrom(w), ReadByte(Peer(w))
  PROVE  IInv'
<1> DEFINE r == Peer(w)
<1>0. r \in End /\ r # w /\ Peer(r) = w
  BY Ends
<1>n. PICK n \in Nat, p \in Packet : n = Len(got[r]) + 1 /\ p = out[w]
  <2>1. Len(got[r]) \in Nat
    BY <1>0, LenProperties DEF TypeOK
  <2>2. pc[w] \in {"headerAck", "send", "blockAck", "lastAck"}
    BY DEF ReadingFrom
  <2>3. out[w] \in Packet
    BY <2>2 DEF Writers, TypeOK
  <2> QED BY <2>1, <2>3
<1>1. /\ TypeOK' /\ Writers' /\ Same(w)
      /\ hdr'[r] = p /\ n # 0
      /\ chan[r] # <<>> /\ Head(chan[r]) = Data(p, n)
      /\ chan'[r] = Tail(chan[r])
      /\ AcksAt(n, Size[p]) => chan'[w] = Append(chan[w], Ack)
      /\ ~ AcksAt(n, Size[p]) => chan'[w] = chan[w]
      /\ \/ n = Size[p] /\ pc'[r] = "idle" /\ state'[w] = "taken"
         \/ /\ n < Size[p] /\ pc'[r] = "bytes" /\ state' = state
            /\ got'[r] = Append(got[r], Head(chan[r]))
  <2>1. /\ ReadByte(r) /\ ReadingFrom(Peer(r)) /\ n = Len(got[r]) + 1
        /\ p = out[Peer(r)]
    BY <1>0, <1>n
  <2> HIDE DEF r
  <2>2. /\ TypeOK' /\ Writers' /\ Same(Peer(r))
        /\ hdr'[r] = p /\ n # 0 /\ chan[r] # <<>> /\ Head(chan[r]) = Data(p, n)
        /\ chan'[r] = Tail(chan[r])
    BY <1>0, <2>1, ReadByteDoes
  <2>3. /\ AcksAt(n, Size[p]) => chan'[Peer(r)] = Append(chan[Peer(r)], Ack)
        /\ ~ AcksAt(n, Size[p]) => chan'[Peer(r)] = chan[Peer(r)]
    BY <1>0, <2>1, ReadByteDoes
  <2>4. \/ n = Size[p] /\ pc'[r] = "idle" /\ state'[Peer(r)] = "taken"
        \/ /\ n < Size[p] /\ pc'[r] = "bytes" /\ state' = state
           /\ got'[r] = Append(got[r], Head(chan[r]))
    BY <1>0, <2>1, ReadByteDoes
  <2> QED BY <1>0, <2>2, <2>3, <2>4
<1>2. /\ state[w] = "open" /\ InStep(w)
      /\ \/ pc[w] = "headerAck"
         \/ pc[w] = "send" /\ chan[w] = <<>> /\ sent[w] < Size[p]
         \/ /\ pc[w] = "blockAck" /\ chan[w] = <<>>
            /\ sent[w] < Size[p] /\ sent[w] % Block = 0
         \/ pc[w] = "lastAck" /\ chan[w] = <<>> /\ sent[w] = Size[p]
  BY <1>1, <1>n DEF ReadingFrom
<1>3. /\ chan[r] \in Seq(Token) /\ got[r] \in Seq(Token)
      /\ Len(chan[r]) \in Nat \ {0} /\ sent[w] \in Nat /\ Size[p] \in Nat
      /\ chan'[r] \in Seq(Token) /\ Len(chan'[r]) = Len(chan[r]) - 1
      /\ \A i \in 1 .. Len(chan'[r]) : chan'[r][i] = chan[r][i + 1]
  <2>1. chan[r] \in Seq(Token) /\ got[r] \in Seq(Token)
    BY <1>0 DEF TypeOK
  <2>2. sent[w] \in Nat /\ Size[p] \in Nat
    BY <1>1, <1>n DEF TypeOK
  <2>3. Len(chan[r]) \in Nat \ {0}
    BY <1>1, <2>1, EmptySeq, LenProperties
  <2> QED BY <1>1, <2>1, <2>2, <2>3, HeadTailProperties
<1>4. /\ sent[w] = n - 1 + Len(chan[r]) /\ n \in n .. sent[w]
      /\ \A i \in 1 .. n - 1 : got[r][i] = Data(p, i)
      /\ \A i \in 1 .. Len(chan[r]) : chan[r][i] = Data(p, n - 1 + i)
      /\ \A j \in n .. sent[w] : j % Block = 0 =>
           j = sent[w] /\ pc[w] \in {"blockAck", "lastAck"}
  <2>1. Len(got[r]) = n - 1
    BY <1>3, <1>n, LenProperties
  <2>2. /\ sent[w] = n - 1 + Len(chan[r])
        /\ \A i \in 1 .. n - 1 : got[r][i] = Data(p, i)
        /\ \A i \in 1 .. Len(chan[r]) : chan[r][i] = Data(p, n - 1 + i)
        /\ \A j \in n .. sent[w] : j % Block = 0 =>
             j = sent[w] /\ pc[w] \in {"blockAck", "lastAck"}
    BY <1>2, <1>n, <2>1 DEF InStep
  <2>3. n \in n .. sent[w]
    BY <1>3, <2>2
  <2> QED BY <2>2, <2>3
<1>5. pc[w] # "headerAck"
  BY <1>1, <1>3, <1>4 DEF Writers
<1>6. CASE n = Size[p]
  <2>1. pc[w] = "lastAck" /\ chan[w] = <<>> /\ sent[w] = n
    BY <1>1, <1>2, <1>3, <1>4, <1>5, <1>6
  <2>2. chan'[r] = <<>>
    BY <1>3, <1>4, <2>1, EmptySeq
  <2>3. chan'[w] = <<Ack>>
    BY <1>1, <1>6, <2>1, Tokens, Short DEF AcksAt
  <2>4. Taken(w)'
    <3>1. pc'[r] = "idle" /\ state'[w] = "taken" /\ pc'[w] = "lastAck"
      BY <1>1, <1>6, <2>1 DEF Same
    <3> QED BY <2>2, <2>3, <3>1 DEF Taken, Listening
  <2> QED BY <1>1, <2>4 DEF IInv, Condition
<1>7. CASE n < Size[p]
  <2>1. /\ pc'[r] = "bytes" /\ state'[w] = "open"
        /\ got'[r] = Append(got[r], Data(p, n))
    BY <1>1, <1>2, <1>7
  <2>2. /\ Len(got'[r]) = n /\ \A i \in 1 .. n : got'[r][i] = Data(p, i)
    <3>1. Data(p, n) \in Token
      BY <1>1, <1>3, <1>7, Tokens
    <3>2. /\ Len(got'[r]) = Len(got[r]) + 1 /\ got'[r][n] = Data(p, n)
          /\ \A i \in 1 .. Len(got[r]) : got'[r][i] = got[r][i]
      BY <1>3, <1>n, <2>1, <3>1, AppendProperties
    <3>3. Len(got[r]) \in Nat
      BY <1>3, LenProperties
    <3> QED BY <1>4, <1>n, <3>2, <3>3
  <2>3. /\ sent[w] = n + Len(chan'[r])
        /\ \A i \in 1 .. Len(chan'[r]) : chan'[r][i] = Data(p, n + i)
        /\ \A j \in n + 1 .. sent[w] : j % Block = 0 =>
             j = sent[w] /\ pc[w] \in {"blockAck", "lastAck"}
    <3>1. sent[w] = n + Len(chan'[r])
      BY <1>1, <1>3, <1>4
    <3>2. ASSUME NEW i \in 1 .. Len(chan'[r])
          PROVE  chan'[r][i] = Data(p, n + i)
      <4>1. i + 1 \in 1 .. Len(chan[r]) /\ n - 1 + (i + 1) = n + i
        <5>1. Len(chan'[r]) = Len(chan[r]) - 1 /\ Len(chan[r]) \in Nat
          BY <1>3
        <5> QED BY <5>1
      <4> QED BY <1>3, <1>4, <4>1
    <3>3. \A j \in n + 1 .. sent[w] : j \in n .. sent[w]
      BY <1>1, <1>3
    <3> QED BY <1>4, <3>1, <3>2, <3>3
  <2>4. InStep(w)'
    BY <1>1, <1>n, <2>2, <2>3 DEF InStep, Same
  <2>5. CASE n % Block = 0
    <3>1. pc[w] = "blockAck" /\ n = sent[w]
      <4>1. n = sent[w] /\ pc[w] \in {"blockAck", "lastAck"}
        BY <1>4, <2>5
      <4> QED BY <1>2, <1>3, <1>7, <4>1
    <3>2. chan'[r] = <<>> /\ chan'[w] = <<Ack>>
      <4>1. chan'[r] = <<>>
        BY <1>3, <1>4, <3>1, EmptySeq
      <4>2. chan'[w] = Append(<<>>, Ack)
        BY <1>1, <1>2, <2>5, <3>1 DEF AcksAt
      <4> QED BY <4>1, <4>2, Tokens, Short
    <3>3. ReadingFrom(w)'
      BY <1>1, <1>2, <1>n, <2>1, <2>4, <3>1, <3>2 DEF ReadingFrom, Same
    <3> QED BY <1>1, <3>3 DEF IInv, Condition
  <2>6. CASE n % Block # 0
    <3>1. chan'[w] = chan[w]
      BY <1>1, <1>3, <1>7, <2>6 DEF AcksAt
    <3>2. pc[w] = "blockAck" => chan'[r] # <<>>
      <4>1. pc[w] = "blockAck" => n # sent[w]
        BY <1>2, <2>6
      <4>2. Len(chan'[r]) = 0 => n = sent[w]
        BY <1>3, <1>4
      <4> QED BY <4>1, <4>2, EmptySeq
    <3>3. ReadingFrom(w)'
      BY <1>1, <1>2, <1>5, <1>n, <2>1, <2>4, <3>1, <3>2 DEF ReadingFrom, Same
    <3> QED BY <1>1, <3>3 DEF IInv, Condition
  <2> QED BY <2>5, <2>6
<1> QED BY <1>1, <1>6, <1>7

(* The writer: it sends a byte only while no block waits for its ACK.      *)
LEMMA ByteSent ==
  ASSUME TypeOK, Writers, NEW w \in End, ReadingFrom(w), SendByte(w)
  PROVE  IInv'
<1> DEFINE r == Peer(w)
<1>0. r \in End /\ r # w /\ Peer(r) = w
  BY Ends
<1>1. /\ pc[w] = "send" /\ chan[w] = <<>> /\ sent[w] < Size[out[w]]
      /\ pc[r] = "bytes" /\ hdr[r] = out[w] /\ state[w] = "open" /\ InStep(w)
  BY DEF SendByte, ReadingFrom
<1>2. PICK n \in Nat, p \in Packet : n = sent[w] + 1 /\ p = out[w]
  BY <1>1 DEF Writers, TypeOK
<1>3. /\ TypeOK' /\ Writers' /\ Same(r) /\ state' = state
      /\ pc'[w] = AfterByte(n, Size[p]) /\ out'[w] = p /\ sent'[w] = n
      /\ Data(p, n) \in Token
      /\ chan'[w] = <<>> /\ chan'[r] = Append(chan[r], Data(p, n))
  BY <1>1, <1>2, SendByteDoes
<1>4. /\ chan[r] \in Seq(Token) /\ chan'[r] \in Seq(Token) /\ chan'[r] # <<>>
      /\ Len(chan[r]) \in Nat /\ Len(chan'[r]) = Len(chan[r]) + 1
      /\ chan'[r][Len(chan[r]) + 1] = Data(p, n)
      /\ \A i \in 1 .. Len(chan[r]) : chan'[r][i] = chan[r][i]
      /\ Len(got[r]) \in Nat /\ Size[p] \in Nat /\ n <= Size[p]
  <2>1. chan[r] \in Seq(Token) /\ got[r] \in Seq(Token)
    BY <1>0 DEF TypeOK
  <2>2. Size[p] \in Nat /\ n <= Size[p]
    BY <1>1, <1>2 DEF TypeOK
  <2> QED BY <1>3, <2>1, <2>2, AppendProperties, LenProperties
<1>5. /\ n - 1 = Len(got[r]) + Len(chan[r])
      /\ \A i \in 1 .. Len(got[r]) : got[r][i] = Data(p, i)
      /\ \A i \in 1 .. Len(chan[r]) : chan[r][i] = Data(p, Len(got[r]) + i)
      /\ \A j \in Len(got[r]) + 1 .. n - 1 : j % Block # 0
  <2>1. sent[w] = n - 1
    BY <1>2 DEF TypeOK
  <2> QED BY <1>1, <1>2, <2>1 DEF InStep
<1>6. InStep(w)'
  <2>0. /\ Len(got[r]) \in Nat /\ Len(chan[r]) \in Nat
        /\ Len(chan'[r]) = Len(chan[r]) + 1 /\ n - 1 = Len(got[r]) + Len(chan[r])
    BY <1>4, <1>5
  <2>1. n = Len(got[r]) + Len(chan'[r])
    <3>1. \A a, b \in Nat : n - 1 = a + b => n = a + (b + 1)
      OBVIOUS
    <3> QED BY <2>0, <3>1
  <2>2. ASSUME NEW i \in 1 .. Len(chan'[r])
        PROVE  chan'[r][i] = Data(p, Len(got[r]) + i)
    <3>1. i \in 1 .. Len(chan[r]) \/ (i = Len(chan[r]) + 1 /\ Len(got[r]) + i = n)
      BY <2>0
    <3> QED BY <1>4, <1>5, <3>1
  <2>3. ASSUME NEW j \in Len(got[r]) + 1 .. n, j % Block = 0
        PROVE  j = n /\ pc'[w] \in {"blockAck", "lastAck"}
    <3>1. j = n
      BY <1>4, <1>5, <2>3
    <3> QED BY <1>3, <1>4, <2>3, <3>1 DEF AfterByte
  <2> QED BY <1>3, <1>5, <2>1, <2>2, <2>3 DEF InStep, Same
<1>7. /\ pc'[w] = "send" => n < Size[p]
      /\ pc'[w] = "blockAck" => n < Size[p] /\ n % Block = 0
      /\ pc'[w] = "lastAck" => n = Size[p]
      /\ pc'[w] \in {"send", "blockAck", "lastAck"}
  BY <1>3, <1>4 DEF AfterByte
<1>8. ReadingFrom(w)'
  <2>1. /\ pc'[r] = "bytes" /\ hdr'[r] = out'[w] /\ state'[w] = "open"
    BY <1>1, <1>2, <1>3 DEF Same
  <2> QED BY <1>3, <1>4, <1>6, <1>7, <2>1 DEF ReadingFrom
<1> QED BY <1>3, <1>8 DEF IInv, Condition

LEMMA ReadingSteps ==
  ASSUME TypeOK, Writers, NEW w \in End, ReadingFrom(w), NEW e \in End, Step(e)
  PROVE  IInv'
<1> DEFINE r == Peer(w)
<1>0. r \in End /\ r # w /\ Peer(r) = w /\ \A x \in End : x = w \/ x = r
  BY Ends
<1>1. /\ pc[r] = "bytes" /\ hdr[r] = out[w] /\ state[w] = "open" /\ InStep(w)
      /\ \/ pc[w] = "headerAck" /\ chan[w] = <<Ack>>
         \/ pc[w] = "send" /\ chan[w] = <<>> /\ sent[w] < Size[out[w]]
         \/ /\ pc[w] = "blockAck"
            /\ sent[w] < Size[out[w]] /\ sent[w] % Block = 0
            /\ chan[w] = IF chan[r] = <<>> THEN <<Ack>> ELSE <<>>
         \/ pc[w] = "lastAck" /\ chan[w] = <<>> /\ sent[w] = Size[out[w]]
  BY DEF ReadingFrom
<1>2. out[w] \in Packet /\ out[w] # None /\ Size[out[w]] \in Nat /\ Size[out[w]] > 0
  <2>1. out[w] \in Packet
    BY <1>1 DEF Writers, TypeOK
  <2>2. Len(got[r]) \in Nat /\ Len(got[r]) < Size[out[w]] /\ Size[out[w]] \in Nat
    BY <1>0, <1>1, <2>1, LenProperties DEF TypeOK
  <2> QED BY <2>1, <2>2
<1>3. Ack \in Token /\ Head(<<Ack>>) = Ack /\ Tail(<<Ack>>) = <<>> /\ Ack.kind = "ack"
  BY Tokens, Short
<1>4. CASE Restart(r)
  <2>1. /\ TypeOK' /\ Writers' /\ Same(w) /\ pc'[r] = "idle" /\ state'[w] = "passed"
        /\ chan'[r] = <<>> /\ chan'[w] = chan[w]
    BY <1>0, <1>1, <1>2, <1>4, RestartDoes
  <2>2. Passed(w)'
    BY <1>1, <1>2, <2>1 DEF Passed, Listening, AllData, Same
  <2> QED BY <2>1, <2>2 DEF IInv, Condition
<1>5. CASE HeaderReply(w)
  <2>1. pc[w] = "headerAck" /\ chan[w] = <<Ack>> /\ sent[w] = 0
    BY <1>1, <1>5 DEF HeaderReply, Writers
  <2>2. /\ TypeOK' /\ Writers' /\ Same(r) /\ Answers(w)
        /\ pc'[w] = "send" /\ out'[w] = out[w] /\ sent'[w] = 0
    BY <1>2, <1>3, <1>5, <2>1, HeaderReplyDoes
  <2>3. chan'[w] = <<>> /\ chan'[r] = chan[r] /\ state'[w] = "open"
    BY <1>1, <1>3, <2>1, <2>2 DEF Answers
  <2>4. InStep(w)'
    <3>1. \A j \in Len(got[r]) + 1 .. 0 : FALSE
      BY <1>0, LenProperties DEF TypeOK
    <3> QED BY <1>1, <2>1, <2>2, <2>3, <3>1 DEF InStep, Same
  <2>5. ReadingFrom(w)'
    BY <1>1, <1>2, <2>2, <2>3, <2>4 DEF ReadingFrom, Same
  <2> QED BY <2>2, <2>5 DEF IInv, Condition
<1>6. CASE BlockReply(w)
  <2>1. pc[w] = "blockAck" /\ chan[w] = <<Ack>> /\ chan[r] = <<>> /\ sent[w] < Size[out[w]]
    BY <1>1, <1>6 DEF BlockReply, TakeAnswer, HeaderHere
  <2>2. /\ TypeOK' /\ Writers' /\ Same(r) /\ Answers(w)
        /\ pc'[w] = "send" /\ out'[w] = out[w] /\ sent'[w] = sent[w]
    BY <1>6, BlockReplyDoes
  <2>3. chan'[w] = <<>> /\ chan'[r] = <<>> /\ state'[w] = "open"
    BY <1>1, <1>3, <2>1, <2>2 DEF Answers
  <2>4. InStep(w)'
    <3>1. sent[w] = Len(got[r])
      <4>1. Len(got[r]) \in Nat /\ sent[w] = Len(got[r]) + Len(chan[r])
        BY <1>0, <1>1, LenProperties DEF TypeOK, InStep
      <4> QED BY <2>1, <4>1, EmptySeq
    <3>2. \A j \in Len(got[r]) + 1 .. sent[w] : FALSE
      <4>1. Len(got[r]) \in Nat
        BY <1>0, LenProperties DEF TypeOK
      <4> QED BY <3>1, <4>1
    <3> QED BY <1>1, <2>1, <2>2, <2>3, <3>2 DEF InStep, Same
  <2>5. ReadingFrom(w)'
    BY <1>1, <2>1, <2>2, <2>3, <2>4 DEF ReadingFrom, Same
  <2> QED BY <2>2, <2>5 DEF IInv, Condition
<1>7. CASE e = w
  <2>1. ~ Discard(w) /\ ~ LastReply(w)
    BY <1>1, <1>3 DEF Discard, LastReply, TakeAnswer, HeaderHere
  <2>2. HeaderReply(w) \/ BlockReply(w) \/ SendByte(w)
    BY <1>1, <1>7, <2>1 DEF Step, BeginWrite, BeginRead, Restart, Progress,
                            ReadHeader, ReadByte
  <2> QED BY <1>5, <1>6, <2>2, ByteSent
<1>8. CASE e = r
  <2>1. ReadByte(r) \/ Restart(r)
    BY <1>1, <1>8 DEF Step, BeginWrite, BeginRead, Progress, Discard, Waits,
                      HeaderReply, SendByte, BlockReply, LastReply, ReadHeader
  <2> QED BY <1>4, <2>1, ByteRead
<1> QED BY <1>0, <1>7, <1>8

(* The reader of a dropped packet: it finds nothing but data bytes, and    *)
(* may go on to a write of its own.                                        *)
LEMMA PassedReader ==
  ASSUME TypeOK, Writers, NEW w \in End, Passed(w), Step(Peer(w))
  PROVE  IInv'
<1> DEFINE r == Peer(w)
           acked == pc[w] = "blockAck" \/ (pc[w] = "headerAck" /\ Size[out[w]] > 0)
<1>0. r \in End /\ r # w /\ Peer(r) = w
  BY Ends
<1>1. /\ state[w] = "passed" /\ AllData(chan[r])
      /\ \/ pc[w] \in {"headerAck", "lastAck"}
         \/ pc[w] \in {"send", "blockAck"} /\ sent[w] < Size[out[w]]
      /\ \/ Listening(r) /\ (chan[w] = <<>> \/ (acked /\ chan[w] = <<Ack>>))
         \/ /\ Announced(r)
            /\ \/ chan[w] = <<Header(out[r])>>
               \/ acked /\ chan[w] = <<Ack, Header(out[r])>>
         \/ /\ pc[r] = "headerAck" /\ state[r] = "void"
            /\ pc[w] # "headerAck" /\ chan[w] = <<>>
  BY DEF Passed
<1>2. chan[r] \in Seq(Token)
  BY <1>0 DEF TypeOK
<1>3. CASE \E p \in Packet : BeginWrite(r, p)
  <2>1. PICK p \in Packet : BeginWrite(r, p)
    BY <1>3
  <2>2. /\ TypeOK' /\ Writers' /\ Same(w) /\ pc[r] = "idle" /\ pc'[r] = "headerAck"
        /\ out'[r] = p /\ state'[r] = "open" /\ state'[w] = state[w]
        /\ chan'[r] = chan[r]
        /\ chan'[w] = Append(chan[w], Header(p)) \/ pc[w] = "idle"
    BY <1>0, <2>1, BeginWriteDoes
  <2>3. chan'[w] = Append(chan[w], Header(p)) /\ Listening(r)
    BY <1>1, <2>2 DEF Listening
  <2>4. chan[w] = <<>> \/ (acked /\ chan[w] = <<Ack>>)
    BY <1>1, <2>2 DEF Listening, Announced
  <2>5. /\ Append(<<>>, Header(p)) = <<Header(p)>>
        /\ Append(<<Ack>>, Header(p)) = <<Ack, Header(p)>>
    <3>1. Ack \in Token /\ Header(p) \in Token
      BY Tokens
    <3> QED BY <3>1, Short
  <2>6. \/ chan'[w] = <<Header(p)>>
        \/ acked /\ chan'[w] = <<Ack, Header(p)>>
    BY <2>3, <2>4, <2>5
  <2>7. Passed(w)'
    BY <1>1, <2>2, <2>6 DEF Passed, Announced, Same
  <2> QED BY <2>2, <2>7 DEF IInv, Condition
<1>4. CASE \E n \in Limit : BeginRead(r, n)
  <2>1. /\ TypeOK' /\ Writers' /\ Same(w) /\ pc[r] = "idle" /\ pc'[r] = "header"
        /\ state' = state /\ chan' = chan
    BY <1>0, <1>4, BeginReadDoes
  <2>2. Passed(w)'
    BY <1>1, <2>1 DEF Passed, Listening, Announced, Same
  <2> QED BY <2>1, <2>2 DEF IInv, Condition
<1>5. CASE Restart(r)
  <2>1. /\ TypeOK' /\ Writers' /\ Same(w) /\ pc[r] # "headerAck" /\ pc'[r] = "idle"
        /\ chan'[r] = <<>> /\ chan'[w] = chan[w]
    BY <1>0, <1>5, RestartDoes
  <2>2. state'[w] = "passed"
    BY <1>0, <1>1, <1>5, RestartDoes
  <2>3. AllData(chan'[r])
    BY <2>1 DEF AllData
  <2>4. Passed(w)'
    BY <1>1, <2>1, <2>2, <2>3 DEF Passed, Listening, Announced, Same
  <2> QED BY <2>1, <2>4 DEF IInv, Condition
<1>6. CASE Discard(r)
  <2>1. /\ TypeOK' /\ Writers' /\ Same(r) /\ Same(w) /\ state' = state
        /\ chan'[r] = Tail(chan[r]) /\ chan'[w] = chan[w] /\ chan[r] # <<>>
    BY <1>0, <1>6, DiscardDoes
  <2>2. AllData(chan'[r])
    BY <1>1, <1>2, <2>1, DataMoves
  <2>3. Passed(w)'
    BY <1>1, <2>1, <2>2 DEF Passed, Listening, Announced, Same
  <2> QED BY <2>1, <2>3 DEF IInv, Condition
<1>7. Progress(r) => Discard(r)
  <2>1. ~ HeaderHere(r)
    BY <1>1, <1>2, DataMoves DEF HeaderHere
  <2>2. pc[r] \in {"idle", "header", "headerAck"}
    BY <1>1 DEF Listening, Announced
  <2> QED BY <2>1, <2>2 DEF Progress, HeaderReply, SendByte, BlockReply, LastReply,
                            ReadHeader, ReadByte, TakeAnswer
<1> QED BY <1>3, <1>4, <1>5, <1>6, <1>7 DEF Step

(* The writer of a dropped packet: it goes on, block by block, and takes   *)
(* whatever header it finds for an answer.                                 *)
LEMMA PassedWriter ==
  ASSUME TypeOK, Writers, NEW w \in End, Passed(w), Step(w)
  PROVE  IInv'
<1> DEFINE r == Peer(w)
           acked == pc[w] = "blockAck" \/ (pc[w] = "headerAck" /\ Size[out[w]] > 0)
<1>0. r \in End /\ r # w /\ Peer(r) = w
  BY Ends
<1>1. /\ state[w] = "passed" /\ AllData(chan[r])
      /\ \/ pc[w] \in {"headerAck", "lastAck"}
         \/ pc[w] \in {"send", "blockAck"} /\ sent[w] < Size[out[w]]
      /\ \/ Listening(r) /\ (chan[w] = <<>> \/ (acked /\ chan[w] = <<Ack>>))
         \/ /\ Announced(r)
            /\ \/ chan[w] = <<Header(out[r])>>
               \/ acked /\ chan[w] = <<Ack, Header(out[r])>>
         \/ /\ pc[r] = "headerAck" /\ state[r] = "void"
            /\ pc[w] # "headerAck" /\ chan[w] = <<>>
  BY DEF Passed
<1>2. chan[r] \in Seq(Token) /\ out[w] \in Packet /\ Size[out[w]] \in Nat /\ sent[w] \in Nat
  BY <1>0, <1>1 DEF Writers, TypeOK
<1>3. /\ Announced(r) => out[r] \in Packet /\ out[r] # None
      /\ Listening(r) => ~ Announced(r)
      /\ Announced(r) => pc[r] = "headerAck" /\ state[r] = "open"
  BY <1>0 DEF Announced, Listening, Writers, TypeOK
<1>4. /\ Ack \in Token /\ Head(<<Ack>>) = Ack /\ Tail(<<Ack>>) = <<>>
      /\ Ack.kind = "ack"
      /\ Announced(r) =>
           LET h == Header(out[r])
           IN /\ h \in Token /\ h # Ack /\ h.kind = "header"
              /\ Head(<<h>>) = h /\ Tail(<<h>>) = <<>>
              /\ Head(<<Ack, h>>) = Ack /\ Tail(<<Ack, h>>) = <<h>>
  BY <1>3, Tokens, Short
<1>5. CASE SendByte(w)
  <2>1. pc[w] = "send" /\ sent[w] < Size[out[w]] /\ ~ acked
    BY <1>1, <1>5 DEF SendByte
  <2>2. PICK n \in Nat : n = sent[w] + 1
    BY <1>2
  <2>3. /\ TypeOK' /\ Writers' /\ Same(r) /\ state' = state
        /\ pc'[w] = AfterByte(n, Size[out[w]]) /\ out'[w] = out[w] /\ sent'[w] = n
        /\ Data(out[w], n) \in Token
        /\ chan'[w] = chan[w] /\ chan'[r] = Append(chan[r], Data(out[w], n))
    BY <1>5, <2>1, <2>2, SendByteDoes
  <2>4. AllData(chan'[r])
    <3>1. Data(out[w], n).kind = "data"
      BY DEF Data
    <3> QED BY <1>1, <1>2, <2>3, <3>1, DataMoves
  <2>5. /\ pc'[w] \in {"send", "blockAck", "lastAck"}
        /\ pc'[w] # "lastAck" => n < Size[out[w]]
    <3>1. n <= Size[out[w]]
      BY <1>2, <2>1, <2>2
    <3> QED BY <1>2, <2>3, <3>1 DEF AfterByte
  <2>6. Passed(w)'
    <3>1. \/ pc'[w] \in {"headerAck", "lastAck"}
          \/ pc'[w] \in {"send", "blockAck"} /\ sent'[w] < Size[out'[w]]
      BY <2>3, <2>5
    <3>2. pc'[w] # "headerAck"
      BY <2>5
    <3> QED BY <1>1, <2>1, <2>3, <2>4, <3>1, <3>2 DEF Passed, Listening, Announced, Same
  <2> QED BY <2>3, <2>6 DEF IInv, Condition
<1>6. CASE HeaderReply(w) \/ BlockReply(w) \/ LastReply(w)
  <2>1. /\ TypeOK' /\ Writers' /\ Same(r) /\ Answers(w)
    BY <1>6, HeaderReplyDoes, BlockReplyDoes, LastReplyDoes
  <2>2. chan[w] # <<>> /\ chan'[w] = Tail(chan[w]) /\ chan'[r] = chan[r] /\ state'[w] = "passed"
    BY <1>1, <2>1 DEF Answers
  <2>3. CASE Head(chan[w]) = Ack
    <3>1. /\ acked
          /\ \/ Listening(r) /\ chan'[w] = <<>>
             \/ Announced(r) /\ chan'[w] = <<Header(out[r])>>
      BY <1>1, <1>4, <2>2, <2>3
    <3>2. state'[r] = state[r]
      BY <2>1, <2>3 DEF Answers
    <3>3. pc'[w] = "send" /\ out'[w] = out[w] /\ sent'[w] < Size[out'[w]]
      <4>1. CASE HeaderReply(w)
        <5>1. pc[w] = "headerAck" /\ Size[out[w]] > 0
          BY <3>1, <4>1 DEF HeaderReply
        <5> QED BY <1>2, <2>3, <4>1, <5>1, HeaderReplyDoes
      <4>2. CASE BlockReply(w)
        <5>1. pc[w] = "blockAck" /\ sent[w] < Size[out[w]]
          BY <1>1, <4>2 DEF BlockReply
        <5> QED BY <4>2, <5>1, BlockReplyDoes
      <4>3. ~ LastReply(w)
        BY <3>1 DEF LastReply
      <4> QED BY <1>6, <4>1, <4>2, <4>3
    <3>4. Passed(w)'
      BY <1>1, <2>1, <2>2, <3>1, <3>2, <3>3 DEF Passed, Listening, Announced, Same
    <3> QED BY <2>1, <3>4 DEF IInv, Condition
  <2>4. CASE Head(chan[w]) # Ack
    <3>1. Announced(r) /\ chan[w] = <<Header(out[r])>>
      BY <1>1, <1>4, <2>2, <2>4
    <3>2. chan'[w] = <<>> /\ state'[r] = "void" /\ pc'[r] = "headerAck"
      BY <1>3, <1>4, <2>1, <2>2, <2>4, <3>1 DEF Answers, Same
    <3>3. CASE BlockReply(w)
      <4>1. /\ pc'[w] = "send" /\ out'[w] = out[w] /\ sent'[w] = sent[w]
            /\ sent[w] < Size[out[w]]
        BY <1>1, <3>3, BlockReplyDoes
      <4>2. Passed(w)'
        BY <1>1, <2>2, <3>2, <4>1 DEF Passed
      <4> QED BY <2>1, <4>2 DEF IInv, Condition
    <3>4. CASE HeaderReply(w) \/ LastReply(w)
      <4>1. pc'[w] = "idle"
        BY <2>4, <3>4, HeaderReplyDoes, LastReplyDoes
      <4>2. Voided(r)'
        BY <1>0, <1>1, <2>2, <3>2, <4>1 DEF Voided, Listening, Stale
      <4> QED BY <1>0, <2>1, <4>2 DEF IInv, Condition
    <3> QED BY <1>6, <3>3, <3>4
  <2> QED BY <2>3, <2>4
<1>7. SendByte(w) \/ HeaderReply(w) \/ BlockReply(w) \/ LastReply(w)
  <2>1. ~ Discard(w)
    BY <1>1, <1>4 DEF Discard
  <2> QED BY <1>1, <2>1 DEF Step, BeginWrite, BeginRead, Restart, Progress, ReadHeader, ReadByte
<1> QED BY <1>5, <1>6, <1>7

LEMMA FrontMoves ==
  ASSUME NEW s \in Seq(Token), s # <<>>, NEW t \in Token
  PROVE  Head(Append(s, t)) = Head(s) /\ Tail(Append(s, t)) = Append(Tail(s), t)
<1>1. /\ Len(s) \in Nat \ {0} /\ Tail(s) \in Seq(Token) /\ Len(Tail(s)) = Len(s) - 1
      /\ Head(s) = s[1] /\ \A i \in 1 .. Len(s) - 1 : Tail(s)[i] = s[i + 1]
  BY HeadTailProperties, EmptySeq, LenProperties
<1>2. /\ Append(s, t) \in Seq(Token) /\ Len(Append(s, t)) = Len(s) + 1
      /\ \A i \in 1 .. Len(s) : Append(s, t)[i] = s[i]
      /\ Append(s, t)[Len(s) + 1] = t
  BY AppendProperties
<1>3. /\ Tail(Append(s, t)) \in Seq(Token) /\ Len(Tail(Append(s, t))) = Len(s)
      /\ Head(Append(s, t)) = Append(s, t)[1]
      /\ \A i \in 1 .. Len(s) : Tail(Append(s, t))[i] = Append(s, t)[i + 1]
  BY <1>1, <1>2, HeadTailProperties, EmptySeq
<1>4. /\ Append(Tail(s), t) \in Seq(Token) /\ Len(Append(Tail(s), t)) = Len(s)
      /\ \A i \in 1 .. Len(s) - 1 : Append(Tail(s), t)[i] = Tail(s)[i]
      /\ Append(Tail(s), t)[Len(s)] = t
  BY <1>1, AppendProperties
<1>5. ASSUME NEW i \in 1 .. Len(s)
      PROVE  Tail(Append(s, t))[i] = Append(Tail(s), t)[i]
  <2>1. CASE i = Len(s)
    BY <1>1, <1>2, <1>3, <1>4, <2>1
  <2>2. CASE i # Len(s)
    <3>1. i \in 1 .. Len(s) - 1 /\ i + 1 \in 1 .. Len(s)
      <4>1. Len(s) \in Nat \ {0}
        BY <1>1
      <4> QED BY <2>2, <4>1
    <3> QED BY <1>1, <1>2, <1>3, <1>4, <3>1
  <2> QED BY <2>1, <2>2
<1>6. Tail(Append(s, t)) = Append(Tail(s), t)
  BY <1>3, <1>4, <1>5, SeqEqual
<1> QED BY <1>1, <1>2, <1>3, <1>6

(* The end that can start an exchange while the other waits in vain.       *)
LEMMA VoidedReader ==
  ASSUME TypeOK, Writers, NEW w \in End, Voided(w), Step(Peer(w))
  PROVE  IInv'
<1> DEFINE r == Peer(w)
<1>0. r \in End /\ r # w /\ Peer(r) = w
  BY Ends
<1>1. /\ pc[w] = "headerAck" /\ state[w] = "void" /\ chan[r] = <<>>
      /\ \/ Listening(r) /\ Stale(chan[w])
         \/ /\ Announced(r)
            /\ chan[w] # <<>> /\ Stale(AllButLast(chan[w]))
            /\ chan[w][Len(chan[w])] = Header(out[r])
  BY DEF Voided
<1>2. CASE \E p \in Packet : BeginWrite(r, p)
  <2>1. PICK p \in Packet : BeginWrite(r, p)
    BY <1>2
  <2>2. /\ TypeOK' /\ Writers' /\ Same(w) /\ pc[r] = "idle" /\ pc'[r] = "headerAck"
        /\ out'[r] = p /\ state'[r] = "open" /\ state'[w] = state[w]
        /\ chan'[r] = chan[r]
        /\ chan'[w] = Append(chan[w], Header(p)) \/ pc[w] = "idle"
    BY <1>0, <2>1, BeginWriteDoes
  <2>3. chan'[w] = Append(chan[w], Header(p)) /\ Stale(chan[w])
    BY <1>1, <2>2 DEF Announced
  <2>4. /\ AllButLast(chan'[w]) = chan[w] /\ chan'[w] # <<>>
        /\ chan'[w][Len(chan'[w])] = Header(p)
    <3>1. chan[w] \in Seq(Token) /\ Header(p) \in Token
      BY Tokens DEF TypeOK
    <3> QED BY <2>3, <3>1, Last
  <2>5. Announced(r)' /\ Stale(AllButLast(chan'[w]))
    BY <2>2, <2>3, <2>4 DEF Announced
  <2>6. Voided(w)'
    BY <1>1, <2>2, <2>4, <2>5 DEF Voided, Same
  <2> QED BY <2>2, <2>6 DEF IInv, Condition
<1>3. CASE \E n \in Limit : BeginRead(r, n)
  <2>1. /\ TypeOK' /\ Writers' /\ Same(w) /\ pc[r] = "idle" /\ pc'[r] = "header"
        /\ state' = state /\ chan' = chan
    BY <1>0, <1>3, BeginReadDoes
  <2>2. Voided(w)'
    BY <1>1, <2>1 DEF Voided, Listening, Announced, Same
  <2> QED BY <2>1, <2>2 DEF IInv, Condition
<1>4. CASE Restart(r)
  <2>1. /\ TypeOK' /\ Writers' /\ Same(w) /\ pc[r] # "headerAck" /\ pc'[r] = "idle"
        /\ chan'[r] = <<>> /\ chan'[w] = chan[w]
    BY <1>0, <1>4, RestartDoes
  <2>2. state'[w] = "void"
    BY <1>0, <1>1, <1>4, RestartDoes
  <2>3. Voided(w)'
    BY <1>1, <2>1, <2>2 DEF Voided, Listening, Announced, Same
  <2> QED BY <2>1, <2>3 DEF IInv, Condition
<1>5. ~ Progress(r)
  BY <1>1 DEF Listening, Announced, Progress, Discard, HeaderReply, SendByte,
              BlockReply, LastReply, ReadHeader, ReadByte, TakeAnswer, HeaderHere
<1> QED BY <1>2, <1>3, <1>4, <1>5 DEF Step

(* The end that waits in vain: it takes the first header for its answer,   *)
(* be it a stale one or that of the write the other end is in.             *)
LEMMA VoidedWriter ==
  ASSUME TypeOK, Writers, NEW w \in End, Voided(w), Step(w)
  PROVE  IInv'
<1> DEFINE r == Peer(w)
<1>0. r \in End /\ r # w /\ Peer(r) = w /\ \A x \in End : x = w \/ x = r
  BY Ends
<1>1. pc[w] = "headerAck" /\ state[w] = "void" /\ chan[r] = <<>>
  BY DEF Voided
<1>2. chan[w] \in Seq(Token)
  BY DEF TypeOK
<1>3. CASE Discard(w)
  <2>1. /\ TypeOK' /\ Writers' /\ Same(w) /\ Same(r) /\ state' = state
        /\ chan[w] # <<>> /\ Head(chan[w]).kind = "data"
        /\ chan'[w] = Tail(chan[w]) /\ chan'[r] = chan[r]
    BY <1>3, DiscardDoes
  <2>2. CASE Listening(r) /\ Stale(chan[w])
    <3>1. Stale(chan'[w])
      BY <1>2, <2>1, <2>2, Unstale
    <3>2. Voided(w)'
      BY <1>1, <2>1, <2>2, <3>1 DEF Voided, Listening, Same
    <3> QED BY <2>1, <3>2 DEF IInv, Condition
  <2>3. CASE /\ Announced(r)
             /\ chan[w] # <<>> /\ Stale(AllButLast(chan[w]))
             /\ chan[w][Len(chan[w])] = Header(out[r])
    <3>1. PICK u \in Seq(Token), t \in Token :
            chan[w] = Append(u, t) /\ Stale(u) /\ t = Header(out[r])
      BY <1>2, <2>3, Split
    <3>2. u # <<>>
      <4>1. t.kind = "header"
        BY <3>1 DEF Header
      <4>2. u = <<>> => Head(Append(u, t)) = t
        BY <3>1, Short
      <4> QED BY <2>1, <3>1, <4>1, <4>2
    <3>3. /\ chan'[w] = Append(Tail(u), t) /\ Stale(Tail(u)) /\ Tail(u) \in Seq(Token)
      BY <2>1, <3>1, <3>2, FrontMoves, Unstale, HeadTailProperties
    <3>4. /\ chan'[w] # <<>> /\ Stale(AllButLast(chan'[w]))
          /\ chan'[w][Len(chan'[w])] = Header(out[r])
      <4>1. /\ Append(Tail(u), t) # <<>> /\ AllButLast(Append(Tail(u), t)) = Tail(u)
            /\ Append(Tail(u), t)[Len(Append(Tail(u), t))] = t
        BY <3>3, Last
      <4> QED BY <3>1, <3>3, <4>1
    <3>5. Voided(w)'
      BY <1>1, <2>1, <2>3, <3>4 DEF Voided, Announced, Same
    <3> QED BY <2>1, <3>5 DEF IInv, Condition
  <2> QED BY <2>2, <2>3 DEF Voided
<1>4. CASE HeaderReply(w)
  <2>1. /\ TypeOK' /\ Writers' /\ Same(r) /\ Answers(w)
    BY <1>4, HeaderReplyDoes
  <2>2. /\ chan[w] # <<>> /\ Head(chan[w]).kind # "data"
        /\ chan'[w] = Tail(chan[w]) /\ chan'[r] = <<>>
    BY <1>1, <2>1 DEF Answers
  <2>3. Head(chan[w]) # Ack => pc'[w] = "idle"
    BY <1>4, HeaderReplyDoes
  <2>4. CASE Listening(r) /\ Stale(chan[w])
    <3>1. chan'[w] = <<>> /\ pc'[w] = "idle"
      BY <1>2, <2>2, <2>3, <2>4, Unstale
    <3>2. Quiet'
      BY <1>0, <2>1, <2>2, <2>4, <3>1 DEF Quiet, Listening, Same
    <3> QED BY <2>1, <3>2 DEF IInv, Condition
  <2>5. CASE /\ Announced(r)
             /\ chan[w] # <<>> /\ Stale(AllButLast(chan[w]))
             /\ chan[w][Len(chan[w])] = Header(out[r])
    <3>1. PICK u \in Seq(Token), t \in Token :
            chan[w] = Append(u, t) /\ Stale(u) /\ t = Header(out[r])
      BY <1>2, <2>5, Split
    <3>2. /\ out[r] \in Packet /\ out[r] # None /\ t # Ack /\ t.kind = "header"
          /\ pc[r] = "headerAck" /\ state[r] = "open"
      <4>1. out[r] \in Packet /\ out[r] # None
        BY <1>0, <2>5 DEF Announced, Writers, TypeOK
      <4> QED BY <2>5, <3>1, <4>1, Tokens DEF Announced
    <3>3. CASE u = <<>>
      <4>1. Head(chan[w]) = t /\ Tail(chan[w]) = <<>>
        BY <3>1, <3>3, Short
      <4>2. state'[r] = "void" /\ chan'[w] = <<>> /\ pc'[w] = "idle" /\ pc'[r] = "headerAck"
        BY <2>1, <2>2, <2>3, <3>2, <4>1 DEF Answers, Same
      <4>3. Voided(r)'
        <5>1. Stale(<<>>)
          BY DEF Stale, AllData
        <5> QED BY <1>0, <2>2, <4>2, <5>1 DEF Voided, Listening
      <4> QED BY <1>0, <2>1, <4>3 DEF IInv, Condition
    <3>4. CASE u # <<>>
      <4>1. Head(chan[w]) = Head(u) /\ Tail(chan[w]) = Append(Tail(u), t)
        BY <3>1, <3>4, FrontMoves
      <4>2. Tail(u) = <<>> /\ Head(u) # Ack
        BY <2>2, <3>1, <3>4, <4>1, Unstale
      <4>3. Tail(chan[w]) = <<t>>
        BY <4>1, <4>2, Short
      <4>4. \E i \in 2 .. Len(chan[w]) : chan[w][i].kind = "header"
        <5>1. Len(u) \in Nat \ {0}
          BY <3>4, EmptySeq, LenProperties
        <5>2. Len(chan[w]) = Len(u) + 1 /\ chan[w][Len(u) + 1] = t
          BY <3>1, AppendProperties
        <5>3. Len(u) + 1 \in 2 .. Len(chan[w])
          BY <5>1, <5>2
        <5> QED BY <3>2, <5>2, <5>3
      <4>5. state'[r] = "open" /\ pc'[w] = "idle" /\ chan'[w] = <<t>>
        BY <2>1, <2>2, <2>3, <3>2, <4>1, <4>2, <4>3, <4>4 DEF Answers
      <4>6. Offered(r)'
        BY <1>0, <2>1, <2>2, <3>1, <3>2, <4>5 DEF Offered, Announced, Listening, Same
      <4> QED BY <1>0, <2>1, <4>6 DEF IInv, Condition
    <3> QED BY <3>3, <3>4
  <2> QED BY <2>4, <2>5 DEF Voided
<1>5. Discard(w) \/ HeaderReply(w)
  BY <1>1 DEF Step, BeginWrite, BeginRead, Restart, Progress, SendByte, BlockReply,
              LastReply, ReadHeader, ReadByte
<1> QED BY <1>3, <1>4, <1>5
-----------------------------------------------------------------------------
(* So the line never leaves the seven conditions.                          *)

LEMMA InitConditions == Init => IInv
<1> SUFFICES ASSUME Init PROVE IInv
  OBVIOUS
<1>1. TypeOK
  <2>1. <<>> \in Seq(Token)
    BY EmptySeq
  <2> QED BY <2>1 DEF Init, TypeOK
<1>2. Writers /\ Quiet
  BY DEF Init, Writers, Quiet, Listening
<1> QED BY <1>1, <1>2 DEF IInv, Condition

LEMMA NextConditions == IInv /\ [Next]_vars => IInv'
<1> SUFFICES ASSUME IInv, [Next]_vars PROVE IInv'
  OBVIOUS
<1>1. TypeOK /\ Writers /\ Condition
  BY DEF IInv
<1>2. CASE Next
  <2>1. PICK e \in End : Step(e)
    BY <1>2 DEF Next, Step
  <2>2. CASE Quiet
    BY <1>1, <2>1, <2>2, QuietSteps
  <2>3. ASSUME NEW w \in End,
               \/ Offered(w) \/ Crossed(w) \/ ReadingFrom(w)
               \/ Taken(w) \/ Passed(w) \/ Voided(w)
        PROVE  IInv'
    <3>0. Peer(w) \in End /\ Peer(Peer(w)) = w /\ (e = w \/ e = Peer(w))
      BY Ends
    <3>1. CASE Offered(w)
      BY <1>1, <2>1, <3>1, OfferedSteps
    <3>2. CASE Crossed(w)
      <4>1. Crossed(Peer(w))
        BY <3>0, <3>2 DEF Crossed
      <4> QED BY <1>1, <2>1, <3>0, <3>2, <4>1, CrossedSteps
    <3>3. CASE ReadingFrom(w)
      BY <1>1, <2>1, <3>3, ReadingSteps
    <3>4. CASE Taken(w)
      BY <1>1, <2>1, <3>4, TakenSteps
    <3>5. CASE Passed(w)
      BY <1>1, <2>1, <3>0, <3>5, PassedReader, PassedWriter
    <3>6. CASE Voided(w)
      BY <1>1, <2>1, <3>0, <3>6, VoidedReader, VoidedWriter
    <3> QED BY <2>3, <3>1, <3>2, <3>3, <3>4, <3>5, <3>6
  <2> QED BY <1>1, <2>2, <2>3 DEF Condition
<1>3. CASE UNCHANGED vars
  <2>1. TypeOK' /\ Writers'
    BY <1>1, <1>3 DEF TypeOK, Writers, vars
  <2>2. Quiet => Quiet'
    BY <1>3 DEF Quiet, Listening, vars
  <2>3. ASSUME NEW w \in End
        PROVE  /\ Offered(w) => Offered(w)'
               /\ Crossed(w) => Crossed(w)'
               /\ ReadingFrom(w) => ReadingFrom(w)'
               /\ Taken(w) => Taken(w)'
               /\ Passed(w) => Passed(w)'
               /\ Voided(w) => Voided(w)'
    <3>1. (Offered(w) => Offered(w)') /\ (Crossed(w) => Crossed(w)')
      BY <1>3 DEF Offered, Crossed, Listening, Announced, vars
    <3>2. ReadingFrom(w) => ReadingFrom(w)'
      BY <1>3 DEF ReadingFrom, InStep, vars
    <3>3. (Taken(w) => Taken(w)') /\ (Passed(w) => Passed(w)')
      BY <1>3 DEF Taken, Passed, Listening, Announced, vars
    <3>4. Voided(w) => Voided(w)'
      BY <1>3 DEF Voided, Listening, Announced, vars
    <3> QED BY <3>1, <3>2, <3>3, <3>4
  <2>4. Condition'
    <3>1. CASE Quiet
      BY <2>2, <3>1 DEF Condition
    <3>2. ASSUME NEW w \in End,
                 \/ Offered(w) \/ Crossed(w) \/ ReadingFrom(w)
                 \/ Taken(w) \/ Passed(w) \/ Voided(w)
          PROVE  Condition'
      <4>1. \/ Offered(w)' \/ Crossed(w)' \/ ReadingFrom(w)'
            \/ Taken(w)' \/ Passed(w)' \/ Voided(w)'
        BY <2>3, <3>2
      <4> QED BY <4>1 DEF Condition
    <3> QED BY <1>1, <3>1, <3>2 DEF Condition
  <2> QED BY <2>1, <2>4 DEF IInv
<1> QED BY <1>2, <1>3

(* The line is always in one of its seven conditions.                      *)
THEOREM Conditions == Spec => []IInv
<1> QED BY InitConditions, NextConditions, PTL DEF Spec

(* Every variable of the two ends and of the line keeps its type; no write *)
(* sends more bytes than its packet has, and no read_bytes stores more.    *)
THEOREM Types == Spec => []TypeOK
<1>1. IInv => TypeOK
  BY DEF IInv
<1> QED BY <1>1, Conditions, PTL

(* However the ends restart, drop packets and lose headers, an end that    *)
(* starts a write has no ACK of an older one ahead of it.                  *)
THEOREM NoAckLeftBehind == Spec => []NoStaleAck
<1>1. ASSUME IInv PROVE NoStaleAck
  <2> SUFFICES ASSUME NEW e \in End, pc[e] \in {"idle", "header", "send"},
                      NEW i \in 1 .. Len(chan[e])
               PROVE  chan[e][i] # Ack
    BY DEF NoStaleAck
  <2>1. CASE chan[e] = <<>>
    BY <2>1, EmptySeq
  <2>2. CASE AllData(chan[e])
    BY <2>2 DEF AllData, Ack
  <2>3. ASSUME NEW p, chan[e] = <<Header(p)>>
        PROVE  chan[e][i] # Ack
    <3>1. i = 1 /\ chan[e][1] = Header(p)
      BY <2>3
    <3> QED BY <3>1 DEF Header, Ack
  <2>4. chan[e] = <<>> \/ AllData(chan[e]) \/ \E p : chan[e] = <<Header(p)>>
    <3>1. CASE Quiet
      BY <3>1 DEF Quiet
    <3>2. ASSUME NEW w \in End,
                 \/ Offered(w) \/ Crossed(w) \/ ReadingFrom(w)
                 \/ Taken(w) \/ Passed(w) \/ Voided(w)
          PROVE  chan[e] = <<>> \/ AllData(chan[e]) \/ \E p : chan[e] = <<Header(p)>>
      <4>1. e = w \/ e = Peer(w)
        BY Ends
      <4> QED
        BY <3>2, <4>1 DEF Offered, Crossed, ReadingFrom, Taken, Passed, Voided, Announced
    <3> QED BY <1>1, <3>1, <3>2 DEF IInv, Condition
  <2> QED BY <2>1, <2>2, <2>3, <2>4
<1> QED BY <1>1, Conditions, PTL

-----------------------------------------------------------------------------
(* What the conditions say at the steps that decide about a packet.        *)

(* read_bytes works on the packet the other end is writing.                *)
LEMMA ReadsPacket ==
  ASSUME IInv, NEW e \in End, pc[e] = "bytes"
  PROVE  ReadingFrom(Peer(e))
<1> DEFINE In(w) == Offered(w) \/ Crossed(w) \/ Taken(w) \/ Passed(w) \/ Voided(w)
<1>1. pc[e] \notin {"idle", "header", "headerAck", "send", "blockAck", "lastAck"}
  OBVIOUS
<1>2. ~ Quiet
  BY <1>1 DEF Quiet, Listening
<1>3. \A w \in End : ~ In(w) /\ (ReadingFrom(w) => e # w)
  BY <1>1, Ends DEF Offered, Crossed, ReadingFrom, Taken, Passed, Voided,
                    Announced, Listening
<1>4. PICK w \in End : ReadingFrom(w)
  BY <1>2, <1>3 DEF IInv, Condition
<1>5. Peer(e) = w
  BY <1>3, <1>4, Ends
<1> QED BY <1>4, <1>5

(* A header that read_packet finds is that of the packet on offer.         *)
LEMMA FindsOffer ==
  ASSUME IInv, NEW e \in End, pc[e] = "header", HeaderHere(e)
  PROVE  Offered(Peer(e)) /\ chan[e] = <<Header(out[Peer(e)])>>
<1>1. chan[e] # <<>> /\ ~ AllData(chan[e])
  <2>1. chan[e] \in Seq(Token) /\ chan[e] # <<>> /\ Head(chan[e]).kind # "data"
    BY DEF IInv, TypeOK, HeaderHere
  <2> QED BY <2>1, DataMoves
<1>2. ~ Quiet
  BY <1>1 DEF Quiet
<1>3. \A w \in End : /\ ~ Crossed(w) /\ ~ ReadingFrom(w) /\ ~ Taken(w)
                     /\ ~ Passed(w) /\ ~ Voided(w) /\ (Offered(w) => e # w)
  BY <1>1, Ends DEF Offered, Crossed, ReadingFrom, Taken, Passed, Voided,
                    Announced, Listening
<1>4. PICK w \in End : Offered(w)
  BY <1>2, <1>3 DEF IInv, Condition
<1>5. Peer(e) = w /\ Peer(w) = e
  BY <1>3, <1>4, Ends
<1>6. chan[e] \in {<<>>, <<Header(out[w])>>}
  BY <1>4, <1>5 DEF Offered
<1> QED BY <1>1, <1>4, <1>5, <1>6

(* The ACK that ends a write comes from the read that took the packet.     *)
LEMMA AckMeansTaken ==
  ASSUME IInv, NEW e \in End, chan[e] # <<>>, Head(chan[e]) = Ack,
         pc[e] = "lastAck" \/ (pc[e] = "headerAck" /\ Size[out[e]] = 0)
  PROVE  state[e] = "taken"
<1>0. TypeOK /\ Writers /\ Condition /\ chan[e] \in Seq(Token) /\ chan[Peer(e)] \in Seq(Token)
  BY Ends DEF IInv, TypeOK
<1>1. ~ AllData(chan[e]) /\ Ack.kind = "ack" /\ \A p : chan[e] # <<Header(p)>>
  <2>1. Ack.kind = "ack" /\ \A p : Header(p) # Ack /\ Header(p).kind = "header"
    BY DEF Ack, Header
  <2>2. ~ AllData(chan[e])
    BY <1>0, <2>1, DataMoves
  <2>3. ASSUME NEW p, chan[e] = <<Header(p)>> PROVE FALSE
    BY <2>1, <2>3
  <2> QED BY <2>1, <2>2, <2>3
<1>2. ~ Quiet
  BY DEF Quiet
<1>3. \A w \in End : e = Peer(w) => /\ ~ Offered(w) /\ ~ Crossed(w) /\ ~ ReadingFrom(w)
                                    /\ ~ Taken(w) /\ ~ Passed(w) /\ ~ Voided(w)
  BY <1>1, Ends DEF Offered, Crossed, ReadingFrom, Taken, Passed, Voided,
                    Announced, Listening
<1>4. PICK w \in End : \/ Offered(w) \/ Crossed(w) \/ ReadingFrom(w)
                       \/ Taken(w) \/ Passed(w) \/ Voided(w)
  BY <1>0, <1>2 DEF Condition
<1>5. e = w
  BY <1>3, <1>4, Ends
<1>6. ~ Offered(e) /\ ~ Crossed(e)
  BY <1>1 DEF Offered, Crossed
<1>7. ~ ReadingFrom(e)
  <2> SUFFICES ASSUME ReadingFrom(e) PROVE FALSE
    OBVIOUS
  <2>1. /\ pc[e] = "headerAck" /\ Size[out[e]] = 0
        /\ pc[Peer(e)] = "bytes" /\ hdr[Peer(e)] = out[e]
    BY DEF ReadingFrom
  <2>2. Len(got[Peer(e)]) < 0 /\ got[Peer(e)] \in Seq(Token)
    BY <1>0, <2>1, Ends DEF TypeOK
  <2> QED BY <2>2, LenProperties
<1>8. ~ Passed(e)
  BY <1>1 DEF Passed
<1>9. ~ Voided(e)
  <2> SUFFICES ASSUME Voided(e) PROVE FALSE
    OBVIOUS
  <2>1. ~ Stale(chan[e])
    BY <1>1 DEF Stale
  <2>2. Stale(AllButLast(chan[e])) /\ chan[e][Len(chan[e])] = Header(out[Peer(e)])
    BY <2>1 DEF Voided
  <2>3. PICK u \in Seq(Token), t \in Token :
          chan[e] = Append(u, t) /\ Stale(u) /\ t = Header(out[Peer(e)])
    BY <1>0, <2>2, Split
  <2>4. u = <<>>
    <3>1. u # <<>> => Head(Append(u, t)) = Head(u)
      BY FrontMoves
    <3>2. u # <<>> => Head(u).kind = "data" \/ Head(u) # Ack
      BY <2>3, Unstale
    <3> QED BY <1>1, <2>3, <3>1, <3>2
  <2>5. chan[e] = <<Header(out[Peer(e)])>>
    BY <2>3, <2>4, Short
  <2> QED BY <1>1, <2>5
<1> QED BY <1>4, <1>5, <1>6, <1>7, <1>8, <1>9 DEF Taken

(* Another header where read_ack expects an ACK: the packet has not been   *)
(* taken; if the header is that of the write the other end is in, nobody   *)
(* has read that one either; and if it is not, this write is void.         *)
LEMMA HeaderMeansLost ==
  ASSUME IInv, NEW e \in End, HeaderHere(e), Head(chan[e]) # Ack,
         pc[e] \in {"headerAck", "blockAck", "lastAck"}
  PROVE  /\ state[e] # "taken"
         /\ out[Peer(e)] # None => state[Peer(e)] = "open"
         /\ \/ out[Peer(e)] = None
            \/ \E i \in 2 .. Len(chan[e]) : chan[e][i].kind = "header"
            => state[e] = "void"
<1> DEFINE r == Peer(e)
<1>0. /\ TypeOK /\ Writers /\ Condition /\ r \in End /\ r # e /\ Peer(r) = e
      /\ \A x \in End : x = e \/ x = r
      /\ chan[e] \in Seq(Token) /\ chan[e] # <<>> /\ ~ AllData(chan[e])
  <2>1. TypeOK /\ Writers /\ Condition /\ chan[e] \in Seq(Token)
    BY DEF IInv, TypeOK
  <2>2. chan[e] # <<>> /\ Head(chan[e]).kind # "data"
    BY DEF HeaderHere
  <2> QED BY <2>1, <2>2, Ends, DataMoves
<1>1. /\ Announced(r) => out[r] # None /\ state[r] = "open"
      /\ Listening(r) => out[r] = None
  BY <1>0 DEF Announced, Listening, Writers
<1>2. ASSUME NEW p, chan[e] = <<Header(p)>>
      PROVE  ~ \E i \in 2 .. Len(chan[e]) : chan[e][i].kind = "header"
  BY <1>2
<1>3. ASSUME Announced(r), state[e] # "taken", NEW p, chan[e] = <<Header(p)>>
      PROVE  /\ state[e] # "taken" /\ out[r] # None /\ state[r] = "open"
             /\ ~ \E i \in 2 .. Len(chan[e]) : chan[e][i].kind = "header"
  BY <1>1, <1>2, <1>3
<1>4. CASE Quiet
  BY <1>0, <1>4 DEF Quiet
<1>5. ASSUME NEW w \in End, e = Peer(w), ~ Crossed(w),
             \/ Offered(w) \/ ReadingFrom(w) \/ Taken(w) \/ Passed(w) \/ Voided(w)
      PROVE  FALSE
  BY <1>0, <1>5 DEF Offered, ReadingFrom, Taken, Passed, Voided, Announced, Listening
<1>6. CASE Crossed(e)
  <2>1. Announced(r) /\ state[e] # "taken" /\ chan[e] = <<Header(out[r])>>
    BY <1>0, <1>6 DEF Crossed, Announced
  <2> QED BY <1>3, <2>1
<1>7. CASE Passed(e)
  <2>1. Announced(r) /\ state[e] # "taken" /\ chan[e] = <<Header(out[r])>>
    BY <1>0, <1>7 DEF Passed, Ack
  <2> QED BY <1>3, <2>1
<1>8. CASE Voided(e)
  BY <1>1, <1>8 DEF Voided
<1>9. ~ Offered(e) /\ ~ ReadingFrom(e) /\ ~ Taken(e)
  BY <1>0 DEF Offered, ReadingFrom, Taken, Ack
<1>10. Quiet \/ Crossed(e) \/ Passed(e) \/ Voided(e)
  <2>1. CASE Quiet
    BY <2>1
  <2>2. ASSUME NEW w \in End,
               \/ Offered(w) \/ Crossed(w) \/ ReadingFrom(w)
               \/ Taken(w) \/ Passed(w) \/ Voided(w)
        PROVE  Crossed(e) \/ Passed(e) \/ Voided(e)
    <3>1. CASE w = e
      BY <1>9, <2>2, <3>1
    <3>2. CASE w = r
      <4>1. Crossed(r)
        BY <1>0, <1>5, <2>2, <3>2
      <4> QED BY <1>0, <4>1 DEF Crossed
    <3> QED BY <1>0, <3>1, <3>2
  <2> QED BY <1>0, <2>1, <2>2 DEF Condition
<1> QED BY <1>4, <1>6, <1>7, <1>8, <1>10

-----------------------------------------------------------------------------
(* The refinement, one action of the contract at a time.                   *)

LEMMA OnlyChange ==
  ASSUME TypeOK, TypeOK', NEW f \in End, NEW x,
         state'[f] = x, state'[Peer(f)] = state[Peer(f)]
  PROVE  state' = [state EXCEPT ![f] = x]
BY Ends DEF TypeOK

(* A read leaves the packet of the other end.                              *)
LEMMA Leaves ==
  ASSUME TypeOK, TypeOK', NEW e \in End, NEW how, UNCHANGED out,
         out[e] = None, out[Peer(e)] # None, state[Peer(e)] = "open",
         state'[e] = state[e], state'[Peer(e)] = how
  PROVE  Contract!Leave(Peer(e), e, how)
<1>1. Peer(e) \in End /\ Peer(e) # e /\ Peer(Peer(e)) = e
  BY Ends
<1>2. state' = [state EXCEPT ![Peer(e)] = how]
  BY <1>1, OnlyChange
<1> QED BY <1>1, <1>2 DEF Contract!Leave, Contract!Open

LEMMA Passes ==
  ASSUME TypeOK, TypeOK', NEW e \in End, UNCHANGED <<out, result, took>>,
         out[e] = None, PassOver(e)
  PROVE  Contract!Next \/ UNCHANGED Contract!vars
<1>0. Peer(e) \in End /\ Peer(e) # e
  BY Ends
<1>1. CASE out[Peer(e)] # None /\ state[Peer(e)] = "open"
  <2>1. state'[e] = state[e] /\ state'[Peer(e)] = "passed"
    BY <1>0, <1>1 DEF PassOver, TypeOK
  <2>2. Contract!PassOver(Peer(e), e)
    BY <1>1, <2>1, Leaves DEF Contract!PassOver
  <2> QED BY <1>0, <2>2 DEF Contract!Next
<1>2. CASE ~ (out[Peer(e)] # None /\ state[Peer(e)] = "open")
  BY <1>2 DEF PassOver, Contract!vars
<1> QED BY <1>1, <1>2

LEMMA Takes ==
  ASSUME TypeOK, TypeOK', NEW e \in End, UNCHANGED <<out, result>>,
         out[e] = None, out[Peer(e)] # None, state[Peer(e)] = "open",
         state'[e] = state[e], state'[Peer(e)] = "taken",
         took' = [took EXCEPT ![e] = out[Peer(e)]]
  PROVE  Contract!Next
<1>1. Contract!Take(Peer(e), e)
  BY Leaves DEF Contract!Take
<1> QED BY <1>1, Ends DEF Contract!Next

LEMMA ReturnsOk ==
  ASSUME IInv, NEW e \in End, TakeAnswer(e), Head(chan[e]) = Ack,
         pc[e] = "lastAck" \/ (pc[e] = "headerAck" /\ Size[out[e]] = 0),
         ReturnFromWrite(e, "ok")
  PROVE  Contract!Next
<1>1. state[e] = "taken" /\ UNCHANGED <<state, took>>
  BY AckMeansTaken DEF TakeAnswer, HeaderHere
<1>2. out[e] # None
  BY DEF IInv, Writers
<1>3. Contract!Confirm(e) /\ Contract!Returns(e, "ok")
  BY <1>1, <1>2 DEF ReturnFromWrite, Contract!Confirm, Contract!Return, Contract!Returns
<1> QED BY <1>3 DEF Contract!Next

(* read_ack finds a header: what that does to the two writes.              *)
LEMMA Loses ==
  ASSUME IInv, NEW e \in End, TakeAnswer(e), Head(chan[e]) # Ack,
         pc[e] \in {"headerAck", "blockAck", "lastAck"}
  PROVE  /\ out[e] # None /\ state[e] # "taken" /\ UNCHANGED took
         /\ \/ state[e] = "void" /\ UNCHANGED state
            \/ Contract!Spoil(e, Peer(e))
<1>1. HeaderHere(e) /\ UNCHANGED took
  BY DEF TakeAnswer
<1>2. out[e] # None /\ state[e] # "taken"
  BY <1>1, HeaderMeansLost DEF IInv, Writers
<1>3. CASE /\ out[Peer(e)] # None
           /\ \A i \in 2 .. Len(chan[e]) : chan[e][i].kind # "header"
  <2>1. state[Peer(e)] = "open"
    BY <1>1, <1>3, HeaderMeansLost
  <2>2. state' = [state EXCEPT ![Peer(e)] = "void"]
    BY <1>3 DEF TakeAnswer
  <2>3. Contract!Spoil(e, Peer(e))
    BY <1>2, <1>3, <2>1, <2>2, Ends DEF Contract!Spoil, Contract!Open
  <2> QED BY <1>1, <1>2, <2>3
<1>4. CASE ~ /\ out[Peer(e)] # None
             /\ \A i \in 2 .. Len(chan[e]) : chan[e][i].kind # "header"
  <2>1. state[e] = "void"
    BY <1>1, <1>4, HeaderMeansLost
  <2>2. UNCHANGED state
    BY <1>4 DEF TakeAnswer
  <2> QED BY <1>1, <1>2, <2>1, <2>2
<1> QED BY <1>3, <1>4

LEMMA ReturnsNoAck ==
  ASSUME IInv, NEW e \in End, TakeAnswer(e), Head(chan[e]) # Ack,
         pc[e] \in {"headerAck", "lastAck"}, ReturnFromWrite(e, "noAck")
  PROVE  Contract!Next
<1>1. /\ out[e] # None /\ state[e] # "taken" /\ UNCHANGED took
      /\ \/ state[e] = "void" /\ UNCHANGED state
         \/ Contract!Spoil(e, Peer(e))
  BY Loses
<1>2. Contract!Refuse(e) /\ Contract!Returns(e, "noAck")
  BY <1>1, Ends DEF ReturnFromWrite, Contract!Refuse, Contract!Return, Contract!Returns
<1> QED BY <1>2 DEF Contract!Next

(* write_packet and read_packet implement the packet contract.             *)
THEOREM Refines == Spec => ImplementsAtomicPacket
<1>1. Init => Contract!Init
  BY DEF Init, Contract!Init, Contract!Idle
<1>2. IInv /\ IInv' /\ [Next]_vars => [Contract!Next]_(Contract!vars)
  <2> SUFFICES ASSUME IInv, IInv', [Next]_vars
               PROVE  [Contract!Next]_(Contract!vars)
    OBVIOUS
  <2>0. TypeOK /\ Writers /\ TypeOK'
    BY DEF IInv
  <2>1. ASSUME NEW e \in End, NEW p \in Packet, BeginWrite(e, p)
        PROVE  Contract!Next
    <3>1. out[e] = None
      BY <2>0, <2>1 DEF BeginWrite, Writers
    <3>2. Contract!Offer(e, p) /\ Contract!Returns(e, None)
      BY <2>1, <3>1 DEF BeginWrite, Contract!Offer, Contract!Returns
    <3> QED BY <3>2 DEF Contract!Next
  <2>2. ASSUME NEW e \in End,
               \/ \E n \in Limit : BeginRead(e, n)
               \/ Discard(e) \/ SendByte(e)
        PROVE  UNCHANGED Contract!vars
    BY <2>2 DEF BeginRead, Discard, SendByte, writeVars, histVars, Contract!vars
  <2>3. ASSUME NEW e \in End, HeaderReply(e)
        PROVE  Contract!Next \/ UNCHANGED Contract!vars
    <3>1. CASE Head(chan[e]) # Ack
      BY <2>3, <3>1, ReturnsNoAck DEF HeaderReply
    <3>2. CASE Head(chan[e]) = Ack /\ Size[out[e]] = 0
      BY <2>3, <3>2, ReturnsOk DEF HeaderReply
    <3>3. CASE Head(chan[e]) = Ack /\ Size[out[e]] # 0
      BY <2>3, <3>3 DEF HeaderReply, TakeAnswer, ReturnFromWrite, writeVars, Contract!vars
    <3> QED BY <3>1, <3>2, <3>3
  <2>4. ASSUME NEW e \in End, BlockReply(e)
        PROVE  Contract!Next \/ UNCHANGED Contract!vars
    <3>1. CASE Head(chan[e]) = Ack
      BY <2>4, <3>1 DEF BlockReply, TakeAnswer, writeVars, Contract!vars
    <3>2. CASE Head(chan[e]) # Ack
      <4>1. /\ UNCHANGED <<out, result, took>>
            /\ UNCHANGED state \/ Contract!Spoil(e, Peer(e))
        BY <2>4, <3>2, Loses DEF BlockReply, writeVars
      <4> QED BY <4>1, Ends DEF Contract!Next, Contract!vars
    <3> QED BY <3>1, <3>2
  <2>5. ASSUME NEW e \in End, LastReply(e) PROVE Contract!Next
    <3>1. CASE Head(chan[e]) = Ack
      BY <2>5, <3>1, ReturnsOk DEF LastReply
    <3>2. CASE Head(chan[e]) # Ack
      BY <2>5, <3>2, ReturnsNoAck DEF LastReply
    <3> QED BY <3>1, <3>2
  <2>6. ASSUME NEW e \in End, ReadHeader(e)
        PROVE  Contract!Next \/ UNCHANGED Contract!vars
    <3>0. /\ Peer(e) \in End /\ Peer(Peer(e)) = e /\ UNCHANGED <<out, sent, result>>
          /\ pc[e] = "header" /\ HeaderHere(e)
      BY <2>6, Ends DEF ReadHeader, writeVars
    <3>1. out[e] = None
      BY <2>0, <3>0 DEF Writers
    <3>2. /\ Offered(Peer(e)) /\ chan[e] = <<Header(out[Peer(e)])>>
      BY <3>0, FindsOffer
    <3>3. /\ out[Peer(e)] \in Packet /\ out[Peer(e)] # None /\ state[Peer(e)] = "open"
      BY <2>0, <3>0, <3>2 DEF Offered, Announced, Writers, TypeOK
    <3>4. Head(chan[e]) = Header(out[Peer(e)]) /\ Head(chan[e]).of = out[Peer(e)]
          /\ Head(chan[e]) # Ack
      BY <3>2, <3>3, Tokens
    <3>5. CASE Size[out[Peer(e)]] > len[e]
      <4>1. PassOver(e) /\ UNCHANGED took
        BY <2>6, <3>4, <3>5 DEF ReadHeader
      <4> QED BY <2>0, <3>0, <3>1, <4>1, Passes
    <3>6. CASE ~ (Size[out[Peer(e)]] > len[e]) /\ Size[out[Peer(e)]] = 0
      <4>1. ReturnPacket(e, out[Peer(e)])
        BY <2>6, <3>4, <3>6 DEF ReadHeader
      <4>2. /\ state'[e] = state[e] /\ state'[Peer(e)] = "taken"
            /\ took' = [took EXCEPT ![e] = out[Peer(e)]]
        BY <2>0, <4>1, Ends DEF ReturnPacket, TypeOK
      <4> QED BY <2>0, <3>0, <3>1, <3>3, <4>2, Takes
    <3>7. CASE ~ (Size[out[Peer(e)]] > len[e]) /\ Size[out[Peer(e)]] # 0
      <4>1. UNCHANGED histVars
        BY <2>6, <3>4, <3>7 DEF ReadHeader
      <4> QED BY <3>0, <4>1 DEF histVars, Contract!vars
    <3> QED BY <3>5, <3>6, <3>7
  <2>7. ASSUME NEW e \in End, ReadByte(e)
        PROVE  Contract!Next \/ UNCHANGED Contract!vars
    <3>0. /\ Peer(e) \in End /\ Peer(Peer(e)) = e /\ UNCHANGED <<out, sent, result>>
          /\ pc[e] = "bytes"
      BY <2>7, Ends DEF ReadByte, writeVars
    <3>1. ReadingFrom(Peer(e)) /\ out[e] = None
      BY <2>0, <3>0, ReadsPacket DEF Writers
    <3>2. state[Peer(e)] = "open" /\ out[Peer(e)] \in Packet /\ out[Peer(e)] # None
      BY <2>0, <3>0, <3>1 DEF ReadingFrom, Writers, TypeOK
    <3>3. Len(got[e]) + 1 \in Nat
      BY <2>0, LenProperties DEF TypeOK
    <3>4. /\ state'[e] = state[e]
          /\ \/ state'[Peer(e)] = "taken" /\ took' = [took EXCEPT ![e] = out[Peer(e)]]
             \/ Len(got[e]) + 1 # Size[out[Peer(e)]]
      BY <2>0, <2>7, <3>1, <3>2, <3>3, ReadByteDoes
    <3>5. CASE Len(got[e]) + 1 = Size[out[Peer(e)]]
      BY <2>0, <3>0, <3>1, <3>2, <3>4, <3>5, Takes
    <3>6. CASE Len(got[e]) + 1 # Size[out[Peer(e)]]
      <4>1. UNCHANGED histVars
        <5>1. hdr[e] = out[Peer(e)]
          BY <3>0, <3>1 DEF ReadingFrom
        <5> QED BY <2>7, <3>6, <5>1 DEF ReadByte
      <4> QED BY <3>0, <4>1 DEF histVars, Contract!vars
    <3> QED BY <3>5, <3>6
  <2>8. ASSUME NEW e \in End, Restart(e)
        PROVE  Contract!Next \/ UNCHANGED Contract!vars
    <3>1. UNCHANGED <<out, result, took>> /\ PassOver(e) /\ out[e] = None
      BY <2>0, <2>8 DEF Restart, writeVars, Writers
    <3> QED BY <2>0, <3>1, Passes
  <2>9. CASE UNCHANGED vars
    BY <2>9 DEF vars, Contract!vars
  <2> QED
    BY <2>1, <2>2, <2>3, <2>4, <2>5, <2>6, <2>7, <2>8, <2>9 DEF Next, Progress
<1> QED
  BY <1>1, <1>2, Conditions, PTL DEF Spec, ImplementsAtomicPacket, Contract!Spec

(* The two countings of blocks agree: a running read_bytes gets the bytes  *)
(* of its packet, at most a block of them at once, and never waits for a   *)
(* writer that waits for it.                                               *)
THEOREM InStepByBlocks == Spec => []BlocksInStep
<1>1. ASSUME IInv PROVE BlocksInStep
  <2> SUFFICES ASSUME NEW e \in End, pc[e] = "bytes"
               PROVE  /\ \A i \in 1 .. Len(chan[e]) :
                           chan[e][i] = Data(hdr[e], Len(got[e]) + i)
                      /\ Len(chan[e]) <= Block
                      /\ pc[Peer(e)] = "send" \/ \E f \in End : chan[f] # <<>>
    BY DEF BlocksInStep
  <2> DEFINE w == Peer(e)
  <2>1. w \in End /\ Peer(w) = e
    BY Ends
  <2>2. ReadingFrom(w) /\ TypeOK
    BY <1>1, ReadsPacket DEF IInv
  <2>3. PICK n \in Nat, m \in Nat, k \in Nat :
          n = Len(got[e]) /\ m = Len(chan[e]) /\ k = sent[w]
    BY <2>1, <2>2, LenProperties DEF TypeOK
  <2>4. /\ k = n + m
        /\ \A i \in 1 .. m : chan[e][i] = Data(hdr[e], n + i)
        /\ \A j \in n + 1 .. k : j % Block = 0 => j = k
    BY <2>1, <2>2, <2>3 DEF ReadingFrom, InStep
  <2>5. m <= Block
    <3>1. PICK j \in n + 1 .. n + Block : j % Block = 0
      BY BlockEnds
    <3>2. k <= n + Block
      <4>1. j \in n + 1 .. k => j = k
        BY <2>4, <3>1
      <4> QED BY <4>1
    <3> QED BY <2>4, <3>2
  <2>6. pc[w] = "send" \/ chan[w] # <<>> \/ chan[e] # <<>>
    <3> SUFFICES ASSUME pc[w] = "lastAck", chan[e] = <<>> PROVE FALSE
      BY <2>1, <2>2 DEF ReadingFrom
    <3>1. k = Size[hdr[e]] /\ n < Size[hdr[e]] /\ m = 0
      BY <2>1, <2>2, <2>3, EmptySeq DEF ReadingFrom, TypeOK
    <3> QED BY <2>4, <3>1
  <2> QED BY <2>1, <2>3, <2>4, <2>5, <2>6
<1> QED BY <1>1, Conditions, PTL

(* What follows from the contract alone, whoever implements it: a packet   *)
(* that is taken is the one the other end has returned last, as there is   *)
(* no other it could take until this write has returned.                   *)
TakenIsRead ==
  \A e \in End : out[e] # None /\ state[e] = "taken" => took[Peer(e)] = out[e]

LEMMA ContractKeepsTaken ==
  ASSUME TypeOK, TakenIsRead, [Contract!Next]_(Contract!vars)
  PROVE  TakenIsRead'
<1> SUFFICES ASSUME NEW e \in End, out'[e] # None, state'[e] = "taken"
             PROVE  took'[Peer(e)] = out'[e]
  BY DEF TakenIsRead
<1>0. /\ Peer(e) \in End /\ Peer(e) # e /\ Peer(Peer(e)) = e
      /\ \A x \in End : x = e \/ x = Peer(e)
  BY Ends
<1>1. ASSUME UNCHANGED took, out'[e] = out[e], state'[e] = state[e]
      PROVE  took'[Peer(e)] = out'[e]
  BY <1>1 DEF TakenIsRead
<1>2. ASSUME NEW x \in End, NEW p \in Packet,
             Contract!Offer(x, p), Contract!Returns(x, None)
      PROVE  took'[Peer(e)] = out'[e]
  BY <1>1, <1>2 DEF Contract!Offer, Contract!Returns, TypeOK
<1>3. ASSUME NEW w \in End, NEW r \in End, Contract!Take(w, r),
             took' = [took EXCEPT ![r] = out[w]]
      PROVE  took'[Peer(e)] = out'[e]
  <2>1. /\ w # r /\ state[w] = "open" /\ UNCHANGED out
        /\ state' = [state EXCEPT ![w] = "taken"]
    BY <1>3 DEF Contract!Take, Contract!Leave, Contract!Open
  <2>2. CASE w = e
    BY <1>0, <1>3, <2>1, <2>2 DEF TypeOK
  <2>3. CASE w # e
    BY <1>0, <1>3, <2>1, <2>3 DEF TypeOK, TakenIsRead
  <2> QED BY <2>2, <2>3
<1>4. ASSUME NEW w \in End, NEW r \in End, Contract!PassOver(w, r), UNCHANGED took
      PROVE  took'[Peer(e)] = out'[e]
  BY <1>1, <1>4 DEF Contract!PassOver, Contract!Leave, TypeOK
<1>5. ASSUME NEW x \in End, NEW answer, Contract!Returns(x, answer),
             Contract!Confirm(x) \/ Contract!Refuse(x)
      PROVE  took'[Peer(e)] = out'[e]
  <2>1. /\ out' = [out EXCEPT ![x] = None] /\ UNCHANGED took
        /\ \/ UNCHANGED state
           \/ \E w \in End : state' = [state EXCEPT ![w] = "void"]
    BY <1>5 DEF Contract!Returns, Contract!Confirm, Contract!Refuse,
                Contract!Return, Contract!Spoil
  <2>2. out'[e] = out[e] /\ state'[e] = state[e]
    BY <2>1 DEF TypeOK
  <2> QED BY <1>1, <2>1, <2>2
<1>6. ASSUME NEW x \in End, NEW w \in End, Contract!Spoil(x, w), UNCHANGED <<out, took>>
      PROVE  took'[Peer(e)] = out'[e]
  BY <1>1, <1>6 DEF Contract!Spoil, TypeOK
<1>7. CASE UNCHANGED Contract!vars
  BY <1>1, <1>7 DEF Contract!vars
<1> QED BY <1>2, <1>3, <1>4, <1>5, <1>6, <1>7 DEF Contract!Next

LEMMA ContractConfirmsRead ==
  ASSUME TypeOK, TakenIsRead, [Contract!Next]_(Contract!vars), NEW e \in End,
         out[e] # None, out'[e] = None, result'[e] = "ok"
  PROVE  took[Peer(e)] = out[e]
<1>1. ASSUME NEW x \in End, NEW p \in Packet, Contract!Offer(x, p) PROVE FALSE
  BY <1>1 DEF Contract!Offer, TypeOK
<1>2. ASSUME UNCHANGED out PROVE FALSE
  BY <1>2
<1>3. ASSUME NEW x \in End, Contract!Confirm(x) PROVE took[Peer(e)] = out[e]
  BY <1>3 DEF Contract!Confirm, Contract!Return, TypeOK, TakenIsRead
<1>4. ASSUME NEW x \in End, Contract!Refuse(x), Contract!Returns(x, "noAck")
      PROVE  FALSE
  BY <1>4 DEF Contract!Refuse, Contract!Return, Contract!Returns, TypeOK
<1>5. \/ \E x \in End, p \in Packet : Contract!Offer(x, p)
      \/ UNCHANGED out
      \/ \E x \in End : Contract!Confirm(x)
      \/ \E x \in End : Contract!Refuse(x) /\ Contract!Returns(x, "noAck")
  BY DEF Contract!Next, Contract!Take, Contract!PassOver, Contract!Leave, Contract!vars
<1> QED BY <1>1, <1>2, <1>3, <1>4, <1>5

(* A write_packet that returns MSG_OK has written what the other end's     *)
(* read_packet has returned last.                                          *)
THEOREM Confirmed == Spec => ConfirmedIsRead
<1>1. Init => TakenIsRead
  BY DEF Init, TakenIsRead
<1>2. TypeOK /\ TakenIsRead /\ [Contract!Next]_(Contract!vars) => TakenIsRead'
  BY ContractKeepsTaken
<1>3. TypeOK /\ TakenIsRead /\ [Contract!Next]_(Contract!vars) =>
        [\A e \in End :
           out[e] # None /\ out'[e] = None /\ result'[e] = "ok" =>
             took[Peer(e)] = out[e]]_vars
  BY ContractConfirmsRead
<1> QED
  BY <1>1, <1>2, <1>3, Types, Refines, PTL
     DEF Spec, ConfirmedIsRead, ImplementsAtomicPacket, Contract!Spec
=============================================================================
