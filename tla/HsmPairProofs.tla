----------------------------- MODULE HsmPairProofs -----------------------------
(***************************************************************************)
(* Type correctness of HsmPair; and, when only one of the two hosts sends  *)
(* requests, OnlyHostFiles and AnswerIsPeers, for any number of slots,     *)
(* files, groups and permissions, with restarts at any time but in the     *)
(* middle of a packet.                                                     *)
(***************************************************************************)
EXTENDS HsmPair, AccessProofs

LEMMA Peers ==
  ASSUME NEW h \in Hsm
  PROVE  /\ Peer(h) \in Hsm /\ Peer(h) # h /\ Peer(Peer(h)) = h
         /\ \A x \in Hsm : x = h \/ x = Peer(h)
<1>1. PICK a, b \in Hsm : a # b /\ Hsm = {a, b}
  BY PairAssumption
<1>2. \A x \in Hsm : \E g \in Hsm : g # x
  BY <1>1
<1>3. \A x \in Hsm : Peer(x) \in Hsm /\ Peer(x) # x
  BY <1>2 DEF Peer
<1> QED BY <1>1, <1>3

(* The messages on the line.                                               *)
LEMMA Kinds ==
  /\ \A s \in Slot : /\ FileRequest(s) \in Requests /\ FileRequest(s) # ListRequest
                     /\ FileRequest(s).what = s
  /\ ListRequest \in Requests
  /\ \A m \in Requests :
       /\ m.isRequest /\ m # None
       /\ \/ m = ListRequest /\ m.op = "interrogate"
          \/ m.what \in Slot /\ m = FileRequest(m.what) /\ m.op = "receive"
  /\ \A m \in Answers :
       /\ ~ m.isRequest /\ m # None
       /\ m.op = "receive" => m.what \in File \cup {Junk, Damaged}
<1>1. ListRequest.op = "interrogate" /\ ListRequest.isRequest
  BY DEF ListRequest, Message
<1>2. ASSUME NEW s \in Slot
      PROVE  /\ FileRequest(s).op = "receive" /\ FileRequest(s).isRequest
             /\ FileRequest(s).what = s /\ FileRequest(s) # ListRequest
  BY <1>1 DEF FileRequest, Message
<1>3. ASSUME NEW m \in Requests
      PROVE  m = ListRequest \/ \E s \in Slot : m = FileRequest(s)
  BY <1>3 DEF Requests
<1>4. ASSUME NEW m \in Answers
      PROVE  /\ ~ m.isRequest
             /\ m.op = "receive" => m.what \in File \cup {Junk, Damaged}
  BY <1>4 DEF Answers, Message
<1>5. ListRequest \in Requests /\ \A s \in Slot : FileRequest(s) \in Requests
  BY DEF Requests
<1>6. \A m \in Requests \cup Answers : m # None
  BY MessageAssumption
<1> QED BY <1>1, <1>2, <1>3, <1>4, <1>5, <1>6

LEMMA AnswersTyped ==
  ASSUME NEW r \in Requests, NEW f \in [Slot -> File \cup {Junk, Damaged, None}],
         r # ListRequest => f[r.what] # None
  PROVE  /\ AnswersTo(r, f) \subseteq Answers
         /\ r # ListRequest => AnswersTo(r, f) = {Message("receive", FALSE, f[r.what])}
         /\ \A m \in AnswersTo(r, f) : m.op = "receive" => m.what = f[r.what]
<1>1. CASE r = ListRequest
  <2>1. AnswersTo(r, f) = {Message("interrogate", FALSE, l) : l \in FileLists(f)}
    BY <1>1 DEF AnswersTo, ListRequest, Message
  <2>2. FileLists(f) \subseteq SUBSET (Slot \X (File \cup {Damaged}))
    BY DEF FileLists
  <2> QED BY <1>1, <2>1, <2>2 DEF Answers, Message
<1>2. CASE r # ListRequest
  <2>1. r.op = "receive" /\ r.what \in Slot
    BY <1>2, Kinds
  <2>2. AnswersTo(r, f) = {Message("receive", FALSE, f[r.what])}
    BY <2>1 DEF AnswersTo
  <2>3. f[r.what] \in File \cup {Junk, Damaged}
    BY <1>2, <2>1
  <2>4. Message("receive", FALSE, f[r.what]) \in Answers
    BY <2>3 DEF Answers
  <2>5. Message("receive", FALSE, f[r.what]).what = f[r.what]
    BY DEF Message
  <2> QED BY <1>2, <2>2, <2>4, <2>5
<1> QED BY <1>1, <1>2

-----------------------------------------------------------------------------
(* What the calls do to the line.                                          *)

LEMMA Reading ==
  ASSUME TypeOK, NEW h \in Hsm, ReadPacket(h)
  PROVE  /\ offer[Peer(h)] # None /\ state[Peer(h)] = "open" /\ offer' = offer
         /\ state' = [state EXCEPT ![Peer(h)] =
                        IF TooLong(h, offer[Peer(h)]) THEN "passed" ELSE "taken"]
         /\ state' \in [Hsm -> {"open", "taken", "passed", "void"}]
<1>1. state' = [state EXCEPT ![Peer(h)] =
                  IF TooLong(h, offer[Peer(h)]) THEN "passed" ELSE "taken"]
  BY DEF ReadPacket, Line!Open, Line!PassOver, Line!Take, Line!Leave
<1>2. offer' = offer /\ offer[Peer(h)] # None /\ state[Peer(h)] = "open"
  BY DEF ReadPacket, Line!Open, Line!PassOver, Line!Take, Line!Leave
<1> QED BY <1>1, <1>2, Peers DEF TypeOK

LEMMA Returning ==
  ASSUME TypeOK, NEW h \in Hsm, Line!Confirm(h) \/ Line!Refuse(h)
  PROVE  /\ offer' = [offer EXCEPT ![h] = None]
         /\ \/ state[h] \in {"taken", "void"} /\ state' = state
            \/ /\ state[h] # "taken"
               /\ offer[Peer(h)] # None /\ state[Peer(h)] = "open"
               /\ state' = [state EXCEPT ![Peer(h)] = "void"]
         /\ state' \in [Hsm -> {"open", "taken", "passed", "void"}]
<1>1. offer' = [offer EXCEPT ![h] = None]
  BY DEF Line!Confirm, Line!Refuse, Line!Return
<1>2. \/ state[h] \in {"taken", "void"} /\ state' = state
      \/ state[h] # "taken" /\ \E w \in Hsm : Line!Spoil(h, w)
  BY DEF Line!Confirm, Line!Refuse
<1>3. ASSUME NEW w \in Hsm, Line!Spoil(h, w)
      PROVE  /\ offer[Peer(h)] # None /\ state[Peer(h)] = "open"
             /\ state' = [state EXCEPT ![Peer(h)] = "void"]
  BY <1>3, Peers DEF Line!Spoil, Line!Open
<1> QED BY <1>1, <1>2, <1>3, Peers DEF TypeOK

LEMMA Offering ==
  ASSUME TypeOK, NEW h \in Hsm, NEW m \in Requests \cup Answers, Line!Offer(h, m)
  PROVE  /\ offer[h] = None
         /\ offer' = [offer EXCEPT ![h] = m]
         /\ offer' \in [Hsm -> Requests \cup Answers \cup {None}]
         /\ state' = [state EXCEPT ![h] = "open"]
         /\ state' \in [Hsm -> {"open", "taken", "passed", "void"}]
BY DEF Line!Offer, TypeOK
(* What write_file does to the slots: afterwards each holds what it held,  *)
(* what was to be stored, or, if a restart has cut it, nothing or a        *)
(* damaged file.                                                           *)
LEMMA Storing ==
  ASSUME TypeOK, NEW h \in Hsm, NEW s, NEW x \in File \cup {Junk, Damaged},
         Stored(h, s, x) \/ Cut(h, s, x)
  PROVE  /\ store' \in [Hsm -> [Slot -> File \cup {Junk, Damaged, None}]]
         /\ upset \subseteq upset' /\ upset' \subseteq {"torn", "restarted"}
         /\ \A y \in Hsm : y # h => store'[y] = store[y]
         /\ \A t \in Slot : \/ store'[h][t] \in {store[h][t], x, None}
                            \/ "torn" \in upset' /\ store'[h][t] = Damaged
<1>1. CASE Stored(h, s, x)
  <2>1. store' = [store EXCEPT ![h] = [store[h] EXCEPT ![s] = x]] /\ upset' = upset
    BY <1>1 DEF Stored
  <2>2. [store[h] EXCEPT ![s] = x] \in [Slot -> File \cup {Junk, Damaged, None}]
    BY DEF TypeOK
  <2>3. \A t \in Slot : [store[h] EXCEPT ![s] = x][t] \in {store[h][t], x}
    BY DEF TypeOK
  <2> QED BY <2>1, <2>2, <2>3 DEF TypeOK
<1>2. CASE Cut(h, s, x)
  <2>1. PICK lost \in SUBSET Slot, left \in {store[h][s], None, Damaged, x} :
          store' = [store EXCEPT ![h] =
                      [t \in Slot |-> IF t = s THEN left
                                      ELSE IF t \in lost THEN None ELSE store[h][t]]]
    BY <1>2 DEF Cut
  <2> DEFINE f == [t \in Slot |-> IF t = s THEN left
                                  ELSE IF t \in lost THEN None ELSE store[h][t]]
  <2>2. \A t \in Slot : f[t] \in {store[h][t], x, None, Damaged}
    BY <2>1
  <2>3. store[h] \in [Slot -> File \cup {Junk, Damaged, None}]
    BY DEF TypeOK
  <2>4. f \in [Slot -> File \cup {Junk, Damaged, None}]
    BY <2>2, <2>3
  <2>5. store' = [store EXCEPT ![h] = f]
    BY <2>1
  <2> HIDE DEF f
  <2>6. store'[h] = f /\ \A y \in Hsm : y # h => store'[y] = store[y]
    BY <2>5 DEF TypeOK
  <2>7. store' \in [Hsm -> [Slot -> File \cup {Junk, Damaged, None}]]
    BY <2>4, <2>5 DEF TypeOK
  <2>8. upset' = {"torn", "restarted"} /\ upset \subseteq {"torn", "restarted"}
    BY <1>2 DEF Cut, TypeOK
  <2> QED BY <2>2, <2>6, <2>7, <2>8
<1> QED BY <1>1, <1>2

-----------------------------------------------------------------------------
(* Types, and what each device is doing.                                   *)

LEMMA RolesFrame ==
  ASSUME NEW x \in Hsm, Roles(x), pc'[x] = pc[x], job'[x] = job[x],
         answer'[x] = answer[x], offer'[x] = offer[x], store'[x] = store[x]
  PROVE  Roles(x)'
BY DEF Roles, Asks, Serves

LEMMA BaseHostWrite ==
  ASSUME Base, NEW h \in Hsm, NEW s \in Slot, NEW f \in File, HostWrite(h, s, f)
  PROVE  Base'
<1>1. PICK x \in CreateFile(f) : Stored(h, s, x) \/ Cut(h, s, x)
  BY DEF HostWrite
<1>2. x \in File \cup {Junk, Damaged}
  BY PairAssumption DEF CreateFile
<1>3. /\ store' \in [Hsm -> [Slot -> File \cup {Junk, Damaged, None}]]
      /\ upset' \subseteq {"torn", "restarted"}
      /\ \A y \in Hsm : y # h => store'[y] = store[y]
  BY <1>1, <1>2, Storing DEF Base
<1>4. UNCHANGED <<pc, job, answer, offer, state>> /\ pc[h] = "ready"
  BY DEF HostWrite, lineVars
<1>5. TypeOK'
  BY <1>3, <1>4 DEF Base, TypeOK
<1>6. Roles(h)'
  BY <1>4 DEF Roles, Asks, Serves
<1> QED BY <1>3, <1>4, <1>5, <1>6, RolesFrame DEF Base

LEMMA BaseSendRequest ==
  ASSUME Base, NEW h \in Hsm, NEW r \in Requests, NEW s \in Slot \cup {None},
         SendRequest(h, r, s)
  PROVE  Base'
<1> DEFINE j == [request |-> r, slot |-> s]
<1>1. /\ offer[h] = None /\ offer' = [offer EXCEPT ![h] = r]
      /\ offer' \in [Hsm -> Requests \cup Answers \cup {None}]
      /\ state' \in [Hsm -> {"open", "taken", "passed", "void"}]
  BY Offering DEF SendRequest, Base
<1>2. /\ pc' = [pc EXCEPT ![h] = "request"] /\ job' = [job EXCEPT ![h] = j]
      /\ answer' = [answer EXCEPT ![h] = None] /\ h \in Requesters
      /\ upset' = upset \ {"restarted"} /\ store' = store
  BY DEF SendRequest
<1>3. j \in Job /\ j.request = r /\ r # None
  BY Kinds DEF Job
<1> HIDE DEF j
<1>4. TypeOK'
  BY <1>1, <1>2, <1>3 DEF Base, TypeOK
<1>5. Roles(h)'
  BY <1>1, <1>2, <1>3 DEF Base, TypeOK, Roles, Asks, Serves
<1>6. ASSUME NEW x \in Hsm, x # h PROVE Roles(x)'
  <2>1. pc'[x] = pc[x] /\ job'[x] = job[x] /\ answer'[x] = answer[x]
        /\ offer'[x] = offer[x] /\ store'[x] = store[x]
    BY <1>1, <1>2, <1>6 DEF Base, TypeOK
  <2> QED BY <1>6, <2>1, RolesFrame DEF Base
<1> QED BY <1>4, <1>5, <1>6 DEF Base

(* write_packet returns, in receive and interrogate or in listen.          *)
LEMMA BaseWritten ==
  ASSUME Base, NEW h \in Hsm, RequestWritten(h) \/ AnswerWritten(h)
  PROVE  Base'
<1>1. /\ offer' = [offer EXCEPT ![h] = None]
      /\ state' \in [Hsm -> {"open", "taken", "passed", "void"}]
  BY Returning DEF RequestWritten, AnswerWritten, Base
<1>2. /\ \/ /\ pc[h] = "request" /\ pc' = [pc EXCEPT ![h] = "response"]
            /\ job' = job
         \/ /\ pc[h] = "answering" /\ pc' = [pc EXCEPT ![h] = "ready"]
            /\ job' = [job EXCEPT ![h] = None]
      /\ UNCHANGED <<store, upset, answer>>
  BY DEF RequestWritten, AnswerWritten
<1>3. TypeOK'
  BY <1>1, <1>2 DEF Base, TypeOK
<1>4. Roles(h)'
  BY <1>1, <1>2 DEF Base, TypeOK, Roles, Asks, Serves
<1>5. ASSUME NEW x \in Hsm, x # h PROVE Roles(x)'
  <2>1. pc'[x] = pc[x] /\ job'[x] = job[x] /\ answer'[x] = answer[x]
        /\ offer'[x] = offer[x] /\ store'[x] = store[x]
    BY <1>1, <1>2, <1>5 DEF Base, TypeOK
  <2> QED BY <1>5, <2>1, RolesFrame DEF Base
<1> QED BY <1>3, <1>4, <1>5 DEF Base
(* What TakeResponse does in all its cases.                                *)
LEMMA Responding ==
  ASSUME NEW h \in Hsm, TakeResponse(h)
  PROVE  /\ pc[h] = "response" /\ ReadPacket(h)
         /\ pc' = [pc EXCEPT ![h] = "ready"] \/ pc' = [pc EXCEPT ![h] = "fault"]
         /\ job' = [job EXCEPT ![h] = None]
         /\ \/ answer' = answer
            \/ /\ Accepts(h, offer[Peer(h)])
               /\ answer' = [answer EXCEPT ![h] = offer[Peer(h)]]
         /\ \/ UNCHANGED <<store, upset>>
            \/ /\ offer[Peer(h)].op = "receive"
               /\ \/ Stored(h, job[h].slot, Response(offer[Peer(h)]))
                  \/ Cut(h, job[h].slot, Response(offer[Peer(h)]))
BY DEF TakeResponse

LEMMA BaseTakeResponse ==
  ASSUME Base, NEW h \in Hsm, TakeResponse(h)
  PROVE  Base'
<1> DEFINE m == offer[Peer(h)]
<1>1. /\ m # None /\ offer' = offer
      /\ state' \in [Hsm -> {"open", "taken", "passed", "void"}]
  BY Responding, Reading DEF Base
<1>2. m \in Requests \cup Answers /\ Peer(h) \in Hsm
  BY <1>1, Peers DEF Base, TypeOK
<1> HIDE DEF m
<1>3. /\ pc[h] = "response"
      /\ pc' = [pc EXCEPT ![h] = "ready"] \/ pc' = [pc EXCEPT ![h] = "fault"]
      /\ job' = [job EXCEPT ![h] = None]
      /\ answer' = answer \/ answer' = [answer EXCEPT ![h] = m]
  BY Responding DEF m
<1>4. /\ store' \in [Hsm -> [Slot -> File \cup {Junk, Damaged, None}]]
      /\ upset' \subseteq {"torn", "restarted"}
      /\ \A y \in Hsm : y # h => store'[y] = store[y]
  <2>1. CASE UNCHANGED <<store, upset>>
    BY <2>1 DEF Base, TypeOK
  <2>2. CASE m.op = "receive" /\ (\/ Stored(h, job[h].slot, Response(m))
                                  \/ Cut(h, job[h].slot, Response(m)))
    <3>1. Response(m) \in File \cup {Junk, Damaged}
      BY <1>2, <2>2, Kinds DEF Response
    <3> QED BY <2>2, <3>1, Storing DEF Base
  <2> QED BY <2>1, <2>2, Responding DEF m
<1>5. TypeOK'
  <2>1. /\ pc' \in [Hsm -> {"ready", "request", "response",
                            "listen", "answer", "answering", "fault"}]
        /\ job' \in [Hsm -> Job \cup {None}]
    BY <1>3 DEF Base, TypeOK
  <2>2. answer' \in [Hsm -> Requests \cup Answers \cup {None}]
    BY <1>2, <1>3 DEF Base, TypeOK
  <2>3. \A x \in Hsm : offer'[x] # None <=> pc'[x] \in {"request", "answering"}
    BY <1>1, <1>3 DEF Base, TypeOK
  <2> QED BY <1>1, <1>4, <2>1, <2>2, <2>3 DEF Base, TypeOK
<1>6. Roles(h)'
  BY <1>3 DEF Base, TypeOK, Roles, Asks, Serves
<1>7. ASSUME NEW x \in Hsm, x # h PROVE Roles(x)'
  <2>1. pc'[x] = pc[x] /\ job'[x] = job[x] /\ answer'[x] = answer[x]
        /\ offer'[x] = offer[x] /\ store'[x] = store[x]
    BY <1>1, <1>3, <1>4, <1>7 DEF Base, TypeOK
  <2> QED BY <1>7, <2>1, RolesFrame DEF Base
<1> QED BY <1>5, <1>6, <1>7 DEF Base

(* What TakeRequest does: it fails, or prepares an answer to a request     *)
(* that is the one it has read, if it has read one.                        *)
LEMMA Requested ==
  ASSUME Base, NEW h \in Hsm, TakeRequest(h)
  PROVE  /\ pc[h] = "listen" /\ ReadPacket(h)
         /\ UNCHANGED <<store, upset, answer>>
         /\ \/ pc' = [pc EXCEPT ![h] = "ready"] /\ job' = job
            \/ \E r \in Requests :
                 /\ pc' = [pc EXCEPT ![h] = "answer"]
                 /\ job' = [job EXCEPT ![h] = [request |-> r, slot |-> None]]
                 /\ r # ListRequest => store[h][r.what] # None
                 /\ offer[Peer(h)].isRequest => r = offer[Peer(h)]
<1> DEFINE m == offer[Peer(h)]
           r == IF m.op = "interrogate" THEN ListRequest
                ELSE IF TooLong(h, m) THEN FileRequest(Slot0)
                ELSE FileRequest(m.what)
<1>1. pc[h] = "listen" /\ ReadPacket(h) /\ UNCHANGED <<store, upset, answer>>
  BY DEF TakeRequest
<1>2. \/ pc' = [pc EXCEPT ![h] = "ready"] /\ job' = job
      \/ /\ pc' = [pc EXCEPT ![h] = "answer"]
         /\ job' = [job EXCEPT ![h] = [request |-> r, slot |-> None]]
         /\ ~ (r # ListRequest /\ store[h][r.what] = None)
  BY DEF TakeRequest
<1>3. m \in Requests \cup Answers
  BY <1>1, Reading, Peers DEF Base, TypeOK
<1>4. r \in Requests /\ (m.isRequest => r = m)
  <2>1. CASE m \in Requests
    <3>1. ~ TooLong(h, m)
      BY <2>1, Kinds DEF TooLong
    <3> QED BY <2>1, <3>1, Kinds
  <2>2. CASE m \in Answers
    <3>1. ~ m.isRequest
      BY <2>2, Kinds
    <3>2. m.op = "interrogate" \/ TooLong(h, m)
      BY <1>1, <2>2, <3>1 DEF TooLong, Answers, Message
    <3> QED BY <3>1, <3>2, Kinds, PairAssumption
  <2> QED BY <1>3, <2>1, <2>2
<1> HIDE DEF r
<1> QED BY <1>1, <1>2, <1>4

LEMMA BaseTakeRequest ==
  ASSUME Base, NEW h \in Hsm, TakeRequest(h)
  PROVE  Base'
<1>1. /\ offer' = offer
      /\ state' \in [Hsm -> {"open", "taken", "passed", "void"}]
  BY Requested, Reading DEF Base
<1>2. pc[h] = "listen" /\ UNCHANGED <<store, upset, answer>>
  BY Requested
<1>3. CASE pc' = [pc EXCEPT ![h] = "ready"] /\ job' = job
  <2>1. TypeOK'
    BY <1>1, <1>2, <1>3 DEF Base, TypeOK
  <2>2. Roles(h)'
    BY <1>2, <1>3 DEF Base, TypeOK, Roles, Asks, Serves
  <2>3. ASSUME NEW x \in Hsm, x # h PROVE Roles(x)'
    BY <1>1, <1>2, <1>3, <2>3, RolesFrame DEF Base, TypeOK
  <2> QED BY <2>1, <2>2, <2>3 DEF Base
<1>4. ASSUME NEW r \in Requests,
             pc' = [pc EXCEPT ![h] = "answer"],
             job' = [job EXCEPT ![h] = [request |-> r, slot |-> None]],
             r # ListRequest => store[h][r.what] # None
      PROVE  Base'
  <2> DEFINE j == [request |-> r, slot |-> None]
  <2>1. j \in Job /\ j.request = r
    BY DEF Job
  <2>2. job' = [job EXCEPT ![h] = j]
    BY <1>4
  <2> HIDE DEF j
  <2>3. TypeOK'
    BY <1>1, <1>2, <1>4, <2>1, <2>2 DEF Base, TypeOK
  <2>4. Roles(h)'
    BY <1>2, <1>4, <2>1, <2>2 DEF Base, TypeOK, Roles, Asks, Serves
  <2>5. ASSUME NEW x \in Hsm, x # h PROVE Roles(x)'
    <3>1. pc'[x] = pc[x] /\ job'[x] = job[x]
      BY <1>4, <2>2, <2>5 DEF Base, TypeOK
    <3> QED BY <1>1, <1>2, <2>5, <3>1, RolesFrame DEF Base
  <2> QED BY <2>3, <2>4, <2>5 DEF Base
<1> QED BY <1>3, <1>4, Requested

LEMMA BaseSendAnswer ==
  ASSUME Base, NEW h \in Hsm, SendAnswer(h)
  PROVE  Base'
<1>1. pc[h] = "answer" /\ job[h] \in Job /\ job[h].request \in Requests
  BY DEF SendAnswer, Base, Roles, Serves, Job
<1>2. PICK m \in AnswersTo(job[h].request, store[h]) : Line!Offer(h, m)
  BY DEF SendAnswer
<1>3. m \in Answers
  BY <1>1, AnswersTyped DEF Base, TypeOK, Roles
<1>4. /\ offer' = [offer EXCEPT ![h] = m]
      /\ offer' \in [Hsm -> Requests \cup Answers \cup {None}]
      /\ state' \in [Hsm -> {"open", "taken", "passed", "void"}]
  BY <1>2, <1>3, Offering DEF Base
<1>5. pc' = [pc EXCEPT ![h] = "answering"] /\ UNCHANGED <<store, upset, job, answer>>
  BY DEF SendAnswer
<1>6. m # None
  BY <1>3, Kinds
<1>7. TypeOK'
  BY <1>4, <1>5, <1>6 DEF Base, TypeOK
<1>8. Roles(h)'
  BY <1>1, <1>3, <1>4, <1>5 DEF Base, TypeOK, Roles, Asks, Serves
<1>9. ASSUME NEW x \in Hsm, x # h PROVE Roles(x)'
  BY <1>4, <1>5, <1>9, RolesFrame DEF Base, TypeOK
<1> QED BY <1>7, <1>8, <1>9 DEF Base

(* A call starts, or a device faults.                                      *)
LEMMA BaseGoes ==
  ASSUME Base, NEW h \in Hsm, Listen(h) \/ ListFaults(h)
  PROVE  Base'
<1>1. /\ pc[h] \in {"ready", "answer"}
      /\ pc' = [pc EXCEPT ![h] = "listen"] \/ pc' = [pc EXCEPT ![h] = "fault"]
      /\ UNCHANGED <<store, upset, job, answer, offer, state>>
  BY DEF Listen, ListFaults, lineVars
<1>2. TypeOK'
  BY <1>1 DEF Base, TypeOK
<1>3. Roles(h)'
  BY <1>1 DEF Base, TypeOK, Roles, Asks, Serves
<1>4. ASSUME NEW x \in Hsm, x # h PROVE Roles(x)'
  BY <1>1, <1>4, RolesFrame DEF Base, TypeOK
<1> QED BY <1>2, <1>3, <1>4 DEF Base

(* What a restart does to the line.                                        *)
LEMMA Restarting ==
  ASSUME TypeOK, NEW h \in Hsm, Restart(h)
  PROVE  /\ pc[h] \in {"ready", "response", "listen", "answer", "fault"}
         /\ pc' = [pc EXCEPT ![h] = "ready"] /\ job' = [job EXCEPT ![h] = None]
         /\ upset' = upset \cup {"restarted"} /\ UNCHANGED <<store, answer, offer>>
         /\ state' \in [Hsm -> {"open", "taken", "passed", "void"}]
         /\ \/ state' = state
            \/ state' = [state EXCEPT ![Peer(h)] = "passed"]
<1>1. \/ state' = state /\ offer' = offer
      \/ state' = [state EXCEPT ![Peer(h)] = "passed"] /\ offer' = offer
  BY DEF Restart, lineVars, Line!PassOver, Line!Leave
<1>2. Peer(h) \in Hsm
  BY Peers
<1> QED BY <1>1, <1>2 DEF Restart, TypeOK

LEMMA BaseRestart ==
  ASSUME Base, NEW h \in Hsm, Restart(h)
  PROVE  Base'
<1>1. /\ pc[h] \in {"ready", "response", "listen", "answer", "fault"}
      /\ pc' = [pc EXCEPT ![h] = "ready"] /\ job' = [job EXCEPT ![h] = None]
      /\ upset' = upset \cup {"restarted"} /\ UNCHANGED <<store, answer, offer>>
      /\ state' \in [Hsm -> {"open", "taken", "passed", "void"}]
  BY Restarting DEF Base
<1>2. TypeOK'
  BY <1>1 DEF Base, TypeOK
<1>3. Roles(h)'
  BY <1>1 DEF Base, TypeOK, Roles, Asks, Serves
<1>4. ASSUME NEW x \in Hsm, x # h PROVE Roles(x)'
  BY <1>1, <1>4, RolesFrame DEF Base, TypeOK
<1> QED BY <1>2, <1>3, <1>4 DEF Base

LEMMA BaseInductive == Base /\ [Next]_vars => Base'
<1> SUFFICES ASSUME Base, [Next]_vars PROVE Base'
  OBVIOUS
<1>1. ASSUME NEW h \in Hsm, Step(h) PROVE Base'
  BY <1>1, Kinds, BaseHostWrite, BaseSendRequest, BaseWritten, BaseTakeResponse,
     BaseGoes, BaseTakeRequest, BaseSendAnswer, BaseRestart DEF Step
<1>2. CASE UNCHANGED vars
  BY <1>2 DEF vars, lineVars, Base, TypeOK, Roles, Asks, Serves
<1> QED BY <1>1, <1>2 DEF Next

LEMMA BaseInitially == Init => Base
BY DEF Init, Line!Idle, Base, TypeOK, Roles, Asks, Serves

(* Every variable of the two devices and of the line has its type.         *)
THEOREM Types == Spec => []TypeOK
<1>1. Base => TypeOK
  BY DEF Base
<1> QED BY BaseInitially, BaseInductive, <1>1, PTL DEF Spec
-----------------------------------------------------------------------------
(* Which files the slots may hold.                                         *)

LEMMA ReadableGrows ==
  ASSUME upset \subseteq upset' \/ upset' = upset \ {"restarted"}
  PROVE  Readable \subseteq Readable'
BY DEF Readable

(* When only one host sends requests, what is taken for an answer is one.  *)
LEMMA AnswersOnly ==
  ASSUME Base, OneRequester, NEW h \in Hsm, TakeResponse(h)
  PROVE  /\ pc[Peer(h)] = "answering" /\ state[Peer(h)] = "open"
         /\ ~ offer[Peer(h)].isRequest
         /\ Response(offer[Peer(h)]) = offer[Peer(h)].what
<1>1. pc[h] = "response" /\ offer[Peer(h)] # None /\ state[Peer(h)] = "open"
  BY Responding, Reading DEF Base
<1>2. Peer(h) \in Hsm /\ Peer(h) # h
  BY Peers
<1>3. h \in Requesters /\ pc[Peer(h)] \in {"request", "answering"}
  BY <1>1, <1>2 DEF Base, TypeOK, Roles, Asks
<1>4. pc[Peer(h)] # "request"
  BY <1>2, <1>3 DEF Base, Roles, Asks, OneRequester
<1>5. offer[Peer(h)] \in Answers
  BY <1>2, <1>3, <1>4 DEF Base, Roles
<1> QED BY <1>1, <1>3, <1>4, <1>5, Kinds DEF Response

LEMMA StoreStep ==
  ASSUME Base, OneRequester, Named = File, StoreInv,
         NEW h \in Hsm, Step(h)
  PROVE  StoreInv'
<1>1. \A x \in Hsm, t \in Slot : store[x][t] \in {None} \cup Readable
  BY DEF StoreInv, OnlyHostFiles
<1>2. ASSUME Readable \subseteq Readable', store' = store
      PROVE  OnlyHostFiles'
  BY <1>1, <1>2 DEF OnlyHostFiles
(* A write_file of something readable.                                     *)
<1>3. ASSUME NEW s, NEW x \in File \cup {Junk, Damaged}, x \in Readable',
             Stored(h, s, x) \/ Cut(h, s, x)
      PROVE  OnlyHostFiles'
  <2>1. upset \subseteq upset'
    BY <1>3, Storing DEF Base
  <2>2. Readable \subseteq Readable'
    BY <2>1, ReadableGrows
  <2>3. "torn" \in upset' => Damaged \in Readable'
    BY DEF Readable
  <2>4. \A t \in Slot : \/ store'[h][t] \in {store[h][t], x, None}
                        \/ "torn" \in upset' /\ store'[h][t] = Damaged
    BY <1>3, Storing DEF Base
  <2>5. \A y \in Hsm : y # h => store'[y] = store[y]
    BY <1>3, Storing DEF Base
  <2>6. \A t \in Slot : store'[h][t] \in {None} \cup Readable'
    BY <1>1, <1>3, <2>2, <2>3, <2>4
  <2>7. \A y \in Hsm, t \in Slot : y # h => store'[y][t] \in {None} \cup Readable'
    BY <1>1, <2>2, <2>5
  <2> QED BY <2>6, <2>7 DEF OnlyHostFiles
(* No answer is offered or changed.                                        *)
<1>4. ASSUME Readable \subseteq Readable', offer' = offer,
             \A x \in Hsm : pc'[x] = "answering" => pc[x] = "answering"
      PROVE  \A x \in Hsm : AnswerStorable(x)'
  BY <1>4 DEF StoreInv, AnswerStorable
<1>5. ASSUME Readable \subseteq Readable', store' = store, offer' = offer,
             \A x \in Hsm : pc'[x] = "answering" => pc[x] = "answering"
      PROVE  StoreInv'
  BY <1>2, <1>4, <1>5 DEF StoreInv
<1>6. ASSUME NEW s \in Slot, NEW f \in File, HostWrite(h, s, f) PROVE StoreInv'
  <2>1. Stored(h, s, f) \/ Cut(h, s, f)
    BY <1>6 DEF HostWrite, CreateFile
  <2>2. GroupOf[f] \in GroupId /\ PermsOf[h] \in Seq(Permission)
        /\ Validated(PermsOf[h], DeploymentGroups(Groups)) /\ "write" \in Kind
    BY PairAssumption DEF Kind
  <2>3. ValidatePermission(GlobalPermissions(PermsOf[h]), GroupOf[f], "write")
    BY <1>6 DEF HostWrite
  <2>4. Grants(PermsOf[h], GroupOf[f], "write")
    BY <2>2, <2>3, TableDecidesAsList
  <2>5. f \in Readable'
    BY <2>4 DEF Readable
  <2>6. upset \subseteq upset' /\ UNCHANGED <<pc, offer>>
    BY <1>6, <2>1, Storing DEF HostWrite, lineVars, Base
  <2>7. OnlyHostFiles'
    BY <1>3, <2>1, <2>5
  <2>8. \A x \in Hsm : AnswerStorable(x)'
    BY <1>4, <2>6, ReadableGrows
  <2> QED BY <2>7, <2>8 DEF StoreInv
<1>7. ASSUME NEW r \in Requests, NEW s \in Slot \cup {None}, SendRequest(h, r, s)
      PROVE  StoreInv'
  <2>1. upset' = upset \ {"restarted"} /\ store' = store
        /\ pc' = [pc EXCEPT ![h] = "request"]
    BY <1>7 DEF SendRequest
  <2>2. offer' = [offer EXCEPT ![h] = r]
    BY <1>7, Offering DEF SendRequest, Base
  <2>3. Readable \subseteq Readable'
    BY <2>1, ReadableGrows
  <2>4. \A x \in Hsm : AnswerStorable(x)'
    BY <2>1, <2>2, <2>3 DEF StoreInv, AnswerStorable, Base, TypeOK
  <2> QED BY <1>2, <2>1, <2>3, <2>4 DEF StoreInv
<1>8. ASSUME RequestWritten(h) \/ AnswerWritten(h) PROVE StoreInv'
  <2>1. /\ UNCHANGED <<store, upset>> /\ offer' = [offer EXCEPT ![h] = None]
        /\ pc' = [pc EXCEPT ![h] = "response"] \/ pc' = [pc EXCEPT ![h] = "ready"]
    BY <1>8, Returning DEF RequestWritten, AnswerWritten, Base
  <2>2. Readable \subseteq Readable'
    BY <2>1, ReadableGrows
  <2>3. \A x \in Hsm : AnswerStorable(x)'
    BY <2>1, <2>2 DEF StoreInv, AnswerStorable, Base, TypeOK
  <2> QED BY <1>2, <2>1, <2>2, <2>3 DEF StoreInv
<1>9. ASSUME TakeResponse(h) PROVE StoreInv'
  <2> DEFINE m == offer[Peer(h)]
  <2>1. /\ offer' = offer
        /\ pc' = [pc EXCEPT ![h] = "ready"] \/ pc' = [pc EXCEPT ![h] = "fault"]
    BY <1>9, Responding, Reading DEF Base
  <2>2. \A x \in Hsm : pc'[x] = "answering" => pc[x] = "answering"
    BY <2>1 DEF Base, TypeOK
  <2>3. CASE UNCHANGED <<store, upset>>
    BY <1>5, <2>1, <2>2, <2>3, ReadableGrows
  <2>4. CASE m.op = "receive" /\ (\/ Stored(h, job[h].slot, Response(m))
                                  \/ Cut(h, job[h].slot, Response(m)))
    <3>1. pc[Peer(h)] = "answering" /\ Response(m) = m.what /\ Peer(h) \in Hsm
      BY <1>9, AnswersOnly, Peers
    <3>2. m \in Answers
      BY <3>1 DEF Base, Roles
    <3>3. m.what \in File \cup {Junk, Damaged}
      BY <2>4, <3>2, Kinds
    <3>4. m.what \in Readable
      BY <2>4, <3>1 DEF StoreInv, AnswerStorable
    <3>5. upset \subseteq upset'
      BY <2>4, <3>1, <3>3, Storing DEF Base
    <3>6. Readable \subseteq Readable'
      BY <3>5, ReadableGrows
    <3> HIDE DEF m
    <3>7. OnlyHostFiles'
      BY <1>3, <2>4, <3>1, <3>3, <3>4, <3>6
    <3>8. \A x \in Hsm : AnswerStorable(x)'
      BY <1>4, <2>1, <2>2, <3>6
    <3> QED BY <3>7, <3>8 DEF StoreInv
  <2> QED BY <1>9, <2>3, <2>4, Responding
<1>10. ASSUME Listen(h) \/ ListFaults(h) PROVE StoreInv'
  <2>1. /\ UNCHANGED <<store, upset, offer>>
        /\ pc' = [pc EXCEPT ![h] = "listen"] \/ pc' = [pc EXCEPT ![h] = "fault"]
    BY <1>10 DEF Listen, ListFaults, lineVars
  <2>2. \A x \in Hsm : pc'[x] = "answering" => pc[x] = "answering"
    BY <2>1 DEF Base, TypeOK
  <2> QED BY <1>5, <2>1, <2>2, ReadableGrows
<1>11. ASSUME TakeRequest(h) PROVE StoreInv'
  <2>1. /\ UNCHANGED <<store, upset, offer>>
        /\ pc' = [pc EXCEPT ![h] = "ready"] \/ pc' = [pc EXCEPT ![h] = "answer"]
    BY <1>11, Requested, Reading DEF Base
  <2>2. \A x \in Hsm : pc'[x] = "answering" => pc[x] = "answering"
    BY <2>1 DEF Base, TypeOK
  <2> QED BY <1>5, <2>1, <2>2, ReadableGrows
<1>12. ASSUME SendAnswer(h) PROVE StoreInv'
  <2>1. pc[h] = "answer" /\ job[h].request \in Requests
    BY <1>12 DEF SendAnswer, Base, Roles, Serves, Job
  <2>2. PICK m \in AnswersTo(job[h].request, store[h]) : Line!Offer(h, m)
    BY <1>12 DEF SendAnswer
  <2>3. /\ m \in Answers
        /\ m.op = "receive" => m.what = store[h][job[h].request.what]
    <3> DEFINE r == job[h].request
    <3>1. r # ListRequest => store[h][r.what] # None
      BY <2>1 DEF Base, Roles
    <3>2. store[h] \in [Slot -> File \cup {Junk, Damaged, None}]
      BY DEF Base, TypeOK
    <3> HIDE DEF r
    <3>3. \A a \in AnswersTo(r, store[h]) :
            a \in Answers /\ (a.op = "receive" => a.what = store[h][r.what])
      BY <2>1, <3>1, <3>2, AnswersTyped DEF r
    <3> QED BY <2>2, <3>3 DEF r
  <2>4. offer' = [offer EXCEPT ![h] = m]
    BY <2>2, <2>3, Offering DEF Base
  <2>5. pc' = [pc EXCEPT ![h] = "answering"] /\ UNCHANGED <<store, upset>>
    BY <1>12 DEF SendAnswer
  <2>6. Readable \subseteq Readable'
    BY <2>5, ReadableGrows
  <2>7. m.op = "receive" => m.what \in Readable
    <3>1. SUFFICES ASSUME m.op = "receive" PROVE m.what \in Readable
      OBVIOUS
    <3>2. m.what \in File \cup {Junk, Damaged} /\ m.what # None
      BY <2>3, <3>1, Kinds, PairAssumption
    <3>3. job[h].request.what \in Slot
      <4>1. job[h].request # ListRequest
        BY <2>2, <3>1, Kinds DEF AnswersTo, Message
      <4> QED BY <2>1, <4>1, Kinds
    <3> QED BY <1>1, <2>3, <3>1, <3>2, <3>3
  <2>8. AnswerStorable(h)'
    BY <2>4, <2>6, <2>7 DEF Base, TypeOK, AnswerStorable
  <2>9. ASSUME NEW x \in Hsm, x # h PROVE AnswerStorable(x)'
    BY <2>4, <2>5, <2>6, <2>9 DEF Base, TypeOK, StoreInv, AnswerStorable
  <2> QED BY <1>2, <2>5, <2>6, <2>8, <2>9 DEF StoreInv
<1>13. ASSUME Restart(h) PROVE StoreInv'
  <2>1. upset \subseteq upset' /\ UNCHANGED <<store, offer>>
        /\ pc' = [pc EXCEPT ![h] = "ready"]
    BY <1>13, Restarting DEF Base
  <2>2. \A x \in Hsm : pc'[x] = "answering" => pc[x] = "answering"
    BY <2>1 DEF Base, TypeOK
  <2> QED BY <1>5, <2>1, <2>2, ReadableGrows
<1> QED
  BY <1>6, <1>7, <1>8, <1>9, <1>10, <1>11, <1>12, <1>13, Kinds DEF Step

LEMMA StoreInitially == Init => StoreInv
BY DEF Init, StoreInv, OnlyHostFiles, AnswerStorable

(* If only one host sends requests and hosts name their files, a device    *)
(* never stores anything but a file some device was permitted to write, or *)
(* one that a restart has damaged (validate_permission, write, receive).   *)
THEOREM Stores ==
  ASSUME OneRequester, Named = File
  PROVE  Spec => []OnlyHostFiles
<1>1. Base /\ StoreInv /\ [Next]_vars => StoreInv'
  <2> SUFFICES ASSUME Base, StoreInv, [Next]_vars PROVE StoreInv'
    OBVIOUS
  <2>1. ASSUME NEW h \in Hsm, Step(h) PROVE StoreInv'
    BY <2>1, StoreStep
  <2>2. CASE UNCHANGED vars
    BY <2>2 DEF vars, lineVars, StoreInv, OnlyHostFiles, AnswerStorable, Readable
  <2> QED BY <2>1, <2>2 DEF Next
<1>2. StoreInv => OnlyHostFiles
  BY DEF StoreInv
<1> QED
  BY <1>1, <1>2, StoreInitially, BaseInitially, BaseInductive, PTL DEF Spec
-----------------------------------------------------------------------------
(* Answers are the neighbor's files.                                       *)

LEMMA Watching ==
  ASSUME NEW h \in Hsm, Step(h)
  PROVE  Watch
BY DEF Step, HostWrite, SendRequest, RequestWritten, TakeResponse, Listen,
   TakeRequest, SendAnswer, ListFaults, AnswerWritten, Restart

(* While a device waits, what its neighbor's files stand for is collected. *)
LEMMA Collecting ==
  ASSUME Watch, NEW x \in Hsm, Asks(x)'
  PROVE  /\ AnswersTo(job'[x].request, store'[Peer(x)]) \subseteq seen'[x]
         /\ pc[x] # "ready" => seen[x] \subseteq seen'[x]
BY DEF Watch, Asks

(* Where a device that waits after the step may have been before it.       *)
LEMMA Waiting ==
  ASSUME Base, NEW x \in Hsm, Step(x), Asks(x)'
  PROVE  \/ \E r \in Requests, s \in Slot \cup {None} : SendRequest(x, r, s)
         \/ RequestWritten(x)
<1> USE DEF Base, TypeOK, Asks
<1>1. ASSUME NEW s \in Slot, NEW f \in File, HostWrite(x, s, f) PROVE FALSE
  BY <1>1 DEF HostWrite
<1>2. ~ TakeResponse(x)
  BY Responding
<1>3. ~ Listen(x) /\ ~ SendAnswer(x) /\ ~ ListFaults(x) /\ ~ AnswerWritten(x)
  BY DEF Listen, SendAnswer, ListFaults, AnswerWritten
<1>4. ~ TakeRequest(x)
  BY Requested
<1>5. ~ Restart(x)
  BY Restarting
<1> QED BY <1>1, <1>2, <1>3, <1>4, <1>5, Kinds DEF Step

(* A step leaves the other device in peace.                                *)
LEMMA OthersKept ==
  ASSUME Base, NEW h \in Hsm, Step(h), NEW x \in Hsm, x # h
  PROVE  pc'[x] = pc[x] /\ job'[x] = job[x] /\ answer'[x] = answer[x]
<1> USE DEF Base, TypeOK
<1>1. ASSUME NEW s \in Slot, NEW f \in File, HostWrite(h, s, f)
      PROVE  UNCHANGED <<pc, job, answer>>
  BY <1>1 DEF HostWrite
<1>2. ASSUME NEW r \in Requests, NEW s \in Slot \cup {None}, SendRequest(h, r, s)
      PROVE  pc'[x] = pc[x] /\ job'[x] = job[x] /\ answer'[x] = answer[x]
  BY <1>2 DEF SendRequest
<1>3. ASSUME TakeResponse(h)
      PROVE  pc'[x] = pc[x] /\ job'[x] = job[x] /\ answer'[x] = answer[x]
  BY <1>3, Responding
<1>4. ASSUME TakeRequest(h)
      PROVE  pc'[x] = pc[x] /\ job'[x] = job[x] /\ answer'[x] = answer[x]
  BY <1>4, Requested
<1>5. ASSUME \/ RequestWritten(h) \/ Listen(h) \/ SendAnswer(h) \/ ListFaults(h)
             \/ AnswerWritten(h) \/ Restart(h)
      PROVE  pc'[x] = pc[x] /\ job'[x] = job[x] /\ answer'[x] = answer[x]
  BY <1>5 DEF RequestWritten, Listen, SendAnswer, ListFaults, AnswerWritten, Restart
<1> QED BY <1>1, <1>2, <1>3, <1>4, <1>5, Kinds DEF Step

LEMMA CommandStep ==
  ASSUME Base, Base', OneRequester, AnswerInv,
         NEW h \in Hsm, Step(h), NEW x \in Hsm, Asks(x)'
  PROVE  SameCommand(x)'
<1> DEFINE g == Peer(x)
<1>1. g \in Hsm /\ g # x /\ Peer(g) = x /\ \A y \in Hsm : y = x \/ y = g
  BY Peers
<1>2. x \in Requesters /\ ~ Asks(g) /\ ~ Asks(g)'
  BY <1>1 DEF Base, Roles, OneRequester
<1>3. /\ AnswersTo(job'[x].request, store'[g]) \subseteq seen'[x]
      /\ pc[x] # "ready" => seen[x] \subseteq seen'[x]
  BY Watching, Collecting
<1>4. SameCommand(x)
  BY DEF AnswerInv
<1>5. CASE h = x
  <2>1. ASSUME NEW r \in Requests, NEW s \in Slot \cup {None}, SendRequest(x, r, s)
        PROVE  SameCommand(x)'
    <3>1. pc'[x] = "request" /\ state'[x] = "open"
      BY <2>1, Offering DEF SendRequest, Base, TypeOK
    <3> QED BY <3>1 DEF SameCommand, Heard
  <2>2. ASSUME RequestWritten(x) PROVE SameCommand(x)'
    <3>1. /\ pc[x] = "request" /\ pc'[x] = "response"
          /\ job' = job /\ pc'[g] = pc[g]
      BY <1>1, <2>2 DEF RequestWritten, Base, TypeOK
    <3>2. /\ offer' = [offer EXCEPT ![x] = None]
          /\ \/ state[x] \in {"taken", "void"} /\ state' = state
             \/ offer[g] # None /\ state' = [state EXCEPT ![g] = "void"]
      BY <2>2, Returning DEF RequestWritten, Base
    <3>3. SUFFICES ASSUME Awaited(g)'
                   PROVE  /\ job'[g].request = job'[x].request
                          /\ pc'[g] = "answering" => offer'[g] \in seen'[x]
      BY <3>1 DEF SameCommand
    <3>4. CASE offer[g] # None /\ state' = [state EXCEPT ![g] = "void"]
      <4>1. pc[g] = "answering"
        BY <1>1, <1>2, <3>4 DEF Base, TypeOK, Asks
      <4>2. state'[g] = "void"
        BY <1>1, <3>4 DEF Base, TypeOK
      <4> QED BY <3>1, <3>3, <4>1, <4>2 DEF Awaited
    <3>5. CASE state[x] \in {"taken", "void"} /\ state' = state
      <4>1. Awaited(g)
        BY <3>1, <3>3, <3>5 DEF Awaited
      <4>2. Serves(g)
        BY <4>1 DEF Awaited, Serves
      <4>3. state[x] = "taken"
        BY <1>4, <3>1, <3>5, <4>2 DEF SameCommand
      <4>4. /\ job[g].request = job[x].request
            /\ pc[g] = "answering" => offer[g] \in seen[x]
        BY <1>4, <3>1, <4>1, <4>3 DEF SameCommand, Heard
      <4>5. offer'[g] = offer[g]
        BY <1>1, <3>2 DEF Base, TypeOK
      <4> QED BY <1>3, <3>1, <4>4, <4>5
    <3> QED BY <3>2, <3>4, <3>5
  <2> QED BY <1>5, <2>1, <2>2, Waiting
<1>6. CASE h = g
  <2>1. pc'[x] = pc[x] /\ job'[x] = job[x] /\ Asks(x) /\ pc[x] # "ready"
    BY <1>1, <1>6, OthersKept DEF Asks
  <2>2. ASSUME ~ Serves(g)' PROVE SameCommand(x)'
    BY <2>2 DEF SameCommand, Awaited, Serves
  <2>3. ASSUME NEW s \in Slot, NEW f \in File, HostWrite(g, s, f) PROVE ~ Serves(g)'
    BY <2>3 DEF HostWrite, Serves
  <2>4. ASSUME Listen(g) \/ ListFaults(g) \/ AnswerWritten(g) \/ Restart(g)
        PROVE  ~ Serves(g)'
    BY <1>1, <2>4 DEF Listen, ListFaults, AnswerWritten, Restart, Serves, Base, TypeOK
  <2>5. ASSUME NEW r \in Requests, NEW s \in Slot \cup {None}, SendRequest(g, r, s)
        PROVE  FALSE
    BY <1>1, <1>2, <2>5 DEF SendRequest, Asks, Base, TypeOK
  <2>6. ~ RequestWritten(g) /\ ~ TakeResponse(g)
    BY <1>2, Responding, <1>1 DEF RequestWritten, Asks
  <2>7. ASSUME TakeRequest(g) PROVE SameCommand(x)'
    <3>1. ReadPacket(g)
      BY <1>1, <2>7, Requested
    <3>2. /\ offer[x] # None
          /\ state' = [state EXCEPT ![x] =
                         IF TooLong(g, offer[x]) THEN "passed" ELSE "taken"]
      BY <1>1, <3>1, Reading DEF Base
    <3>3. pc[x] = "request" /\ offer[x] = job[x].request /\ offer[x] \in Requests
      BY <2>1, <3>2 DEF Base, TypeOK, Roles, Asks, Job
    <3>4. offer[x].isRequest /\ ~ TooLong(g, offer[x])
      BY <3>3, Kinds DEF TooLong
    <3>5. state'[x] = "taken"
      BY <3>2, <3>4 DEF Base, TypeOK
    <3>6. CASE pc' = [pc EXCEPT ![g] = "ready"]
      BY <1>1, <2>2, <3>6 DEF Serves, Base, TypeOK
    <3>7. ASSUME NEW r \in Requests,
                 pc' = [pc EXCEPT ![g] = "answer"],
                 job' = [job EXCEPT ![g] = [request |-> r, slot |-> None]],
                 offer[x].isRequest => r = offer[x]
          PROVE  SameCommand(x)'
      <4>1. pc'[g] = "answer" /\ job'[g].request = r
        BY <1>1, <3>7 DEF Base, TypeOK
      <4>2. job'[g].request = job'[x].request
        BY <2>1, <3>3, <3>4, <3>7, <4>1
      <4> QED BY <3>5, <4>1, <4>2 DEF SameCommand
    <3> QED BY <1>1, <2>7, <3>6, <3>7, Requested
  <2>8. ASSUME SendAnswer(g) PROVE SameCommand(x)'
    <3>1. pc[g] = "answer" /\ job' = job /\ store' = store /\ pc'[g] = "answering"
      BY <1>1, <2>8 DEF SendAnswer, Base, TypeOK
    <3>2. PICK m \in AnswersTo(job[g].request, store[g]) : Line!Offer(g, m)
      BY <2>8 DEF SendAnswer
    <3>3. state'[x] = state[x] /\ offer'[g] = m
      BY <1>1, <3>2 DEF Line!Offer, Base, TypeOK
    <3>4. Serves(g) /\ Awaited(g)
      BY <3>1 DEF Serves, Awaited
    <3>5. ~ (pc[x] = "request" /\ state[x] \in {"void", "passed"})
      BY <1>4, <3>4 DEF SameCommand
    <3>6. SUFFICES ASSUME Heard(x)'
                   PROVE  /\ job'[g].request = job'[x].request
                          /\ offer'[g] \in seen'[x]
      BY <2>1, <3>3, <3>5 DEF SameCommand
    <3>7. Heard(x)
      BY <2>1, <3>3, <3>6 DEF Heard
    <3>8. job[g].request = job[x].request
      BY <1>4, <3>4, <3>7 DEF SameCommand
    <3> QED BY <1>3, <3>1, <3>2, <3>3, <3>8
  <2> QED
    BY <1>6, <2>2, <2>3, <2>4, <2>5, <2>6, <2>7, <2>8, Kinds DEF Step
<1> QED BY <1>1, <1>5, <1>6

(* What a device takes for its answer.                                     *)
LEMMA Answering ==
  ASSUME Base, NEW h \in Hsm, Step(h), NEW x \in Hsm
  PROVE  \/ answer'[x] \in {answer[x], None}
         \/ x = h /\ TakeResponse(h) /\ answer'[x] = offer[Peer(x)]
<1>1. CASE x # h
  BY <1>1, OthersKept
<1>2. CASE x = h
  <2> USE DEF Base, TypeOK
  <2>1. ASSUME NEW s \in Slot, NEW f \in File, HostWrite(h, s, f)
        PROVE  answer' = answer
    BY <2>1 DEF HostWrite
  <2>2. ASSUME NEW r \in Requests, NEW s \in Slot \cup {None}, SendRequest(h, r, s)
        PROVE  answer'[h] = None
    BY <2>2 DEF SendRequest
  <2>3. ASSUME TakeResponse(h)
        PROVE  answer' = answer \/ answer'[h] = offer[Peer(h)]
    BY <2>3, Responding
  <2>4. ASSUME \/ RequestWritten(h) \/ Listen(h) \/ TakeRequest(h) \/ SendAnswer(h)
               \/ ListFaults(h) \/ AnswerWritten(h) \/ Restart(h)
        PROVE  answer' = answer
    BY <2>4 DEF RequestWritten, Listen, TakeRequest, SendAnswer, ListFaults,
       AnswerWritten, Restart
  <2> QED BY <1>2, <2>1, <2>2, <2>3, <2>4, Kinds DEF Step
<1> QED BY <1>1, <1>2

LEMMA AnswerStep ==
  ASSUME Base, Base', OneRequester, AnswerInv, NEW h \in Hsm, Step(h)
  PROVE  AnswerInv'
<1>1. ASSUME NEW x \in Hsm PROVE SameCommand(x)'
  <2>1. CASE Asks(x)'
    BY <2>1, CommandStep
  <2>2. CASE ~ Asks(x)'
    BY <2>2 DEF SameCommand, Heard, Asks
  <2> QED BY <2>1, <2>2
<1>2. ASSUME NEW x \in Hsm, answer'[x] # None PROVE answer'[x] \in seen'[x]
  <2>1. ~ Asks(x)'
    BY <1>2 DEF Base, Roles
  <2>2. seen'[x] = seen[x] \cap {answer'[x]}
    BY <2>1, Watching DEF Watch, Asks
  <2>3. CASE answer'[x] \in {answer[x], None}
    BY <1>2, <2>2, <2>3 DEF AnswerInv, AnswerIsPeers
  <2>4. CASE x = h /\ TakeResponse(h) /\ answer'[x] = offer[Peer(x)]
    <3>1. Heard(x) /\ Awaited(Peer(x)) /\ pc[Peer(x)] = "answering"
      BY <2>4, AnswersOnly, Responding DEF Heard, Awaited
    <3>2. SameCommand(x)
      BY DEF AnswerInv
    <3>3. offer[Peer(x)] \in seen[x]
      BY <3>1, <3>2 DEF SameCommand
    <3> QED BY <2>2, <2>4, <3>3
  <2> QED BY <2>3, <2>4, Answering
<1> QED BY <1>1, <1>2 DEF AnswerInv, AnswerIsPeers

LEMMA AnswerInitially == Init => AnswerInv
BY DEF Init, AnswerInv, AnswerIsPeers, SameCommand, Heard

(* If only one host sends requests, every answer a device accepts is what  *)
(* its neighbor had to answer during this very command, though nothing but *)
(* the opcode ties an answer to its request (receive, interrogate).        *)
THEOREM OwnAnswers ==
  ASSUME OneRequester
  PROVE  Spec => []AnswerIsPeers
<1>1. Base /\ Base' /\ AnswerInv /\ [Next]_vars => AnswerInv'
  <2> SUFFICES ASSUME Base, Base', AnswerInv, [Next]_vars PROVE AnswerInv'
    OBVIOUS
  <2>1. ASSUME NEW h \in Hsm, Step(h) PROVE AnswerInv'
    BY <2>1, AnswerStep
  <2>2. CASE UNCHANGED vars
    BY <2>2 DEF vars, lineVars, AnswerInv, AnswerIsPeers, SameCommand, Heard,
       Awaited, Serves
  <2> QED BY <2>1, <2>2 DEF Next
<1>2. AnswerInv => AnswerIsPeers
  BY DEF AnswerInv
<1> QED
  BY <1>1, <1>2, AnswerInitially, BaseInitially, BaseInductive, PTL DEF Spec
=============================================================================
