------------------------------- MODULE HsmPair -------------------------------
(***************************************************************************)
(* commands.c: two HSMs joined by their TRANSFER_INTERFACE, each executing *)
(* the commands its own host sends.  The transfer line is PacketLine, of   *)
(* AtomicPacket (which PacketLink implements), and write_file replaces one *)
(* slot in one step, unless a restart cuts it (SlotStore, which FileStore  *)
(* implements).                                                            *)
(*                                                                         *)
(* Every command a handler rejects for its PIN ends in an error message    *)
(* and changes nothing, and so do list and read when they succeed: none of *)
(* them is a step here.  Hosts send slots of the table and lengths that    *)
(* fit.                                                                    *)
(***************************************************************************)
EXTENDS FiniteSets, Permissions

CONSTANTS
  Hsm,        \* the two devices
  Requesters, \* the devices whose host sends receive and interrogate commands
  Slot,       \* the slots of each device
  Slot0,      \* the slot numbered 0
  File,       \* the files hosts write: contents, name, group and UUID
  Named,      \* those with a non-empty name
  GroupOf,    \* the group of each file
  Groups,     \* the groups the deployment is generated for
  PermsOf,    \* the permissions each device is built with
  MayRestart, \* whether devices restart
  Junk,       \* a readable file object that create_file has not made
  Damaged,    \* a readable slot whose write was cut: erased or torn pages,
              \*   or an older file under the UUID of the cut write
  None        \* no file, no message

ASSUME PairAssumption ==
  /\ \E a, b \in Hsm : a # b /\ Hsm = {a, b}
  /\ Requesters \subseteq Hsm
  /\ Slot0 \in Slot
  /\ Named \subseteq File
  /\ GroupOf \in [File -> GroupId]
  /\ \A h \in Hsm : /\ PermsOf[h] \in Seq(Permission)
                     /\ Validated(PermsOf[h], DeploymentGroups(Groups))
  /\ MayRestart \in BOOLEAN
  /\ Junk \notin File /\ Damaged \notin File \cup {Junk}
  /\ None \notin File \cup {Junk, Damaged}

VARIABLES
  pc,      \* where each device is in a command
  store,   \* the file in each slot of each device
  job,     \* receive, interrogate: the request and the slot to fill;
           \*   listen: the request to answer
  answer,  \* the response receive or interrogate last accepted
  seen,    \* history: the responses the peer's files have stood for since
           \*   the command started
  upset,   \* history: torn if a restart has cut a write, restarted if a device
           \*   has restarted since the last request
  offer, state    \* the transfer line, see PacketLine

lineVars == <<offer, state>>
vars == <<pc, store, job, answer, seen, upset, lineVars>>

Peer(h) == CHOOSE g \in Hsm : g # h

-----------------------------------------------------------------------------
(* Messages on the transfer line: an opcode, whether it is a request, and  *)
(* its content.                                                            *)
Message(op, isRequest, what) ==
  [op |-> op, isRequest |-> isRequest, what |-> what]

FileRequest(s) == Message("receive", TRUE, s)
ListRequest == Message("interrogate", TRUE, None)
Requests == {FileRequest(s) : s \in Slot} \cup {ListRequest}

(* generate_list_files: the slots in use, with what is known of the file.  *)
(* A damaged slot may have its in_use mark or not.                         *)
FileLists(files) ==
  LET Holding(x) == {<<s, files[s]>> : s \in {t \in Slot : files[t] \in x}}
  IN {Holding(File) \cup d : d \in SUBSET Holding({Damaged})}

(* What listen may send in return for a request, from these files.         *)
AnswersTo(request, files) ==
  IF request.op = "receive"
    THEN {Message("receive", FALSE, files[request.what])}
    ELSE {Message("interrogate", FALSE, l) : l \in FileLists(files)}

Answers ==
  {Message("receive", FALSE, f) : f \in File \cup {Junk, Damaged}}
    \cup {Message("interrogate", FALSE, l) :
            l \in SUBSET (Slot \X (File \cup {Damaged}))}

ASSUME MessageAssumption == None \notin Requests \cup Answers

Line == INSTANCE PacketLine WITH End <- Hsm

(* Mutant: receive reads with the limit of interrogate.                    *)
TooLongReceive(h, m) ==
  /\ ~ m.isRequest
  /\ \/ pc[h] \in {"listen", "response"} /\ m.op = "receive"
     \/ pc[h] = "listen" /\ m.op # "receive" /\ Cardinality(m.what) > 1

(* The packets read_packet refuses for their length: in listen whatever is *)
(* longer than a receive_request_t, that is, any file and any list with    *)
(* more than one entry; in interrogate any file.                           *)
TooLong(h, m) ==
  \/ pc[h] = "listen" /\ ~ m.isRequest
       /\ (m.op = "receive" \/ Cardinality(m.what) > 1)
  \/ pc[h] = "response" /\ ~ m.isRequest
       /\ job[h].request = ListRequest /\ m.op = "receive"

(* read_packet returns what the other end is writing, or MSG_BAD_LEN.      *)
ReadPacket(h) ==
  /\ Line!Open(Peer(h))
  /\ IF TooLong(h, offer[Peer(h)])
       THEN Line!PassOver(Peer(h), h)
       ELSE Line!Take(Peer(h), h)

(* What the peer's files stand for, in every state of a running command:   *)
(* a conjunct of every step.                                               *)
Watch ==
  seen' = [h \in Hsm |->
             IF pc'[h] \in {"request", "response"}
               THEN AnswersTo(job'[h].request, store'[Peer(h)])
                      \cup (IF pc[h] = "ready" THEN {} ELSE seen[h])
             ELSE seen[h] \cap {answer'[h]}]

(* write_file returns.                                                     *)
Stored(h, s, x) ==
  /\ store' = [store EXCEPT ![h][s] = x]
  /\ UNCHANGED upset

(* A restart cuts write_file: the slot is left as it was, empty, damaged   *)
(* or written, and others may be empty.                                    *)
Cut(h, s, x) ==
  /\ MayRestart
  /\ upset' = {"torn", "restarted"}
  /\ \E lost \in SUBSET Slot, left \in {store[h][s], None, Damaged, x} :
       store' = [store EXCEPT ![h] =
                   [t \in Slot |-> IF t = s THEN left
                                   ELSE IF t \in lost THEN None ELSE @[t]]]

-----------------------------------------------------------------------------
(* write.                                                                  *)

(* create_file leaves its destination alone when the name is empty, and    *)
(* write stores the uninitialized file object it gets.  The object is      *)
(* taken to have a length that fits a slot; FileStore and CommandLoop say  *)
(* what a longer one does.                                                 *)
CreateFile(f) == IF f \in Named THEN {f} ELSE File \cup {Junk}

HostWrite(h, s, f) ==
  /\ pc[h] = "ready"
  /\ ValidatePermission(GlobalPermissions(PermsOf[h]), GroupOf[f], "write")
  /\ \E x \in CreateFile(f) : Stored(h, s, x) \/ Cut(h, s, x)
  /\ UNCHANGED <<pc, job, answer, lineVars>>
  /\ Watch

-----------------------------------------------------------------------------
(* receive and interrogate.                                                *)

(* The request is written to the neighbor.                                 *)
SendRequest(h, request, s) ==
  /\ pc[h] = "ready"
  /\ h \in Requesters
  /\ Line!Offer(h, request)
  /\ pc' = [pc EXCEPT ![h] = "request"]
  /\ job' = [job EXCEPT ![h] = [request |-> request, slot |-> s]]
  /\ answer' = [answer EXCEPT ![h] = None]
  /\ upset' = upset \ {"restarted"}
  /\ UNCHANGED store
  /\ Watch

(* write_packet returns.  Nobody looks at what.                            *)
RequestWritten(h) ==
  /\ pc[h] = "request"
  /\ Line!Confirm(h) \/ Line!Refuse(h)
  /\ pc' = [pc EXCEPT ![h] = "response"]
  /\ UNCHANGED <<store, upset, job, answer>>
  /\ Watch

(* The check of the opcode is all that tells an answer from anything else. *)
Accepts(h, m) == m.op = job[h].request.op

(* What the response buffer holds.  A request in the place of an answer    *)
(* fills the head of a zeroed buffer.                                      *)
ResponseZeroized(m) == Junk    \* Mutant: it is zeroized after the read
Response(m) == IF m.isRequest THEN Junk ELSE m.what

(* read_packet returns, and receive stores what it got.  The length in a   *)
(* damaged file may be erased, and then flash_simple_write faults on its   *)
(* stack, with the pages erased.                                           *)
TakeResponse(h) ==
  /\ pc[h] = "response"
  /\ ReadPacket(h)
  /\ LET m == offer[Peer(h)]
         s == job[h].slot
         Goto(l) == pc' = [pc EXCEPT ![h] = l]
     IN \/ /\ Accepts(h, m) => m.op = "interrogate"
           /\ answer' = IF Accepts(h, m) THEN [answer EXCEPT ![h] = m]
                        ELSE answer                   \* "Opcode mismatch"
           /\ Goto("ready") /\ UNCHANGED <<store, upset>>
        \/ /\ Accepts(h, m) /\ m.op = "receive"
           /\ \/ /\ answer' = [answer EXCEPT ![h] = m]
                 /\ Stored(h, s, Response(m)) /\ Goto("ready")
              \/ /\ Cut(h, s, Response(m)) /\ Goto("ready")
                 /\ UNCHANGED answer
              \/ /\ Response(m) = Damaged
                 /\ Stored(h, s, Damaged) /\ Goto("fault")
                 /\ UNCHANGED answer
  /\ job' = [job EXCEPT ![h] = None]
  /\ Watch

-----------------------------------------------------------------------------
(* listen.                                                                 *)

Listen(h) ==
  /\ pc[h] = "ready"
  /\ pc' = [pc EXCEPT ![h] = "listen"]
  /\ UNCHANGED <<store, upset, job, answer, lineVars>>
  /\ Watch

(* Mutant: listen does not look at what read_file returns.                 *)
TakeRequestUnread(h) ==
  /\ pc[h] = "listen"
  /\ ReadPacket(h)
  /\ ~ TooLong(h, offer[Peer(h)])
  /\ pc' = [pc EXCEPT ![h] = "answer"]
  /\ job' = [job EXCEPT ![h] =
               [request |-> offer[Peer(h)], slot |-> None]]
  /\ UNCHANGED <<store, upset, answer>>
  /\ Watch

(* read_packet returns, and listen acts on the opcode: MSG_BAD_LEN leaves  *)
(* the zeroed buffer, which asks for slot 0.  When the slot cannot be read *)
(* listen fails and the neighbor gets no answer.                           *)
TakeRequest(h) ==
  /\ pc[h] = "listen"
  /\ ReadPacket(h)
  /\ LET m       == offer[Peer(h)]
         request == IF m.op = "interrogate" THEN ListRequest
                    ELSE IF TooLong(h, m) THEN FileRequest(Slot0)
                    ELSE FileRequest(m.what)
     IN /\ IF request # ListRequest /\ store[h][request.what] = None
             THEN pc' = [pc EXCEPT ![h] = "ready"] /\ UNCHANGED job
             ELSE /\ pc' = [pc EXCEPT ![h] = "answer"]
                  /\ job' = [job EXCEPT ![h] =
                               [request |-> request, slot |-> None]]
  /\ UNCHANGED <<store, upset, answer>>
  /\ Watch

(* Mutant: listen sends slot 0 whatever slot was asked for.                *)
SendAnswerSlot0(h) ==
  /\ pc[h] = "answer"
  /\ \E m \in AnswersTo(IF job[h].request = ListRequest THEN ListRequest
                        ELSE FileRequest(Slot0), store[h]) : Line!Offer(h, m)
  /\ pc' = [pc EXCEPT ![h] = "answering"]
  /\ UNCHANGED <<store, upset, job, answer>>
  /\ Watch

(* The file or the list is written to the neighbor.                        *)
SendAnswer(h) ==
  /\ pc[h] = "answer"
  /\ \E m \in AnswersTo(job[h].request, store[h]) : Line!Offer(h, m)
  /\ pc' = [pc EXCEPT ![h] = "answering"]
  /\ UNCHANGED <<store, upset, job, answer>>
  /\ Watch

(* The name in a damaged file may have no end, and copying it faults.      *)
ListFaults(h) ==
  /\ pc[h] = "answer"
  /\ job[h].request = ListRequest /\ \E s \in Slot : store[h][s] = Damaged
  /\ pc' = [pc EXCEPT ![h] = "fault"]
  /\ UNCHANGED <<store, upset, job, answer, lineVars>>
  /\ Watch

(* write_packet returns, and listen reports success whatever it returned.  *)
AnswerWritten(h) ==
  /\ pc[h] = "answering"
  /\ Line!Confirm(h) \/ Line!Refuse(h)
  /\ pc' = [pc EXCEPT ![h] = "ready"]
  /\ job' = [job EXCEPT ![h] = None]
  /\ UNCHANGED <<store, upset, answer>>
  /\ Watch

-----------------------------------------------------------------------------
(* A restart of a device that is not writing to the line (in the middle of *)
(* write_file see Cut).  What its neighbor is writing is lost on it.       *)
Restart(h) ==
  /\ MayRestart
  /\ pc[h] \in {"ready", "response", "listen", "answer", "fault"}
  /\ pc' = [pc EXCEPT ![h] = "ready"]
  /\ job' = [job EXCEPT ![h] = None]
  /\ IF Line!Open(Peer(h)) THEN Line!PassOver(Peer(h), h)
                           ELSE UNCHANGED lineVars
  /\ upset' = upset \cup {"restarted"}
  /\ UNCHANGED <<store, answer>>
  /\ Watch

Init ==
  /\ pc = [h \in Hsm |-> "ready"]
  /\ store = [h \in Hsm |-> [s \in Slot |-> None]]
  /\ job = [h \in Hsm |-> None]
  /\ answer = [h \in Hsm |-> None]
  /\ seen = [h \in Hsm |-> {}]
  /\ upset = {}
  /\ Line!Idle

Step(h) ==
  \/ \E s \in Slot, f \in File : HostWrite(h, s, f)
  \/ \E r, s \in Slot : SendRequest(h, FileRequest(r), s)
  \/ SendRequest(h, ListRequest, None)
  \/ RequestWritten(h) \/ TakeResponse(h)
  \/ Listen(h) \/ TakeRequest(h) \/ SendAnswer(h) \/ ListFaults(h) \/ AnswerWritten(h)
  \/ Restart(h)

Next == \E h \in Hsm : Step(h)

Spec == Init /\ [][Next]_vars

(* A device inside a call goes on.                                         *)
InCall(h) ==
  \/ RequestWritten(h) \/ TakeResponse(h)
  \/ TakeRequest(h) \/ SendAnswer(h) \/ AnswerWritten(h)

FairSpec == Spec /\ \A h \in Hsm : WF_vars(InCall(h))

-----------------------------------------------------------------------------
(* Properties.                                                             *)

Job == [request : Requests, slot : Slot \cup {None}]

TypeOK ==
  /\ pc \in [Hsm -> {"ready", "request", "response",
                     "listen", "answer", "answering", "fault"}]
  /\ store \in [Hsm -> [Slot -> File \cup {Junk, Damaged, None}]]
  /\ upset \subseteq {"torn", "restarted"}
  /\ job \in [Hsm -> Job \cup {None}]
  /\ answer \in [Hsm -> Requests \cup Answers \cup {None}]
  /\ offer \in [Hsm -> Requests \cup Answers \cup {None}]
  /\ state \in [Hsm -> {"open", "taken", "passed", "void"}]
  /\ \A h \in Hsm : offer[h] # None <=> pc[h] \in {"request", "answering"}

(* A receive or interrogate that succeeds is an atomic read of the other   *)
(* device: what it got is what that slot, or the file list, was at some    *)
(* moment between the start and the end of the command ("recieve the       *)
(* response message", commands.c:204).                                     *)
AnswerIsPeers ==
  \A h \in Hsm : answer[h] # None => answer[h] \in seen[h]

(* Every readable slot of either device holds a file that some host wrote  *)
(* in a group its device was built to write, or was damaged by a restart   *)
(* in the middle of a write, on this device or on the one it came from:    *)
(* commands cut short, lost answers and answers that are taken for others  *)
(* never make a device store anything else.                                *)
Readable ==
  (IF "torn" \in upset THEN {Damaged} ELSE {}) \cup
  {f \in Named : \E g \in Hsm : Grants(PermsOf[g], GroupOf[f], "write")}

OnlyHostFiles ==
  \A h \in Hsm, s \in Slot : store[h][s] \in {None} \cup Readable

(* An exchange that no restart upsets ends on both sides: whoever waits    *)
(* for the answer its neighbor is about to send gets it, whatever its      *)
(* length, and the neighbor's write returns; or a damaged file makes one   *)
(* of them fault.                                                          *)
Exchanging(h) ==
  /\ pc[h] = "response" /\ pc[Peer(h)] = "answer"
  /\ job[h].request = job[Peer(h)].request

Upset == "restarted" \in upset \/ \E h \in Hsm : pc[h] = "fault"

ExchangeEnds ==
  \A h \in Requesters, e \in Hsm : Exchanging(h) ~> pc[e] = "ready" \/ Upset

(* What makes them inductive: what each device is doing.                   *)
Asks(h) == pc[h] \in {"request", "response"}
Serves(h) == pc[h] \in {"answer", "answering"}

Roles(h) ==
  /\ Asks(h) => h \in Requesters /\ job[h] \in Job /\ answer[h] = None
  /\ Serves(h) => job[h] \in Job
  /\ pc[h] = "request" => offer[h] = job[h].request
  /\ pc[h] = "answering" => offer[h] \in Answers
  /\ pc[h] = "answer" /\ job[h].request # ListRequest
       => store[h][job[h].request.what] # None

Base == TypeOK /\ \A h \in Hsm : Roles(h)

(* And, if only one host sends requests, that the file in an answer is one *)
(* the sender could store, and that a device whose request has been read   *)
(* is answered in the same command.                                        *)
OneRequester == \A g, h \in Requesters : g = h

AnswerStorable(h) ==
  pc[h] = "answering" /\ offer[h].op = "receive" => offer[h].what \in Readable

Heard(h) == pc[h] = "response" \/ (pc[h] = "request" /\ state[h] = "taken")
Awaited(h) == pc[h] = "answer" \/ (pc[h] = "answering" /\ state[h] = "open")

SameCommand(h) ==
  /\ Heard(h) /\ Awaited(Peer(h)) =>
       /\ job[Peer(h)].request = job[h].request
       /\ pc[Peer(h)] = "answering" => offer[Peer(h)] \in seen[h]
  /\ pc[h] = "request" /\ state[h] \in {"void", "passed"} => ~ Serves(Peer(h))

StoreInv == OnlyHostFiles /\ \A h \in Hsm : AnswerStorable(h)
AnswerInv == AnswerIsPeers /\ \A h \in Hsm : SameCommand(h)

=============================================================================
