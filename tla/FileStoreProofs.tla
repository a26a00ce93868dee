--------------------------- MODULE FileStoreProofs ---------------------------
(***************************************************************************)
(* Proofs about FileStore for any number of slots, pages per slot, files   *)
(* and UUIDs, with or without flash errors.                                *)
(***************************************************************************)
EXTENDS FileStore, TLAPS

-----------------------------------------------------------------------------
(* The flash layout.                                                       *)

(* Multiplication by a natural number is monotone.                         *)
LEMMA Monotone ==
  ASSUME NEW n \in Nat, NEW a \in Nat, NEW b \in Nat, a <= b
  PROVE  n * a <= n * b
<1>1. n * (b - a) >= 0
  BY SMT
<1>2. n * (b - a) = n * b - n * a
  BY SMT
<1>3. n * a \in Int /\ n * b \in Int
  BY SMT
<1> QED
  BY <1>1, <1>2, <1>3, SMT

(* The region of a slot ends before the region of any later slot begins.   *)
LEMMA Apart ==
  ASSUME NEW s \in Slot, NEW t \in Nat, s < t
  PROVE  /\ StartPage(s) \in Nat
         /\ StartPage(t) \in Nat
         /\ StartPage(s) + FilePageCount <= StartPage(t)
<1>1. s \in Nat /\ FilePageCount \in Nat
  BY SizeAssumption, SMT DEF Slot
<1>2. FilePageCount * (s + 1) <= FilePageCount * t
  BY <1>1, Monotone, SMT
<1>3. FilePageCount * (s + 1) = FilePageCount * s + FilePageCount
  BY <1>1, SMT
<1>4. FilePageCount * s \in Nat /\ FilePageCount * t \in Nat
  BY <1>1, SMT
<1> QED
  BY <1>2, <1>3, <1>4, SMT DEF StartPage

(* Every page of a slot's region is a page of the file area.               *)
LEMMA RegionInFlash ==
  ASSUME NEW s \in Slot, NEW i \in Part
  PROVE  /\ StartPage(s) \in Nat
         /\ StartPage(s) + i \in Page
<1>1. MaxFileCount \in Nat /\ s < MaxFileCount /\ FilePageCount \in Nat
      /\ SparePages \in Nat
  BY SizeAssumption, SMT DEF Slot
<1>2. StartPage(s) + FilePageCount <= StartPage(MaxFileCount)
      /\ StartPage(s) \in Nat /\ StartPage(MaxFileCount) \in Nat
  BY <1>1, Apart
<1>3. StartPage(MaxFileCount) = MaxFileCount * FilePageCount
  BY <1>1, SMT DEF StartPage
<1>4. i \in Nat /\ i < FilePageCount
  BY <1>1, SMT DEF Part
<1>5. StartPage(s) + i \in 0 .. StartPage(MaxFileCount) + SparePages - 1
  BY <1>1, <1>2, <1>4, SMT
<1> QED
  BY <1>2, <1>3, <1>5 DEF Page

(* The regions of two slots share no page.                                 *)
LEMMA RegionsDisjoint ==
  ASSUME NEW s \in Slot, NEW t \in Slot, NEW i \in Part, NEW j \in Part,
         StartPage(s) + i = StartPage(t) + j
  PROVE  s = t /\ i = j
<1>1. s \in Int /\ t \in Int /\ s \in Nat /\ t \in Nat
  BY SMT DEF Slot
<1>2. StartPage(s) \in Nat /\ StartPage(t) \in Nat
  BY RegionInFlash
<1>3. i \in 0 .. FilePageCount - 1 /\ j \in 0 .. FilePageCount - 1
      /\ FilePageCount \in Nat
  BY SizeAssumption DEF Part
<1>4. ASSUME s < t PROVE FALSE
  <2>1. StartPage(s) + FilePageCount <= StartPage(t)
    BY <1>1, <1>4, Apart
  <2> QED
    BY <2>1, <1>2, <1>3, SMT
<1>5. ASSUME t < s PROVE FALSE
  <2>1. StartPage(t) + FilePageCount <= StartPage(s)
    BY <1>1, <1>5, Apart
  <2> QED
    BY <2>1, <1>2, <1>3, SMT
<1>6. s = t
  BY <1>1, <1>4, <1>5, SMT
<1> QED
  BY <1>6, <1>2, <1>3, SMT

(* A file that fits has its pages in the region of its slot.               *)
LEMMA PartsOfFile ==
  ASSUME NEW f \in Fits
  PROVE  /\ f \in File
         /\ Pages[f] \in 1 .. FilePageCount
         /\ 0 .. Pages[f] - 1 \subseteq Part
         /\ 0 \in 0 .. Pages[f] - 1
<1>1. /\ f \in File /\ Pages[f] \in Nat \ {0}
      /\ Pages[f] <= FilePageCount /\ FilePageCount \in Nat
  BY SizeAssumption DEF Fits
<1> QED
  BY <1>1, SMT DEF Part

(* A region is no longer than the longest copy.                            *)
LEMMA PartIsPiece == Part \subseteq Piece
BY SizeAssumption, SMT DEF Part, Piece

(* The entry write_file records is an entry of the FAT.                    *)
LEMMA EntryForType ==
  ASSUME NEW s \in Slot, NEW f \in File, NEW u \in Uuid
  PROVE  EntryFor(s, f, u) \in Entry
<1>1. Pages[f] \in Nat \ {0}
  BY SizeAssumption
<1>2. 0 \in Part
  BY SizeAssumption, SMT DEF Part
<1>3. StartPage(s) \in Page
  <2>1. StartPage(s) \in Nat /\ StartPage(s) + 0 \in Page
    BY <1>2, RegionInFlash
  <2> QED
    BY <2>1, SMT
<1> QED
  BY <1>1, <1>3 DEF EntryFor, Entry

(* What the running write knows about its own slot, and how far it can     *)
(* reach.                                                                  *)
LEMMA JobFacts ==
  ASSUME TypeOK, job # None
  PROVE  /\ job.slot \in Slot /\ job.file \in File /\ job.uuid \in Uuid
         /\ Pages[job.file] \in Nat \ {0}
         /\ job.slot \notin Reached
         /\ job.file \in Fits => Reached = {}
<1>1. job.slot \in Slot /\ job.file \in File /\ job.uuid \in Uuid
  BY DEF TypeOK, Job
<1>2. Pages[job.file] \in Nat \ {0} /\ FilePageCount \in Nat
  BY <1>1, SizeAssumption
<1>3. \A t \in Slot : t \in Nat
  BY SMT DEF Slot
<1>4. job.slot \notin Reached
  BY <1>1, <1>3, SMT DEF Reached
<1>5. ASSUME job.file \in Fits, NEW t \in Reached
      PROVE  FALSE
  <2>1. t \in Slot /\ t > job.slot
        /\ StartPage(t) < StartPage(job.slot) + Pages[job.file]
    BY <1>5 DEF Reached
  <2>2. StartPage(job.slot) + FilePageCount <= StartPage(t)
        /\ StartPage(job.slot) \in Nat /\ StartPage(t) \in Nat
    BY <1>1, <1>3, <2>1, Apart
  <2>3. Pages[job.file] <= FilePageCount
    BY <1>5 DEF Fits
  <2> QED
    BY <1>2, <2>1, <2>2, <2>3, SMT
<1> QED
  BY <1>1, <1>2, <1>4, <1>5

-----------------------------------------------------------------------------
(* Programming.                                                            *)

(* A FAT page, fully or partly programmed, is a FAT page.                  *)
LEMMA FatProgrammedType ==
  ASSUME TypeOK, NEW k \in Int
  PROVE  FatProgrammed(k) \in [Slot -> Entry \cup {NoEntry, BadEntry}]
<1>1. \A s \in Slot : ProgramEntry(fatFlash[s], fat[s]) \in
                          Entry \cup {NoEntry, BadEntry}
  BY DEF TypeOK, ProgramEntry
<1> QED
  BY <1>1 DEF TypeOK, FatProgrammed

(* A program command for the running write, cut, failed or complete.       *)
Programming ==
  \E k \in 0 .. Pages[job.file], torn \in BOOLEAN :
    (torn => k < Pages[job.file]) /\ Programs(k, torn)

LEMMA ProgramsPartIs ==
  ASSUME TypeOK, job # None, ProgramsPart
  PROVE  Programming
<1>1. \A k \in 0 .. Pages[job.file] - 1 :
         k \in 0 .. Pages[job.file] /\ k < Pages[job.file]
  BY JobFacts, SMT
<1> QED
  BY <1>1 DEF ProgramsPart, Programming

LEMMA ProgramFileIs ==
  ASSUME TypeOK, ProgramFile
  PROVE  job # None /\ Programming
<1>1. job # None
  BY DEF ProgramFile, TypeOK
<1>2. Pages[job.file] \in 0 .. Pages[job.file]
  BY <1>1, JobFacts, SMT
<1>3. CASE Programs(Pages[job.file], FALSE)
  BY <1>1, <1>2, <1>3 DEF Programming
<1>4. CASE ProgramsPart
  BY <1>1, <1>4, ProgramsPartIs
<1> QED
  BY <1>1, <1>3, <1>4 DEF ProgramFile

LEMMA ResetIs ==
  ASSUME TypeOK, Reset
  PROVE  \/ UNCHANGED <<flash, overrun>>
         \/ /\ pc = "programFile" /\ job # None
            /\ Programming /\ UNCHANGED fatFlash
<1>1. ASSUME pc = "programFile", ProgramsPart
      PROVE  job # None /\ Programming
  <2>1. job # None
    BY <1>1 DEF TypeOK
  <2> QED
    BY <1>1, <2>1, ProgramsPartIs
<1> QED
  BY <1>1 DEF Reset

(* A programmed page is left alone or programmed with a part of the        *)
(* object.                                                                 *)
LEMMA FileProgrammedCell ==
  ASSUME TypeOK, job # None, Pages[job.file] <= MaxCopy,
         NEW k \in 0 .. Pages[job.file], NEW torn \in BOOLEAN,
         torn => k < Pages[job.file],
         NEW p \in Page
  PROVE  \/ FileProgrammed(k, torn)[p] = flash[p]
         \/ \E c \in Content :
              /\ c.slot = job.slot
              /\ FileProgrammed(k, torn)[p] = ProgramCell(flash[p], c)
<1> DEFINE start == fat[job.slot].addr
           cell(i, w) ==
             [slot |-> job.slot, file |-> job.file, part |-> i, whole |-> w]
<1>1. /\ job.slot \in Slot /\ job.file \in File
      /\ Pages[job.file] \in Nat /\ MaxCopy \in Nat
  BY JobFacts, SizeAssumption, SMT
<1>2. 0 .. k - 1 \subseteq Piece /\ (torn => k \in Piece)
  BY <1>1, SMT DEF Piece
<1>3. \A i \in Piece, w \in BOOLEAN :
         cell(i, w) \in Content /\ cell(i, w).slot = job.slot
  BY <1>1 DEF Content
<1> HIDE DEF cell, start
<1>4. CASE p - start \in 0 .. k - 1
  <2>1. FileProgrammed(k, torn)[p] = ProgramCell(flash[p], cell(p - start, TRUE))
    BY <1>4 DEF FileProgrammed, cell, start
  <2> QED
    BY <1>2, <1>3, <1>4, <2>1
<1>5. CASE ~ (p - start \in 0 .. k - 1) /\ torn /\ p - start = k
  <2>1. FileProgrammed(k, torn)[p] = ProgramCell(flash[p], cell(k, FALSE))
    BY <1>5 DEF FileProgrammed, cell, start
  <2> QED
    BY <1>2, <1>3, <1>5, <2>1
<1>6. CASE /\ ~ (p - start \in 0 .. k - 1)
           /\ ~ (torn /\ p - start = k)
  BY <1>6 DEF FileProgrammed, start
<1> QED
  BY <1>4, <1>5, <1>6

(* What programming a file does to the page at offset i of slot s: nothing *)
(* in a region it does not reach, and the i-th part in its own.            *)
LEMMA FileProgrammedAt ==
  ASSUME TypeOK, JobOpen, job # None,
         NEW k \in 0 .. Pages[job.file], NEW torn \in BOOLEAN,
         torn => k < Pages[job.file],
         NEW s \in Slot, NEW i \in Part
  PROVE  /\ s # job.slot /\ s \notin Reached =>
              FileProgrammed(k, torn)[StartPage(s) + i] =
                flash[StartPage(s) + i]
         /\ s = job.slot /\ i < k =>
              FileProgrammed(k, torn)[StartPage(s) + i] =
                ProgramCell(flash[StartPage(s) + i],
                            [slot |-> job.slot, file |-> job.file,
                             part |-> i, whole |-> TRUE])
<1> DEFINE p == StartPage(s) + i
           start == StartPage(job.slot)
<1>1. /\ job.slot \in Slot /\ Pages[job.file] \in Nat
      /\ s \in Nat /\ job.slot \in Nat
  BY JobFacts, SMT DEF Slot
<1>2. fat[job.slot].addr = start
  BY DEF JobOpen, EntryFor
<1>3. 0 \in Part
  BY SizeAssumption, SMT DEF Part
<1>4. /\ StartPage(s) \in Nat /\ start \in Nat
      /\ p \in Page
  BY <1>1, <1>3, RegionInFlash
<1>5. i \in Nat /\ i < FilePageCount /\ FilePageCount \in Nat
  BY SizeAssumption, SMT DEF Part
<1>6. CASE s # job.slot /\ s \notin Reached
  <2>1. p - start < 0 \/ p - start >= Pages[job.file]
    <3>1. CASE s < job.slot
      <4>1. StartPage(s) + FilePageCount <= start
        BY <1>1, <3>1, Apart
      <4> QED
        BY <1>4, <1>5, <4>1, SMT
    <3>2. CASE s > job.slot
      <4>1. ~ (StartPage(s) < start + Pages[job.file])
        BY <1>6, <3>2 DEF Reached
      <4> QED
        BY <1>1, <1>4, <1>5, <4>1, SMT
    <3> QED
      BY <1>1, <1>6, <3>1, <3>2, SMT
  <2>2. p - start \in Int
    BY <1>4, <1>5, SMT
  <2>3. p - start \notin 0 .. k - 1 /\ ~ (torn /\ p - start = k)
    <3> HIDE DEF p, start
    <3> QED
      BY <1>1, <2>1, <2>2, SMT
  <2> QED
    BY <1>2, <1>4, <1>6, <2>3 DEF FileProgrammed
<1>7. CASE s = job.slot /\ i < k
  <2>1. p - start = i
    BY <1>4, <1>5, <1>7, SMT
  <2>2. i \in 0 .. k - 1
    BY <1>1, <1>5, <1>7, SMT
  <2> QED
    BY <1>2, <1>4, <1>7, <2>1, <2>2 DEF FileProgrammed
<1> QED
  BY <1>6, <1>7

(* A program command for the running write leaves a well formed flash;     *)
(* each page of another slot keeps what it held if the slot is not         *)
(* reached, and otherwise what it held or a cell programmed over it.       *)
LEMMA ProgrammingCells ==
  ASSUME TypeOK, job # None, Programming
  PROVE  /\ flash' \in [Page -> Content \cup {Erased, Garbage}]
         /\ overrun' = overrun \cup Reached
         /\ \A p \in Page :
              \/ flash'[p] = flash[p]
              \/ \E c \in Content : /\ c.slot = job.slot
                                   /\ flash'[p] = ProgramCell(flash[p], c)
<1>1. PICK k \in 0 .. Pages[job.file], torn \in BOOLEAN :
        (torn => k < Pages[job.file]) /\ Programs(k, torn)
  BY DEF Programming
<1>2. Pages[job.file] <= MaxCopy /\ flash' = FileProgrammed(k, torn)
      /\ overrun' = overrun \cup Reached
  BY <1>1 DEF Programs
<1>3. \A p \in Page :
        \/ flash'[p] = flash[p]
        \/ \E c \in Content : /\ c.slot = job.slot
                             /\ flash'[p] = ProgramCell(flash[p], c)
  BY <1>1, <1>2, FileProgrammedCell
<1>4. \A old \in Content \cup {Erased, Garbage}, c \in Content :
         ProgramCell(old, c) \in Content \cup {Erased, Garbage}
  BY DEF ProgramCell
<1>5. \A p \in Page : flash'[p] \in Content \cup {Erased, Garbage}
  BY <1>3, <1>4 DEF TypeOK
<1>6. flash' = [p \in Page |-> flash'[p]]
  BY <1>2 DEF FileProgrammed
<1>7. flash' \in [Page -> Content \cup {Erased, Garbage}]
  BY <1>5, <1>6
<1> QED
  BY <1>2, <1>3, <1>7

LEMMA ProgrammingElsewhere ==
  ASSUME TypeOK, JobOpen, job # None, Programming,
         NEW s \in Slot, s # job.slot, s \notin Reached, NEW i \in Part
  PROVE  flash'[StartPage(s) + i] = flash[StartPage(s) + i]
<1>1. PICK k \in 0 .. Pages[job.file], torn \in BOOLEAN :
        (torn => k < Pages[job.file]) /\ Programs(k, torn)
  BY DEF Programming
<1>2. flash' = FileProgrammed(k, torn)
  BY <1>1 DEF Programs
<1>3. FileProgrammed(k, torn)[StartPage(s) + i] = flash[StartPage(s) + i]
  BY <1>1, FileProgrammedAt
<1> QED
  BY <1>2, <1>3

-----------------------------------------------------------------------------
(* Type correctness.                                                       *)

LEMMA InitType == Init => TypeOK
<1>1. 0 \in Part
  BY SizeAssumption, SMT DEF Part
<1> QED
  BY <1>1 DEF Init, TypeOK

(* What a caller reads by an entry is a stored file, nothing, or damaged.  *)
LEMMA ViewByTyped ==
  ASSUME NEW s \in Slot, NEW e \in Entry \cup {NoEntry, BadEntry}
  PROVE  ViewBy(e, s) \in Stored \cup {None, Garbage}
<1>1. ASSUME NEW f \in Fits, HoldsBy(e, s, f)
      PROVE  /\ (CHOOSE g \in Fits : HoldsBy(e, s, g)) \in Fits
             /\ e.uuid \in Uuid
  BY <1>1 DEF HoldsBy, Entry
<1> QED
  BY <1>1 DEF ViewBy, Stored

LEMMA ViewTyped ==
  ASSUME TypeOK, NEW s \in Slot
  PROVE  View(s) \in Stored \cup {None, Garbage}
BY ViewByTyped DEF View, TypeOK

LEMMA NextType == TypeOK /\ [Next]_vars => TypeOK'
<1> SUFFICES ASSUME TypeOK, [Next]_vars
             PROVE  TypeOK'
  OBVIOUS
<1>1. ASSUME NEW s \in Slot, NEW f \in File, NEW u \in Uuid,
             WriteFile(s, f, u)
      PROVE  TypeOK'
  <2>1. EntryFor(s, f, u) \in Entry
    BY EntryForType
  <2>2. job' \in Job /\ job' # None
    BY <1>1, ValueAssumption DEF WriteFile, Job
  <2>3. before' \in Stored \cup {None, Garbage}
    BY <1>1, ViewTyped DEF WriteFile
  <2> QED
    BY <1>1, <2>1, <2>2, <2>3 DEF WriteFile, TypeOK
<1>2. CASE EraseFat
  <2>1. job \in Job
    BY <1>2 DEF EraseFat, TypeOK
  <2>2. job.slot \in Slot
    BY <2>1 DEF Job
  <2>3. faulted' \in SUBSET Slot
    BY <1>2, <2>2 DEF EraseFat, TypeOK, CommandFails
  <2> QED
    BY <1>2, <2>3 DEF EraseFat, TypeOK
<1>3. CASE ProgramFat
  <2>1. job.slot \in Slot
    BY <1>3 DEF ProgramFat, TypeOK, Job
  <2>2. faulted' \in SUBSET Slot
    BY <1>3, <2>1 DEF ProgramFat, TypeOK, CommandFails
  <2>3. MaxFileCount \in Int /\ \A k \in Slot : k \in Int
    BY SizeAssumption, SMT DEF Slot
  <2>4. fatFlash' \in [Slot -> Entry \cup {NoEntry, BadEntry}]
    BY <1>3, <2>3, FatProgrammedType DEF ProgramFat
  <2> QED
    BY <1>3, <2>2, <2>4 DEF ProgramFat, TypeOK
<1>4. CASE ErasePage
  <2>1. job.slot \in Slot
    BY <1>4 DEF ErasePage, TypeOK, Job
  <2>2. faulted' \in SUBSET Slot
    BY <1>4, <2>1 DEF ErasePage, TypeOK, CommandFails
  <2>3. flash' \in [Page -> Content \cup {Erased, Garbage}]
    BY <1>4 DEF ErasePage, TypeOK
  <2>4. idx' \in Part /\ pc' \in {"erasePages", "programFile"}
    <3>1. idx \in Part /\ 0 \in Part
      BY SizeAssumption, SMT DEF TypeOK, Part
    <3>2. idx + 1 < FilePageCount => idx + 1 \in Part
      BY <3>1, SizeAssumption, SMT DEF Part
    <3> QED
      BY <1>4, <3>1, <3>2 DEF ErasePage
  <2>5. UNCHANGED <<fat, fatFlash, job, acked, overrun, before, fatCut>>
        /\ job # None
    BY <1>4 DEF ErasePage, TypeOK
  <2> QED
    BY <2>2, <2>3, <2>4, <2>5 DEF TypeOK
<1>5. CASE ProgramFile
  <2>1. job # None /\ Programming
    BY <1>5, ProgramFileIs
  <2>2. job.slot \in Slot /\ job.file \in File /\ job.uuid \in Uuid
    BY <2>1, JobFacts
  <2>3. flash' \in [Page -> Content \cup {Erased, Garbage}]
        /\ overrun' = overrun \cup Reached
    BY <2>1, ProgrammingCells
  <2>4. faulted' \in SUBSET Slot /\ overrun' \in SUBSET Slot
    BY <1>5, <2>2, <2>3 DEF ProgramFile, TypeOK, CommandFails, Reached
  <2>5. acked' \in [Slot -> Stored \cup {None}]
    <3>1. job.file \in Fits => [file |-> job.file, uuid |-> job.uuid] \in Stored
      BY <2>2 DEF Stored
    <3> QED
      BY <1>5, <3>1 DEF ProgramFile, TypeOK
  <2> QED
    BY <1>5, <2>3, <2>4, <2>5 DEF ProgramFile, TypeOK
<1>8. CASE StackFault
  BY <1>8 DEF StackFault, storeVars, TypeOK
<1>6. CASE Reset
  <2>1. fatFlash' \in [Slot -> Entry \cup {NoEntry, BadEntry}]
    <3>1. \A k \in Slot : k \in Int
      BY SMT DEF Slot
    <3> QED
      BY <1>6, <3>1, FatProgrammedType DEF Reset, TypeOK
  <2>2. flash' \in [Page -> Content \cup {Erased, Garbage}]
        /\ overrun' \in SUBSET Slot
    BY <1>6, ResetIs, ProgrammingCells DEF TypeOK, Reached
  <2>3. 0 \in Part
    BY SizeAssumption, SMT DEF Part
  <2>4. fatCut' \in BOOLEAN
    BY <1>6 DEF Reset, TypeOK
  <2> QED
    BY <1>6, <2>1, <2>2, <2>3, <2>4 DEF Reset, TypeOK
<1>7. CASE UNCHANGED vars
  BY <1>7 DEF TypeOK, vars, storeVars, histVars
<1> QED
  BY <1>1, <1>2, <1>3, <1>4, <1>5, <1>6, <1>7, <1>8 DEF Next, WriteStep

(* Every variable keeps its type, whatever fails and wherever a reset      *)
(* hits: in particular every FAT address stays on a page of the file area. *)
THEOREM TypeCorrect == Spec => []TypeOK
<1> QED
  BY InitType, NextType, PTL DEF Spec

-----------------------------------------------------------------------------
(* The inductive invariant.                                                *)

(* A FAT page programmed in full or in part holds each sound slot's entry  *)
(* or none.                                                                *)
LEMMA FatProgrammedSound ==
  ASSUME SoundKept, NEW k \in Int, NEW s \in Slot, Sound(s)
  PROVE  FatProgrammed(k)[s] \in {NoEntry, AckedEntry(s)}
<1>1. /\ fat[s] \in {NoEntry, AckedEntry(s)}
      /\ fatFlash[s] \in {NoEntry, AckedEntry(s)}
  BY DEF SoundKept
<1>2. ProgramEntry(fatFlash[s], fat[s]) \in {NoEntry, AckedEntry(s)}
  BY <1>1 DEF ProgramEntry
<1> QED
  BY <1>1, <1>2 DEF FatProgrammed

(* What is stored in a sound slot survives programming another slot that   *)
(* does not run into it.                                                   *)
LEMMA SoundElsewhere ==
  ASSUME TypeOK, SoundKept, JobOpen, job # None, Programming,
         NEW s \in Slot, s # job.slot, s \notin Reached, Sound(s),
         NEW i \in 0 .. Pages[acked[s].file] - 1
  PROVE  flash'[StartPage(s) + i] =
           [slot |-> s, file |-> acked[s].file, part |-> i, whole |-> TRUE]
<1>1. acked[s].file \in Fits
  BY DEF TypeOK, Stored, Sound
<1>2. i \in Part
  BY <1>1, PartsOfFile
<1>3. flash'[StartPage(s) + i] = flash[StartPage(s) + i]
  BY <1>2, ProgrammingElsewhere
<1> QED
  BY <1>3 DEF SoundKept

LEMMA InitInv == Init => IInv
<1> SUFFICES ASSUME Init PROVE IInv
  OBVIOUS
<1>1. TypeOK
  BY InitType
<1>2. SoundKept /\ JobOpen /\ LoopClosed /\ CleanJob
  BY DEF Init, SoundKept, JobOpen, LoopClosed, CleanJob, Sound
<1>3. NoErrors
  BY DEF Init, NoErrors, AckedEntry
<1>4. EntriesInPlace
  BY ValueAssumption DEF Init, EntriesInPlace
<1> QED
  BY <1>1, <1>2, <1>3, <1>4 DEF IInv

(* Each step preserves the part of the invariant about stored files.       *)
LEMMA NextSoundKept == IInv /\ [Next]_vars => SoundKept'
<1> SUFFICES ASSUME IInv, [Next]_vars,
                    NEW s \in Slot, Sound(s)'
             PROVE  /\ fat'[s] \in {NoEntry, AckedEntry(s)'}
                    /\ fatFlash'[s] \in {NoEntry, AckedEntry(s)'}
                    /\ \A i \in 0 .. Pages[acked'[s].file] - 1 :
                         flash'[StartPage(s) + i] =
                           [slot |-> s, file |-> acked'[s].file,
                            part |-> i, whole |-> TRUE]
  BY DEF SoundKept
<1> USE DEF IInv
<1>1. ASSUME NEW t \in Slot, NEW f \in File, NEW u \in Uuid,
             WriteFile(t, f, u)
      PROVE  /\ fat'[s] \in {NoEntry, AckedEntry(s)'}
             /\ fatFlash'[s] \in {NoEntry, AckedEntry(s)'}
             /\ \A i \in 0 .. Pages[acked'[s].file] - 1 :
                  flash'[StartPage(s) + i] =
                    [slot |-> s, file |-> acked'[s].file,
                     part |-> i, whole |-> TRUE]
  <2>1. s # t
    BY <1>1 DEF WriteFile, Sound, TypeOK
  <2>2. Sound(s) /\ acked'[s] = acked[s] /\ fat'[s] = fat[s]
    BY <1>1, <2>1 DEF WriteFile, Sound, TypeOK
  <2> QED
    BY <1>1, <2>2 DEF WriteFile, SoundKept, AckedEntry
<1>2. CASE EraseFat
  <2>1. Sound(s) /\ acked' = acked
    BY <1>2 DEF EraseFat, CommandFails, Sound
  <2> QED
    BY <1>2, <2>1 DEF EraseFat, SoundKept, AckedEntry
<1>3. CASE ProgramFat
  <2>1. Sound(s) /\ acked' = acked
    BY <1>3 DEF ProgramFat, CommandFails, Sound
  <2>2. MaxFileCount \in Int /\ \A k \in Slot : k \in Int
    BY SizeAssumption, SMT DEF Slot
  <2>3. fatFlash'[s] \in {NoEntry, AckedEntry(s)}
    BY <1>3, <2>1, <2>2, FatProgrammedSound DEF ProgramFat
  <2> QED
    BY <1>3, <2>1, <2>3 DEF ProgramFat, SoundKept, AckedEntry
<1>4. CASE ErasePage
  <2>1. Sound(s) /\ acked' = acked /\ job # None
    BY <1>4 DEF ErasePage, CommandFails, Sound, TypeOK
  <2>2. s # job.slot
    BY <2>1 DEF JobOpen, Sound
  <2>3. ASSUME NEW i \in 0 .. Pages[acked[s].file] - 1
        PROVE  flash'[StartPage(s) + i] = flash[StartPage(s) + i]
    <3>1. acked[s].file \in Fits
      BY <2>1 DEF TypeOK, Stored, Sound
    <3>2. i \in Part /\ idx \in Part /\ job.slot \in Slot
      BY <3>1, <2>1, PartsOfFile, JobFacts DEF TypeOK
    <3>3. StartPage(s) + i # StartPage(job.slot) + idx
      BY <3>2, <2>2, RegionsDisjoint
    <3>4. StartPage(s) + i \in Page
      BY <3>2, RegionInFlash
    <3> QED
      BY <1>4, <3>3, <3>4 DEF ErasePage, TypeOK
  <2> QED
    BY <1>4, <2>1, <2>3 DEF ErasePage, SoundKept, AckedEntry
<1>5. CASE ProgramFile
  <2>1. job # None /\ Programming /\ UNCHANGED <<fat, fatFlash>>
    BY <1>5, ProgramFileIs DEF ProgramFile
  <2>2. s \notin overrun /\ s \notin Reached
    BY <2>1, ProgrammingCells DEF Sound
  <2>3. s \notin faulted /\ s \notin faulted'
    BY <1>5 DEF ProgramFile, CommandFails, Sound
  <2>4. CASE s # job.slot
    <3>1. Sound(s) /\ acked'[s] = acked[s]
      BY <1>5, <2>2, <2>3, <2>4 DEF ProgramFile, Sound, TypeOK
    <3>2. \A i \in 0 .. Pages[acked[s].file] - 1 :
             flash'[StartPage(s) + i] =
               [slot |-> s, file |-> acked[s].file, part |-> i, whole |-> TRUE]
      BY <2>1, <2>2, <2>4, <3>1, SoundElsewhere
    <3> QED
      BY <2>1, <3>1, <3>2 DEF SoundKept, AckedEntry
  <2>5. CASE s = job.slot
    <3>1. acked[s] = None /\ acked'[s] # None
      BY <2>1, <2>5 DEF JobOpen, Sound
    <3>2. /\ Programs(Pages[job.file], FALSE)
          /\ job.file \in Fits
          /\ acked' = [acked EXCEPT ![s] =
                         [file |-> job.file, uuid |-> job.uuid]]
      BY <1>5, <2>5, <3>1 DEF ProgramFile
    <3>3. acked'[s] = [file |-> job.file, uuid |-> job.uuid]
      BY <3>2 DEF TypeOK
    <3>4. AckedEntry(s)' = EntryFor(s, job.file, job.uuid)
      BY <3>3 DEF AckedEntry, EntryFor
    <3>5. fat[s] = EntryFor(s, job.file, job.uuid) /\ fatFlash = fat
      BY <1>5, <2>1, <2>3, <2>5 DEF ProgramFile, JobOpen, CleanJob
    <3>6. ASSUME NEW i \in 0 .. Pages[job.file] - 1
          PROVE  flash'[StartPage(s) + i] =
                   [slot |-> s, file |-> job.file, part |-> i, whole |-> TRUE]
      <4>1. i \in Part /\ i < Pages[job.file]
            /\ Pages[job.file] \in 0 .. Pages[job.file]
        <5>1. i \in Part /\ Pages[job.file] \in Nat
          BY <3>2, PartsOfFile, SMT
        <5> QED
          BY <5>1, SMT
      <4>2. flash[StartPage(s) + i] = Erased
        BY <1>5, <2>1, <2>3, <2>5, <4>1 DEF ProgramFile, CleanJob
      <4>3. flash' = FileProgrammed(Pages[job.file], FALSE)
        BY <3>2 DEF Programs
      <4>4. FileProgrammed(Pages[job.file], FALSE)[StartPage(s) + i] =
              ProgramCell(flash[StartPage(s) + i],
                          [slot |-> job.slot, file |-> job.file,
                           part |-> i, whole |-> TRUE])
        BY <2>1, <2>5, <4>1, FileProgrammedAt
      <4> QED
        BY <2>5, <4>2, <4>3, <4>4 DEF ProgramCell
    <3> QED
      BY <2>1, <3>3, <3>4, <3>5, <3>6
  <2> QED
    BY <2>4, <2>5
<1>6. CASE Reset
  <2>1. s \notin faulted /\ acked' = acked
    BY <1>6 DEF Reset, Sound
  <2>2. Sound(s)
    BY <1>6, <2>1, ResetIs, ProgrammingCells DEF Sound
  <2>3. fatFlash'[s] \in {NoEntry, AckedEntry(s)}
    <3>1. \A k \in Slot : k \in Int
      BY SMT DEF Slot
    <3> QED
      BY <1>6, <2>2, <3>1, FatProgrammedSound DEF Reset, SoundKept
  <2>4. ASSUME NEW i \in 0 .. Pages[acked[s].file] - 1
        PROVE  flash'[StartPage(s) + i] =
                 [slot |-> s, file |-> acked[s].file,
                  part |-> i, whole |-> TRUE]
    <3>1. CASE UNCHANGED <<flash, overrun>>
      BY <2>2, <3>1 DEF SoundKept
    <3>2. CASE job # None /\ Programming
      <4>1. s # job.slot
        BY <2>2, <3>2 DEF JobOpen, Sound
      <4>2. s \notin Reached
        BY <3>2, ProgrammingCells DEF Sound
      <4> QED
        BY <2>2, <3>2, <4>1, <4>2, SoundElsewhere
    <3> QED
      BY <1>6, <3>1, <3>2, ResetIs
  <2> QED
    BY <1>6, <2>1, <2>3, <2>4 DEF Reset, AckedEntry
<1>7. CASE UNCHANGED vars
  BY <1>7 DEF vars, storeVars, histVars, SoundKept, Sound, AckedEntry
<1>8. CASE StackFault
  BY <1>8 DEF StackFault, storeVars, SoundKept, Sound, AckedEntry
<1> QED
  BY <1>1, <1>2, <1>3, <1>4, <1>5, <1>6, <1>7, <1>8 DEF Next, WriteStep

(* No step records an entry that points outside its slot's region.         *)
LEMMA NextEntriesInPlace == IInv /\ [Next]_vars => EntriesInPlace'
<1> SUFFICES ASSUME IInv, [Next]_vars
             PROVE  EntriesInPlace'
  OBVIOUS
<1> USE ValueAssumption DEF IInv
<1>1. ASSUME NEW t \in Slot, NEW f \in File, NEW u \in Uuid,
             WriteFile(t, f, u)
      PROVE  EntriesInPlace'
  BY <1>1 DEF WriteFile, EntriesInPlace, StartPage, EntryFor, TypeOK
<1>2. CASE EraseFat
  BY <1>2 DEF EraseFat, EntriesInPlace, StartPage
<1>3. ASSUME NEW k \in Int, NEW s \in Slot, FatProgrammed(k)[s] \in Entry
      PROVE  FatProgrammed(k)[s].addr = StartPage(s)
  <2>1. FatProgrammed(k)[s] \in {fat[s], fatFlash[s]}
    BY <1>3 DEF FatProgrammed, ProgramEntry
  <2> QED
    BY <1>3, <2>1 DEF EntriesInPlace
<1>4. MaxFileCount \in Int /\ \A k \in Slot : k \in Int
  BY SizeAssumption, SMT DEF Slot
<1>5. CASE ProgramFat
  <2>1. PICK k \in Int : fatFlash' = FatProgrammed(k) /\ fat' = fat
    BY <1>4, <1>5 DEF ProgramFat
  <2>2. \A s \in Slot : fatFlash'[s] \in Entry =>
                          fatFlash'[s].addr = StartPage(s)
    BY <1>3, <2>1
  <2> QED
    BY <2>1, <2>2 DEF EntriesInPlace, StartPage
<1>6. CASE ErasePage
  BY <1>6 DEF ErasePage, EntriesInPlace, StartPage
<1>7. CASE ProgramFile
  BY <1>7 DEF ProgramFile, EntriesInPlace, StartPage
<1>8. CASE Reset
  <2>1. \A s \in Slot : fatFlash'[s] \in Entry =>
                          fatFlash'[s].addr = StartPage(s)
    <3>1. CASE fatFlash' = fatFlash
      BY <3>1 DEF EntriesInPlace
    <3>2. CASE \E k \in Int : fatFlash' = FatProgrammed(k)
      BY <1>3, <3>2
    <3> QED
      BY <1>4, <1>8, <3>1, <3>2 DEF Reset
  <2> QED
    BY <1>8, <2>1 DEF Reset, EntriesInPlace, StartPage
<1>9. CASE StackFault \/ UNCHANGED vars
  BY <1>9 DEF StackFault, vars, storeVars, EntriesInPlace, StartPage
<1> QED
  BY <1>1, <1>2, <1>5, <1>6, <1>7, <1>8, <1>9 DEF Next, WriteStep

(* Each step preserves what the running write knows of its slot.           *)
LEMMA NextJob == IInv /\ [Next]_vars => JobOpen' /\ LoopClosed'
<1> SUFFICES ASSUME IInv, [Next]_vars
             PROVE  JobOpen' /\ LoopClosed'
  OBVIOUS
<1> USE DEF IInv, JobOpen, LoopClosed
<1>1. ASSUME NEW t \in Slot, NEW f \in File, NEW u \in Uuid,
             WriteFile(t, f, u)
      PROVE  JobOpen' /\ LoopClosed'
  BY <1>1 DEF WriteFile, TypeOK, EntryFor
<1>2. CASE EraseFat
  BY <1>2 DEF EraseFat, TypeOK, EntryFor
<1>3. CASE ProgramFat
  BY <1>3 DEF ProgramFat, TypeOK, EntryFor
<1>4. CASE ErasePage
  BY <1>4 DEF ErasePage, TypeOK, EntryFor
<1>5. CASE ProgramFile
  BY <1>5 DEF ProgramFile, TypeOK
<1>6. CASE Reset
  BY <1>6 DEF Reset
<1>7. CASE UNCHANGED vars
  BY <1>7 DEF vars, storeVars, histVars, EntryFor
<1>8. CASE StackFault
  BY <1>8 DEF StackFault
<1> QED
  BY <1>1, <1>2, <1>3, <1>4, <1>5, <1>6, <1>7, <1>8 DEF Next, WriteStep

(* Each step of a write with no failed command leaves the flash ready for  *)
(* the next one.                                                           *)
LEMMA NextCleanJob == IInv /\ [Next]_vars => CleanJob'
<1> SUFFICES ASSUME IInv, [Next]_vars, job' # None, job'.slot \notin faulted'
             PROVE  /\ pc' = "programFat" =>
                         \A t \in Slot : fatFlash'[t] = NoEntry
                    /\ pc' \in {"erasePages", "programFile"} => fatFlash' = fat'
                    /\ pc' = "erasePages" => \A i \in 0 .. idx' - 1 :
                         flash'[StartPage(job'.slot) + i] = Erased
                    /\ pc' = "programFile" => \A i \in Part :
                         flash'[StartPage(job'.slot) + i] = Erased
  BY DEF CleanJob, StartPage
<1> USE DEF IInv
<1>1. ASSUME NEW t \in Slot, NEW f \in File, NEW u \in Uuid,
             WriteFile(t, f, u)
      PROVE  pc' = "eraseFat"
  BY <1>1 DEF WriteFile
<1>2. CASE EraseFat
  BY <1>2 DEF EraseFat, CommandFails
<1>3. CASE ProgramFat
  <2>1. fatFlash' = FatProgrammed(MaxFileCount) /\ job.slot \notin faulted
        /\ job # None
    BY <1>3 DEF ProgramFat, CommandFails
  <2>2. \A t \in Slot : fatFlash[t] = NoEntry
    BY <1>3, <2>1 DEF ProgramFat, CleanJob
  <2>3. \A t \in Slot : t < MaxFileCount
    BY SizeAssumption, SMT DEF Slot
  <2>4. fatFlash' = fat
    BY <2>1, <2>2, <2>3 DEF FatProgrammed, ProgramEntry, TypeOK
  <2>5. idx' = 0
    BY <1>3 DEF ProgramFat, LoopClosed
  <2> QED
    BY <1>3, <2>4, <2>5, SMT DEF ProgramFat
<1>4. CASE ErasePage
  <2>1. /\ flash' = [flash EXCEPT ![StartPage(job.slot) + idx] = Erased]
        /\ job.slot \notin faulted /\ job # None /\ job' = job
    BY <1>4 DEF ErasePage, CommandFails
  <2>2. \A i \in 0 .. idx - 1 : flash[StartPage(job.slot) + i] = Erased
    BY <1>4, <2>1 DEF ErasePage, CleanJob
  <2>3. /\ idx \in Part
        /\ 0 .. idx \subseteq Part
        /\ \A i \in 0 .. idx : i \in 0 .. idx - 1 \/ i = idx
    BY SizeAssumption, SMT DEF TypeOK, Part
  <2>4. \A i \in 0 .. idx : StartPage(job.slot) + i \in Page
    BY <2>1, <2>3, RegionInFlash, JobFacts
  <2>5. \A i \in 0 .. idx : flash'[StartPage(job.slot) + i] = Erased
    BY <2>1, <2>2, <2>3, <2>4 DEF TypeOK
  <2>6. fatFlash' = fat'
    BY <1>4, <2>1 DEF ErasePage, CleanJob
  <2>7. CASE idx + 1 < FilePageCount
    <3>1. idx' - 1 = idx /\ pc' = "erasePages"
      BY <1>4, <2>3, <2>7, SMT DEF ErasePage, Part
    <3> QED
      BY <2>1, <2>5, <2>6, <3>1
  <2>8. CASE ~ (idx + 1 < FilePageCount)
    <3>1. pc' = "programFile"
      BY <1>4, <2>8 DEF ErasePage
    <3>2. Part \subseteq 0 .. idx
      BY <2>3, <2>8, SizeAssumption, SMT DEF Part
    <3> QED
      BY <2>1, <2>5, <2>6, <3>1, <3>2
  <2> QED
    BY <2>7, <2>8
<1>5. CASE ProgramFile
  BY <1>5 DEF ProgramFile
<1>6. CASE Reset
  BY <1>6 DEF Reset
<1>7. CASE UNCHANGED vars
  <2>1. CleanJob /\ job # None /\ job.slot \notin faulted
    BY <1>7 DEF vars, storeVars, histVars
  <2> QED
    BY <1>7, <2>1 DEF vars, storeVars, histVars, CleanJob
<1>8. CASE StackFault
  BY <1>8 DEF StackFault
<1> QED
  BY <1>1, <1>2, <1>3, <1>4, <1>5, <1>6, <1>7, <1>8 DEF Next, WriteStep

(* Without flash errors, only a reset inside store_fat loses an entry.     *)
LEMMA NextNoErrors == IInv /\ [Next]_vars => NoErrors'
<1> SUFFICES ASSUME IInv, [Next]_vars, ~ FlashMayFail
             PROVE  NoErrors'
  BY DEF NoErrors
<1> USE DEF IInv, NoErrors, AckedEntry
<1>1. ASSUME NEW t \in Slot, NEW f \in File, NEW u \in Uuid,
             WriteFile(t, f, u)
      PROVE  NoErrors'
  <2>1. /\ fatFlash = fat /\ faulted' = {} /\ UNCHANGED <<fatFlash, flash, fatCut>>
        /\ pc' = "eraseFat" /\ job'.slot = t
        /\ fat' = [fat EXCEPT ![t] = EntryFor(t, f, u)]
        /\ acked' = [acked EXCEPT ![t] = None]
        /\ before' = ViewBy(fat[t], t)
    BY <1>1 DEF WriteFile, View
  <2>2. \A r \in Slot \ {t} : fatFlash'[r] = fat'[r]
    BY <2>1 DEF TypeOK
  <2>3. ViewBy(fatFlash[t], t)' = before'
    BY <2>1 DEF ViewBy, HoldsBy
  <2>4. ASSUME ~ fatCut', NEW s \in Slot, acked'[s] # None
        PROVE  fat'[s] = AckedEntry(s)'
    <3>1. s # t /\ acked'[s] = acked[s] /\ fat'[s] = fat[s]
      BY <2>1, <2>4 DEF TypeOK
    <3> QED
      BY <2>1, <2>4, <3>1
  <2> QED
    BY <2>1, <2>2, <2>3, <2>4
<1>2. CASE EraseFat
  BY <1>2 DEF EraseFat, CommandFails
<1>3. CASE ProgramFat
  BY <1>3 DEF ProgramFat, CommandFails
<1>4. CASE ErasePage
  BY <1>4 DEF ErasePage, CommandFails
<1>5. CASE ProgramFile
  <2>1. /\ acked' = IF job.file \in Fits
                      THEN [acked EXCEPT ![job.slot] =
                              [file |-> job.file, uuid |-> job.uuid]]
                      ELSE acked
        /\ faulted = {} /\ UNCHANGED <<fat, fatFlash, faulted, fatCut>>
        /\ pc' = "idle" /\ job # None /\ pc = "programFile"
    BY <1>5 DEF ProgramFile, CommandFails, TypeOK
  <2>2. fatFlash' = fat'
    BY <2>1 DEF CleanJob
  <2>3. ASSUME NEW s \in Slot, acked'[s] # None, ~ fatCut'
        PROVE  fat'[s] = AckedEntry(s)'
    <3>1. CASE acked'[s] # acked[s]
      <4>1. s = job.slot
            /\ acked'[s] = [file |-> job.file, uuid |-> job.uuid]
        BY <2>1, <3>1 DEF TypeOK
      <4> QED
        BY <2>1, <4>1 DEF JobOpen, EntryFor
    <3>2. CASE acked'[s] = acked[s]
      BY <2>1, <2>3, <3>2
    <3> QED
      BY <3>1, <3>2
  <2> QED
    BY <2>1, <2>2, <2>3
<1>6. CASE Reset
  <2>1. /\ faulted' = {} /\ pc' = "idle" /\ fatFlash' = fat'
        /\ acked' = acked
    BY <1>6 DEF Reset
  <2>2. ASSUME ~ fatCut', NEW s \in Slot, acked[s] # None
        PROVE  fatFlash'[s] = AckedEntry(s)
    <3>1. pc # "programFat" /\ ~ fatCut /\ fatFlash' = fatFlash
      BY <1>6, <2>2 DEF Reset, TypeOK
    <3>2. fat[s] = AckedEntry(s)
      BY <2>2, <3>1
    <3>3. fatFlash[s] = fat[s]
      <4>1. CASE pc \in {"idle", "fault"}
        BY <4>1
      <4>2. CASE pc = "eraseFat"
        <5>1. job # None
          BY <4>2 DEF TypeOK
        <5>2. s # job.slot
          BY <2>2, <5>1 DEF JobOpen
        <5> QED
          BY <4>2, <5>2
      <4>3. CASE pc \in {"erasePages", "programFile"}
        BY <4>3 DEF CleanJob, TypeOK
      <4> QED
        BY <3>1, <4>1, <4>2, <4>3 DEF TypeOK
    <3> QED
      BY <3>1, <3>2, <3>3
  <2> QED
    BY <2>1, <2>2
<1>7. CASE UNCHANGED vars
  BY <1>7 DEF vars, storeVars, histVars, ViewBy, HoldsBy
<1>8. CASE StackFault
  <2>1. job # None /\ pc' = "fault"
        /\ UNCHANGED <<fat, fatFlash, acked, faulted, fatCut>>
    BY <1>8 DEF StackFault, storeVars, TypeOK
  <2>2. fatFlash = fat
    BY <1>8, <2>1 DEF StackFault, CleanJob
  <2> QED
    BY <2>1, <2>2
<1> QED
  BY <1>1, <1>2, <1>3, <1>4, <1>5, <1>6, <1>7, <1>8 DEF Next, WriteStep

(* What each copy of the FAT and each stored file is, at every step of     *)
(* every write.                                                            *)
THEOREM Inductive == Spec => []IInv
<1>1. Init => IInv
  BY InitInv
<1>2. IInv /\ [Next]_vars => IInv'
  BY NextType, NextSoundKept, NextEntriesInPlace, NextJob, NextCleanJob,
     NextNoErrors DEF IInv
<1> QED
  BY <1>1, <1>2, PTL DEF Spec

-----------------------------------------------------------------------------
(* What a caller reads.                                                    *)

(* The facts below are stated for this state and the next one.             *)
ReadsAs ==
  \A s \in Slot :
    /\ fat[s] = NoEntry => View(s) = None
    /\ \A f \in Fits :
         Holds(s, f) => View(s) = [file |-> f, uuid |-> fat[s].uuid]
    /\ fat[s] # NoEntry /\ (\A f \in Fits : ~ Holds(s, f))
         => View(s) = Garbage

ReadsBack ==
  \A s \in Slot, f \in Fits, u \in Uuid :
    /\ fat[s] = EntryFor(s, f, u)
    /\ \A i \in 0 .. Pages[f] - 1 :
         flash[StartPage(s) + i] =
           [slot |-> s, file |-> f, part |-> i, whole |-> TRUE]
    => Holds(s, f) /\ View(s) = [file |-> f, uuid |-> u]

ReadsDamaged ==
  \A s \in Slot, f \in File \ Fits, u \in Uuid :
    fat[s] = EntryFor(s, f, u) => View(s) = Garbage

(* A slot holds at most one file object, and reads as that one.            *)
LEMMA ReadsAsHeld == ReadsAs /\ ReadsAs'
<1>1. ASSUME NEW s \in Slot, NEW f \in Fits, Holds(s, f)
      PROVE  View(s) = [file |-> f, uuid |-> fat[s].uuid]
  <2>1. ASSUME NEW g \in Fits, HoldsBy(fat[s], s, g)
        PROVE  g = f
    <3>1. 0 \in 0 .. Pages[f] - 1 /\ 0 \in 0 .. Pages[g] - 1
      BY PartsOfFile
    <3>2. [slot |-> s, file |-> f, part |-> 0, whole |-> TRUE] =
          [slot |-> s, file |-> g, part |-> 0, whole |-> TRUE]
      BY <1>1, <2>1, <3>1 DEF Holds, HoldsBy
    <3> QED
      BY <3>2
  <2>2. HoldsBy(fat[s], s, f)
    BY <1>1 DEF Holds
  <2>3. (CHOOSE g \in Fits : HoldsBy(fat[s], s, g)) = f
    BY <2>1, <2>2
  <2>4. fat[s] # NoEntry
    BY <2>2, ValueAssumption DEF HoldsBy
  <2> QED
    BY <2>2, <2>3, <2>4 DEF View, ViewBy
<1>2. ReadsAs
  BY <1>1 DEF ReadsAs, View, ViewBy, Holds
<1> QED
  BY <1>2, PTL

(* A slot whose entry and pages are those of file f reads as f.            *)
LEMMA ReadsBackHolds == ReadsBack /\ ReadsBack'
<1>1. ASSUME NEW s \in Slot, NEW f \in Fits, NEW u \in Uuid,
             fat[s] = EntryFor(s, f, u),
             \A i \in 0 .. Pages[f] - 1 :
               flash[StartPage(s) + i] =
                 [slot |-> s, file |-> f, part |-> i, whole |-> TRUE]
      PROVE  Holds(s, f) /\ View(s) = [file |-> f, uuid |-> u]
  <2>1. Holds(s, f)
    <3>1. /\ f \in File
          /\ \A i \in 0 .. Pages[f] - 1 : StartPage(s) + i \in Page
      BY PartsOfFile, RegionInFlash
    <3>2. fat[s] \in Entry /\ fat[s].len = Pages[f]
          /\ fat[s].addr = StartPage(s)
      BY <1>1, <3>1, EntryForType DEF EntryFor
    <3> QED
      BY <1>1, <3>1, <3>2 DEF Holds, HoldsBy
  <2>2. fat[s].uuid = u
    BY <1>1 DEF EntryFor
  <2> QED
    BY <2>1, <2>2, ReadsAsHeld DEF ReadsAs
<1>2. ReadsBack
  BY <1>1 DEF ReadsBack
<1> QED
  BY <1>2, PTL

(* A slot whose entry has the length of an object that does not fit is     *)
(* damaged: no stored file is that long.                                   *)
LEMMA ReadsTooLong == ReadsDamaged /\ ReadsDamaged'
<1>1. ASSUME NEW s \in Slot, NEW f \in File \ Fits, NEW u \in Uuid,
             fat[s] = EntryFor(s, f, u)
      PROVE  View(s) = Garbage
  <2>1. fat[s] # NoEntry /\ fat[s].len = Pages[f]
    BY <1>1, EntryForType, ValueAssumption DEF EntryFor
  <2>2. ASSUME NEW g \in Fits PROVE ~ Holds(s, g)
    BY <2>1 DEF Holds, HoldsBy, Fits
  <2> QED
    BY <2>1, <2>2, ReadsAsHeld DEF ReadsAs
<1>2. ReadsDamaged
  BY <1>1 DEF ReadsDamaged
<1> QED
  BY <1>2, PTL

(* A sound slot with an entry reads as what was stored in it.              *)
LEMMA ViewOfSound ==
  IInv => \A s \in Slot :
            Sound(s) /\ fat[s] = AckedEntry(s) => View(s) = acked[s]
<1> SUFFICES ASSUME IInv, NEW s \in Slot, Sound(s), fat[s] = AckedEntry(s)
             PROVE  View(s) = acked[s]
  OBVIOUS
<1> DEFINE f == acked[s].file
           u == acked[s].uuid
<1>1. acked[s] \in Stored /\ f \in Fits /\ u \in Uuid
  BY DEF IInv, TypeOK, Sound, Stored
<1>2. acked[s] = [file |-> f, uuid |-> u]
  BY <1>1 DEF Stored
<1>3. fat[s] = EntryFor(s, f, u)
  BY DEF AckedEntry
<1>4. \A i \in 0 .. Pages[f] - 1 :
        flash[StartPage(s) + i] =
          [slot |-> s, file |-> f, part |-> i, whole |-> TRUE]
  BY DEF IInv, SoundKept
<1> QED
  BY <1>1, <1>2, <1>3, <1>4, ReadsBackHolds DEF ReadsBack

(* A slot that was written with every flash command succeeding reads back  *)
(* as what was written or not at all, whatever happens to other slots, to  *)
(* the flash and to the power afterwards, as long as no object too long    *)
(* for its own region runs into this one.                                  *)
THEOREM Acked == Spec => []AckedOrLost
<1>1. IInv => AckedOrLost
  <2> SUFFICES ASSUME IInv, NEW s \in Slot, Sound(s)
               PROVE  /\ View(s) \in {acked[s], None}
                      /\ IsSlotInUse(s) <=> View(s) = acked[s]
    BY DEF AckedOrLost, Sound
  <2>1. CASE fat[s] = NoEntry
    <3>1. View(s) = None
      BY <2>1, ReadsAsHeld DEF ReadsAs
    <3> QED
      BY <2>1, <3>1 DEF Readable, IsSlotInUse, Sound
  <2>2. CASE fat[s] = AckedEntry(s)
    <3> DEFINE f == acked[s].file
               head == [slot |-> s, file |-> f, part |-> 0, whole |-> TRUE]
    <3>1. f \in Fits /\ f \in File /\ acked[s].uuid \in Uuid
      BY PartsOfFile DEF IInv, TypeOK, Sound, Stored
    <3>2. 0 \in 0 .. Pages[f] - 1 /\ 0 \in Part /\ 0 \in Piece
      BY <3>1, PartsOfFile, PartIsPiece
    <3>3. StartPage(s) + 0 = StartPage(s)
      BY <3>2, RegionInFlash, SMT
    <3>4. flash[StartPage(s)] = head
      BY <3>2, <3>3 DEF IInv, SoundKept
    <3>5. head \in Content /\ head.part = 0
      BY <3>1, <3>2 DEF Content
    <3>6. fat[s] \in Entry /\ fat[s].addr = StartPage(s)
      BY <2>2, <3>1, EntryForType DEF AckedEntry, EntryFor
    <3>7. IsSlotInUse(s)
      BY <3>4, <3>5, <3>6, ValueAssumption DEF IsSlotInUse, Readable
    <3> QED
      BY <2>2, <3>7, ViewOfSound
  <2> QED
    BY <2>1, <2>2 DEF IInv, SoundKept
<1> QED
  BY <1>1, Inductive, PTL

(* With a flash that reports no errors, a file that write_file returned 0  *)
(* for is lost only by a reset inside store_fat, or to an object too long  *)
(* for its own region.                                                     *)
THEOREM NeverLost ==
  ASSUME ~ FlashMayFail
  PROVE  Spec => []AckedUnlessFatCut
<1>1. IInv => AckedUnlessFatCut
  <2> SUFFICES ASSUME IInv, ~ fatCut, NEW s \in Slot,
                      acked[s] # None, s \notin overrun
               PROVE  View(s) = acked[s]
    BY DEF AckedUnlessFatCut
  <2>1. Sound(s) /\ fat[s] = AckedEntry(s)
    BY DEF IInv, NoErrors, Sound
  <2> QED
    BY <2>1, ViewOfSound
<1> QED
  BY <1>1, Inductive, PTL

(* With a flash that reports no errors, the two copies of the FAT agree    *)
(* outside store_fat.                                                      *)
THEOREM Coherent ==
  ASSUME ~ FlashMayFail
  PROVE  Spec => []FatCoherent
<1>1. IInv => FatCoherent
  BY DEF IInv, NoErrors, FatCoherent, CleanJob, TypeOK
<1> QED
  BY <1>1, Inductive, PTL

(* A step of a write, cut short or not, changes a page of another slot     *)
(* only by programming an object that does not fit: it goes on into later  *)
(* slots.  No write erases a page of another slot or gets at an earlier    *)
(* one.                                                                    *)
THEOREM InSlot == Spec => WritesStayInSlot
<1>1. ASSUME IInv, Next, NEW t \in Slot, NEW i \in Part, t # job.slot,
             flash'[StartPage(t) + i] # flash[StartPage(t) + i]
      PROVE  /\ t > job.slot /\ job.file \notin Fits
             /\ flash'[StartPage(t) + i] # Erased
  <2> DEFINE p == StartPage(t) + i
  <2>1. p \in Page
    BY RegionInFlash
  <2>2. ~ ErasePage
    <3>1. SUFFICES ASSUME ErasePage PROVE FALSE
      OBVIOUS
    <3>2. job # None /\ idx \in Part
      BY <1>1, <3>1 DEF ErasePage, IInv, TypeOK
    <3>3. StartPage(t) + i # StartPage(job.slot) + idx
      BY <1>1, <3>2, JobFacts, RegionsDisjoint DEF IInv
    <3> QED
      BY <1>1, <2>1, <3>1, <3>3 DEF ErasePage, IInv, TypeOK
  <2>3. ProgramFile \/ Reset
    BY <1>1, <2>2 DEF Next, WriteStep, WriteFile, EraseFat, ProgramFat,
                      StackFault, storeVars
  <2>4. job # None /\ Programming
    BY <1>1, <2>3, ProgramFileIs, ResetIs DEF IInv
  <2>5. t \in Reached
    BY <1>1, <2>4, ProgrammingElsewhere DEF IInv
  <2>6. t > job.slot /\ job.file \notin Fits
    BY <1>1, <2>4, <2>5, JobFacts DEF Reached, IInv
  <2>7. PICK c \in Content : flash'[p] = ProgramCell(flash[p], c)
    BY <1>1, <2>1, <2>4, ProgrammingCells DEF IInv
  <2>8. flash'[p] # Erased
    BY <1>1, <2>7, ValueAssumption DEF ProgramCell
  <2> QED
    BY <2>6, <2>8
<1>2. IInv /\ [Next]_vars =>
        [\A t \in Slot, i \in Part :
           LET p == StartPage(t) + i
           IN  flash'[p] # flash[p] =>
                 \/ t = job.slot
                 \/ /\ t > job.slot /\ job.file \notin Fits
                    /\ flash'[p] # Erased]_vars
  BY <1>1
<1> QED
  BY <1>2, Inductive, PTL DEF Spec, WritesStayInSlot

(* What the last step of a write of a file that fits leaves.               *)
LEMMA WriteEnds ==
  ASSUME IInv, IInv', ProgramFile, ~ FlashMayFail,
         NEW s \in Slot, NEW f \in Fits, NEW u \in Uuid,
         job = [slot |-> s, file |-> f, uuid |-> u]
  PROVE  /\ fatFlash' = fat'
         /\ fat'[s] = EntryFor(s, f, u)
         /\ Holds(s, f)'
         /\ View(s)' = [file |-> f, uuid |-> u]
<1>1. /\ job # None /\ fat' = fat /\ pc' = "idle"
      /\ acked' = [acked EXCEPT ![s] = [file |-> f, uuid |-> u]]
  BY DEF ProgramFile, CommandFails, IInv, TypeOK
<1>2. acked'[s] = [file |-> f, uuid |-> u]
  BY <1>1 DEF IInv, TypeOK
<1>3. s \notin overrun'
  <2>1. job.slot = s /\ job.file = f
    OBVIOUS
  <2>2. s \notin overrun
    BY <1>1, <2>1 DEF IInv, JobOpen
  <2>3. s \notin Reached
    BY <1>1, <2>1, JobFacts DEF IInv
  <2>4. overrun' = overrun \cup Reached
    BY ProgramFileIs, ProgrammingCells DEF IInv
  <2> QED
    BY <2>2, <2>3, <2>4
<1>4. acked'[s] # None /\ s \notin faulted' /\ fatFlash' = fat'
  BY <1>1, <1>2, ValueAssumption DEF Object, Fits, IInv, NoErrors
<1>5. fat'[s] = EntryFor(s, f, u)
  BY <1>1 DEF IInv, JobOpen
<1>6. \A i \in 0 .. Pages[f] - 1 :
        flash'[StartPage(s) + i] =
          [slot |-> s, file |-> f, part |-> i, whole |-> TRUE]
  BY <1>2, <1>3, <1>4 DEF IInv, SoundKept, Sound, StartPage
<1>7. Holds(s, f)' /\ View(s)' = [file |-> f, uuid |-> u]
  <2>1. \A r \in Slot, g \in Fits, v \in Uuid :
          /\ fat'[r] = EntryFor(r, g, v)
          /\ \A i \in 0 .. Pages[g] - 1 :
               flash'[StartPage(r) + i] =
                 [slot |-> r, file |-> g, part |-> i, whole |-> TRUE]
          => Holds(r, g)' /\ View(r)' = [file |-> g, uuid |-> v]
    BY ReadsBackHolds DEF ReadsBack, EntryFor, StartPage, Fits
  <2> QED
    BY <1>5, <1>6, <2>1
<1> QED
  BY <1>4, <1>5, <1>7

(* With a flash that reports no errors, a return value of 0 for an object  *)
(* that fits means that the file and its FAT entry are on flash.           *)
THEOREM ZeroStored ==
  ASSUME ~ FlashMayFail
  PROVE  Spec => ZeroMeansStored
<1>1. IInv /\ IInv' /\ [Next]_vars =>
        [\A s \in Slot, f \in File, u \in Uuid :
           /\ acked'[s] # acked[s]
           /\ acked'[s] = [file |-> f, uuid |-> u]
           => fatFlash'[s] = EntryFor(s, f, u) /\ Holds(s, f)']_vars
  <2> SUFFICES ASSUME IInv, IInv', Next,
                      NEW s \in Slot, NEW f \in File, NEW u \in Uuid,
                      acked'[s] # acked[s],
                      acked'[s] = [file |-> f, uuid |-> u]
               PROVE  fatFlash'[s] = EntryFor(s, f, u) /\ Holds(s, f)'
    OBVIOUS
  <2>1. acked'[s] # None /\ f \in Fits
    <3>1. acked'[s] \in Stored \cup {None}
      BY DEF IInv, TypeOK
    <3>2. None # [file |-> f, uuid |-> u]
      BY ValueAssumption DEF Object
    <3> QED
      BY <3>1, <3>2 DEF Stored
  <2>2. ProgramFile
    BY <2>1 DEF Next, WriteStep, WriteFile, EraseFat, ProgramFat, ErasePage,
                StackFault, Reset, IInv, TypeOK
  <2>3. /\ s = job.slot
        /\ acked'[s] = [file |-> job.file, uuid |-> job.uuid]
    BY <2>2 DEF ProgramFile, IInv, TypeOK
  <2>4. f = job.file /\ u = job.uuid
    BY <2>3
  <2>5. job = [slot |-> s, file |-> f, uuid |-> u]
    BY <2>2, <2>3, <2>4 DEF ProgramFile, IInv, TypeOK, Job
  <2> QED
    BY <2>1, <2>2, <2>5, WriteEnds
<1> QED
  BY <1>1, Inductive, PTL DEF Spec, ZeroMeansStored

-----------------------------------------------------------------------------
(* Refinement.                                                             *)

(* A slot reads the same after a step that leaves its entry in RAM and the *)
(* pages of its region alone.                                              *)
LEMMA SameView ==
  ASSUME IInv, NEW s \in Slot, fat'[s] = fat[s],
         \A i \in Part : flash'[StartPage(s) + i] = flash[StartPage(s) + i]
  PROVE  View(s)' = View(s)
<1>1. ASSUME NEW f \in Fits
      PROVE  Holds(s, f)' <=> Holds(s, f)
  <2>1. CASE fat[s] \in Entry
    <3>1. fat[s].addr = StartPage(s)
      BY <2>1 DEF IInv, EntriesInPlace
    <3>2. \A i \in 0 .. Pages[f] - 1 : i \in Part
      BY PartsOfFile
    <3> QED
      BY <3>1, <3>2 DEF Holds, HoldsBy
  <2>2. CASE fat[s] \notin Entry
    BY <2>2 DEF Holds, HoldsBy
  <2> QED
    BY <2>1, <2>2
<1> QED
  BY <1>1, ReadsAsHeld DEF ReadsAs

(* Programming an object can at most damage what another slot holds, and   *)
(* only if the object is too long for its region.                          *)
LEMMA OtherView ==
  ASSUME IInv, job # None, Programming,
         NEW s \in Slot, s # job.slot, fat'[s] = fat[s]
  PROVE  \/ View(s)' = View(s)
         \/ /\ job.file \notin Fits
            /\ View(s) \in Stored /\ View(s)' = Garbage
<1>1. CASE s \notin Reached
  <2>1. \A i \in Part : flash'[StartPage(s) + i] = flash[StartPage(s) + i]
    BY <1>1, ProgrammingElsewhere DEF IInv
  <2> QED
    BY <2>1, SameView
<1>2. CASE s \in Reached
  <2>1. job.file \notin Fits
    BY <1>2, JobFacts DEF IInv
  <2>2. ASSUME NEW f \in Fits, Holds(s, f)'
        PROVE  Holds(s, f)
    <3>1. /\ fat[s] \in Entry /\ fat[s].len = Pages[f]
          /\ \A i \in 0 .. Pages[f] - 1 :
               /\ fat[s].addr + i \in Page
               /\ flash'[fat[s].addr + i] =
                    [slot |-> s, file |-> f, part |-> i, whole |-> TRUE]
      BY <2>2 DEF Holds, HoldsBy
    <3>2. ASSUME NEW i \in 0 .. Pages[f] - 1
          PROVE  flash[fat[s].addr + i] = flash'[fat[s].addr + i]
      <4> DEFINE p == fat[s].addr + i
                 c == [slot |-> s, file |-> f, part |-> i, whole |-> TRUE]
      <4>1. p \in Page /\ flash'[p] = c
        BY <3>1
      <4>2. c \in Content
        BY PartsOfFile, PartIsPiece DEF Content
      <4>3. ASSUME NEW d \in Content, d.slot = job.slot,
                   flash'[p] = ProgramCell(flash[p], d)
            PROVE  flash'[p] = flash[p]
        <5>1. c # d
          BY <4>3
        <5>2. c # Garbage
          BY <4>2, ValueAssumption
        <5> HIDE DEF c, p
        <5> QED
          BY <4>1, <4>3, <5>1, <5>2 DEF ProgramCell
      <4> QED
        BY <4>1, <4>3, ProgrammingCells DEF IInv
    <3> QED
      BY <3>1, <3>2 DEF Holds, HoldsBy
  <2>3. ASSUME NEW f \in Fits, Holds(s, f)
        PROVE  View(s) \in Stored
    <3>1. fat[s].uuid \in Uuid
      BY <2>3 DEF Holds, HoldsBy, Entry
    <3> QED
      BY <2>3, <3>1, ReadsAsHeld DEF ReadsAs, Stored
  <2> QED
    BY <2>1, <2>2, <2>3, ReadsAsHeld DEF ReadsAs
<1> QED
  BY <1>1, <1>2

(* What the running write is to the slot store.                            *)
LEMMA BusyIs ==
  ASSUME IInv, job # None
  PROVE  /\ BusyView # None
         /\ BusyView.slot = job.slot /\ BusyView.slot \in Slot
         /\ BusyView.was = before
         /\ BusyView.what = [file |-> job.file, uuid |-> job.uuid]
         /\ BusyView.what \in Abstract!Stored <=> job.file \in Fits
<1>1. /\ job.slot \in Slot /\ job.file \in File /\ job.uuid \in Uuid
      /\ before \in Stored \cup {None, Garbage}
  BY JobFacts DEF IInv, TypeOK
<1>2. BusyView = [slot |-> job.slot,
                  what |-> [file |-> job.file, uuid |-> job.uuid],
                  was |-> before]
  BY DEF BusyView
<1>3. BusyView \in Busy
  BY <1>1, <1>2 DEF Busy, Object
<1>4. BusyView.what \in Abstract!Stored <=> job.file \in Fits
  BY <1>1, <1>2 DEF Abstract!Stored
<1> QED
  BY <1>1, <1>2, <1>3, <1>4, ValueAssumption

(* The files that may be damaged: none by an object that fits.             *)
LEMMA MayDamageIs ==
  ASSUME IInv, job # None, NEW spoilt \in SUBSET Slot,
         \A s \in spoilt : /\ s # job.slot /\ job.file \notin Fits
                           /\ View(s) \in Stored
  PROVE  spoilt \in Abstract!MayDamage
<1>1. CASE job.file \in Fits
  <2>1. spoilt = {}
    BY <1>1
  <2> QED
    BY <1>1, <2>1, BusyIs DEF Abstract!MayDamage
<1>2. CASE job.file \notin Fits
  <2>1. \A s \in spoilt : StoreView[s] \in Abstract!Stored
    BY DEF StoreView, Stored, Abstract!Stored
  <2> QED
    BY <1>2, <2>1, BusyIs DEF Abstract!MayDamage
<1> QED
  BY <1>1, <1>2

(* The last step of write_file is the end of the write.                    *)
LEMMA WriteFinishes ==
  ASSUME IInv, IInv', ~ FlashMayFail, ProgramFile \/ StackFault
  PROVE  Abstract!Finish
<1>1. /\ job # None /\ job' = None /\ fat' = fat
  BY DEF ProgramFile, StackFault, storeVars, IInv, TypeOK
<1>2. PICK t \in Slot, f \in File, u \in Uuid :
        job = [slot |-> t, file |-> f, uuid |-> u]
  BY <1>1 DEF IInv, TypeOK, Job
<1>3. fat'[t] = EntryFor(t, f, u)
  BY <1>1, <1>2 DEF IInv, JobOpen
<1>4. View(t)' = IF f \in Fits THEN [file |-> f, uuid |-> u] ELSE Garbage
  <2>1. CASE f \in Fits
    <3>1. ProgramFile
      BY <1>2, <2>1 DEF StackFault
    <3> QED
      BY <1>2, <2>1, <3>1, WriteEnds
  <2>2. CASE f \notin Fits
    <3>1. \A r \in Slot, g \in File \ Fits, v \in Uuid :
             fat'[r] = EntryFor(r, g, v) => View(r)' = Garbage
      BY ReadsTooLong DEF ReadsDamaged, EntryFor, StartPage, Fits
    <3> QED
      BY <1>3, <2>2, <3>1
  <2> QED
    BY <2>1, <2>2
<1>5. ASSUME NEW s \in Slot, s # t
      PROVE  \/ View(s)' = View(s)
             \/ /\ f \notin Fits
                /\ View(s) \in Stored /\ View(s)' = Garbage
  <2>1. CASE ProgramFile
    BY <1>1, <1>2, <1>5, <2>1, ProgramFileIs, OtherView DEF IInv
  <2>2. CASE StackFault
    BY <1>1, <2>2, SameView DEF StackFault, storeVars
  <2> QED
    BY <2>1, <2>2
<1> DEFINE spoilt == {s \in Slot : s # t /\ View(s)' # View(s)}
<1>6. spoilt \in Abstract!MayDamage
  <2>1. spoilt \in SUBSET Slot
    OBVIOUS
  <2>2. \A s \in spoilt : /\ s # job.slot /\ job.file \notin Fits
                          /\ View(s) \in Stored
    BY <1>2, <1>5
  <2> HIDE DEF spoilt
  <2> QED
    BY <1>1, <2>1, <2>2, MayDamageIs
<1>7. StoreView' = [s \in Slot |->
                      IF s = BusyView.slot
                        THEN IF BusyView.what \in Abstract!Stored
                               THEN BusyView.what ELSE Garbage
                      ELSE IF s \in spoilt THEN Garbage
                      ELSE StoreView[s]]
  <2>1. /\ BusyView.slot = t
        /\ BusyView.what = [file |-> f, uuid |-> u]
        /\ BusyView.what \in Abstract!Stored <=> f \in Fits
    BY <1>1, <1>2, BusyIs
  <2>2. StoreView' = [s \in Slot |-> View(s)']
    BY <1>1 DEF StoreView
  <2>3. \A s \in Slot : s # t => StoreView[s] = View(s)
    BY <1>2 DEF StoreView
  <2>4. ASSUME NEW s \in Slot
        PROVE  View(s)' = IF s = t
                            THEN IF f \in Fits THEN [file |-> f, uuid |-> u]
                                               ELSE Garbage
                          ELSE IF s \in spoilt THEN Garbage
                          ELSE StoreView[s]
    BY <1>4, <1>5, <2>3
  <2> HIDE DEF spoilt
  <2> QED
    BY <2>1, <2>2, <2>4
<1>8. BusyView # None /\ BusyView' = None
  BY <1>1, BusyIs DEF BusyView
<1> HIDE DEF spoilt
<1> QED
  BY <1>6, <1>7, <1>8 DEF Abstract!Finish

(* A reset of a running write is its cut.                                  *)
LEMMA WriteCut ==
  ASSUME IInv, IInv', ~ FlashMayFail, Reset, job # None
  PROVE  Abstract!Cut
<1>1. fat' = fatFlash' /\ job' = None /\ faulted = {}
  BY DEF Reset, IInv, NoErrors
<1>2. PICK t \in Slot, f \in File, u \in Uuid :
        job = [slot |-> t, file |-> f, uuid |-> u]
  BY DEF IInv, TypeOK, Job
<1>3. \/ UNCHANGED flash
      \/ Programming /\ fat' = fat
  <2>1. CASE UNCHANGED <<flash, overrun>>
    BY <2>1
  <2>2. CASE pc = "programFile" /\ Programming /\ UNCHANGED fatFlash
    BY <1>1, <2>2 DEF IInv, CleanJob
  <2> QED
    BY <2>1, <2>2, ResetIs DEF IInv
<1>4. ASSUME NEW s \in Slot
      PROVE  \/ pc = "eraseFat" /\ fat'[s] = fatFlash[s] /\ UNCHANGED flash
             \/ fat'[s] \in {fat[s], NoEntry}
  <2>1. CASE pc = "eraseFat"
    BY <1>1, <2>1 DEF Reset
  <2>2. CASE pc = "programFat"
    <3>1. \A r \in Slot : fatFlash[r] = NoEntry
      BY <1>1, <1>2, <2>2 DEF IInv, CleanJob
    <3>2. \A k \in Slot : FatProgrammed(k)[s] \in {fat[s], NoEntry}
      BY <3>1 DEF FatProgrammed, ProgramEntry
    <3> QED
      BY <1>1, <2>2, <3>1, <3>2 DEF Reset
  <2>3. CASE pc \in {"erasePages", "programFile"}
    BY <1>1, <2>3 DEF Reset, IInv, CleanJob
  <2> QED
    BY <2>1, <2>2, <2>3 DEF IInv, TypeOK
<1>5. ASSUME NEW s \in Slot, s # t
      PROVE  \/ View(s)' \in {View(s), None}
             \/ /\ f \notin Fits
                /\ View(s) \in Stored /\ View(s)' = Garbage
  <2>1. fat'[s] \in {fat[s], NoEntry}
    BY <1>1, <1>2, <1>4, <1>5 DEF IInv, NoErrors
  <2>2. CASE fat'[s] = NoEntry
    BY <2>2, ReadsAsHeld DEF ReadsAs
  <2>3. CASE fat'[s] = fat[s] /\ UNCHANGED flash
    BY <2>3, SameView
  <2>4. CASE fat'[s] = fat[s] /\ Programming
    BY <1>2, <1>5, <2>4, OtherView
  <2> QED
    BY <1>3, <2>1, <2>2, <2>3, <2>4
<1>6. View(t)' \in Abstract!Left
  <2>1. CASE fat'[t] = fatFlash[t] /\ UNCHANGED flash /\ pc = "eraseFat"
    <3>1. ViewBy(fatFlash[t], t) = before
      BY <1>2, <2>1 DEF IInv, NoErrors
    <3>2. View(t)' = ViewBy(fatFlash[t], t)
      BY <2>1 DEF View, ViewBy, HoldsBy
    <3> QED
      BY <3>1, <3>2, BusyIs DEF Abstract!Left
  <2>2. CASE fat'[t] \in {EntryFor(t, f, u), NoEntry}
    <3>1. ASSUME fat'[t] = EntryFor(t, f, u)
          PROVE  View(t)' \in {Garbage} \cup [file : Fits, uuid : {u}]
      <4>1. fat'[t].uuid = u /\ fat'[t] # NoEntry
        BY <3>1, EntryForType, ValueAssumption DEF EntryFor
      <4> QED
        BY <4>1, ReadsAsHeld DEF ReadsAs
    <3>2. ASSUME fat'[t] = NoEntry
          PROVE  View(t)' = None
      BY <3>2, ReadsAsHeld DEF ReadsAs
    <3>3. BusyView.what.uuid = u
      BY <1>2, BusyIs
    <3> QED
      BY <2>2, <3>1, <3>2, <3>3 DEF Abstract!Left
  <2>3. fat[t] = EntryFor(t, f, u)
    BY <1>2 DEF IInv, JobOpen
  <2> QED
    BY <1>4, <2>1, <2>2, <2>3
<1> DEFINE lost == {s \in Slot : s # t /\ View(s)' = None}
           spoilt == {s \in Slot :
                        s # t /\ s \notin lost /\ View(s)' # View(s)}
<1>7. spoilt \in Abstract!MayDamage
  <2>1. spoilt \in SUBSET Slot
    OBVIOUS
  <2>2. \A s \in spoilt : /\ s # job.slot /\ job.file \notin Fits
                          /\ View(s) \in Stored
    BY <1>2, <1>5
  <2> HIDE DEF spoilt
  <2> QED
    BY <2>1, <2>2, MayDamageIs
<1>8. StoreView' = [s \in Slot |->
                      IF s = BusyView.slot THEN View(t)'
                      ELSE IF s \in lost THEN None
                      ELSE IF s \in spoilt THEN Garbage
                      ELSE StoreView[s]]
  <2>1. BusyView.slot = t
    BY <1>2, BusyIs
  <2>2. StoreView' = [s \in Slot |-> View(s)']
    BY <1>1 DEF StoreView
  <2>3. \A s \in Slot : s # t => StoreView[s] = View(s)
    BY <1>2 DEF StoreView
  <2>4. ASSUME NEW s \in Slot
        PROVE  View(s)' = IF s = t THEN View(t)'
                          ELSE IF s \in lost THEN None
                          ELSE IF s \in spoilt THEN Garbage
                          ELSE StoreView[s]
    BY <1>5, <2>3
  <2> HIDE DEF lost, spoilt
  <2> QED
    BY <2>1, <2>2, <2>4
<1>9. BusyView # None /\ BusyView' = None
  BY <1>1, BusyIs DEF BusyView
<1>10. lost \in SUBSET Slot
  OBVIOUS
<1> DEFINE left == View(t)'
<1>11. left \in Abstract!Left
  BY <1>6
<1>12. StoreView' = [s \in Slot |->
                       IF s = BusyView.slot THEN left
                       ELSE IF s \in lost THEN None
                       ELSE IF s \in spoilt THEN Garbage
                       ELSE StoreView[s]]
  BY <1>8
<1> HIDE DEF lost, spoilt, left
<1> QED
  BY <1>7, <1>9, <1>10, <1>11, <1>12 DEF Abstract!Cut

(* With a flash that reports no errors, write_file cut by resets at any    *)
(* point implements the slot store its callers rely on.                    *)
THEOREM Refines ==
  ASSUME ~ FlashMayFail
  PROVE  Spec => ImplementsSlotStore
<1>1. Init => Abstract!Init
  <2> SUFFICES ASSUME Init PROVE Abstract!Init
    OBVIOUS
  <2>1. \A s \in Slot : View(s) = None
    BY ReadsAsHeld DEF Init, ReadsAs
  <2> QED
    BY <2>1 DEF Init, Abstract!Init, StoreView, BusyView
<1>2. IInv /\ IInv' /\ [Next]_vars => [Abstract!Next]_(Abstract!vars)
  <2> SUFFICES ASSUME IInv, IInv', [Next]_vars
               PROVE  [Abstract!Next]_(Abstract!vars)
    OBVIOUS
  <2>1. ASSUME NEW t \in Slot, NEW f \in File, NEW u \in Uuid,
               WriteFile(t, f, u)
        PROVE  Abstract!Next
    <3>1. /\ job = None /\ job' = [slot |-> t, file |-> f, uuid |-> u]
          /\ job' # None /\ flash' = flash /\ before' = View(t)
      BY <2>1, ValueAssumption DEF WriteFile, IInv, TypeOK, Job
    <3>2. \A s \in Slot \ {t} : View(s)' = View(s)
      BY <2>1, SameView DEF WriteFile, IInv, TypeOK
    <3>3. StoreView' = [StoreView EXCEPT ![t] = Garbage]
      BY <3>1, <3>2 DEF StoreView
    <3>4. /\ BusyView = None
          /\ BusyView' = [slot |-> t, what |-> [file |-> f, uuid |-> u],
                          was |-> StoreView[t]]
      BY <3>1 DEF BusyView, StoreView
    <3>5. [file |-> f, uuid |-> u] \in Abstract!Object
      BY DEF Abstract!Object
    <3> QED
      BY <3>3, <3>4, <3>5 DEF Abstract!Next, Abstract!Begin
  <2>2. CASE EraseFat \/ ProgramFat \/ ErasePage
    <3>1. UNCHANGED <<fat, job, before>> /\ job # None
      BY <2>2 DEF EraseFat, ProgramFat, ErasePage, IInv, TypeOK
    <3>2. ASSUME NEW s \in Slot, s # job.slot
          PROVE  View(s)' = View(s)
      <4>1. CASE ErasePage
        <5>1. job.slot \in Slot /\ idx \in Part
          BY <3>1, JobFacts DEF IInv, TypeOK
        <5>2. \A i \in Part : StartPage(s) + i # StartPage(job.slot) + idx
                             /\ StartPage(s) + i \in Page
          BY <3>2, <5>1, RegionsDisjoint, RegionInFlash
        <5>3. \A i \in Part :
                flash'[StartPage(s) + i] = flash[StartPage(s) + i]
          BY <4>1, <5>2 DEF ErasePage, IInv, TypeOK
        <5> QED
          BY <3>1, <5>3, SameView
      <4>2. CASE EraseFat \/ ProgramFat
        BY <3>1, <4>2, SameView DEF EraseFat, ProgramFat
      <4> QED
        BY <2>2, <4>1, <4>2
    <3>3. StoreView' = StoreView
      BY <3>1, <3>2 DEF StoreView
    <3>4. BusyView' = BusyView
      BY <3>1 DEF BusyView
    <3> QED
      BY <3>3, <3>4 DEF Abstract!vars
  <2>3. CASE ProgramFile \/ StackFault
    BY <2>3, WriteFinishes DEF Abstract!Next
  <2>4. CASE Reset /\ job = None
    <3>1. fat' = fat /\ flash' = flash /\ job' = None
      BY <2>4 DEF Reset, IInv, TypeOK, NoErrors
    <3>2. \A s \in Slot : View(s)' = View(s)
      BY <3>1, SameView
    <3> QED
      BY <2>4, <3>1, <3>2 DEF Abstract!vars, StoreView, BusyView
  <2>5. CASE Reset /\ job # None
    BY <2>5, WriteCut DEF Abstract!Next
  <2>6. CASE UNCHANGED vars
    <3>1. \A s \in Slot : View(s)' = View(s)
      BY <2>6, SameView DEF vars, storeVars
    <3> QED
      BY <2>6, <3>1 DEF vars, histVars, Abstract!vars, StoreView, BusyView
  <2> QED
    BY <2>1, <2>2, <2>3, <2>4, <2>5, <2>6 DEF Next, WriteStep
<1> QED
  BY <1>1, <1>2, Inductive, PTL DEF Spec, ImplementsSlotStore, Abstract!Spec
=============================================================================
