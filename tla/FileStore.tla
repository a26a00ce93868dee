------------------------------ MODULE FileStore ------------------------------
(***************************************************************************)
(* filesystem.c over simple_flash.c: the file allocation table (FAT) kept  *)
(* in RAM and in one flash page, the file regions of FILE_PAGE_COUNT pages *)
(* per slot, and write_file as the sequence of flash driver calls it       *)
(* makes.  Between two calls, and inside a program call, a reset may hit.  *)
(*                                                                         *)
(* Each flash driver call is one action.  A call cut by a reset (or, when  *)
(* FlashMayFail, by a failed command) leaves a prefix of what it was to    *)
(* program, because the controller programs 64-bit words in address order. *)
(* A FAT entry is 24 bytes and its last word holds both the length and the *)
(* address, so a half programmed entry still has an erased address and is  *)
(* the same to read_file as no entry at all.  An erase cut by a reset is   *)
(* taken to leave the page as it was or erased.                            *)
(*                                                                         *)
(* Lengths and addresses are counted in flash pages, addresses from        *)
(* FILES_START_ADDR.  A file object is what write_file is handed: not only *)
(* what create_file makes, but also what write leaves uninitialized when   *)
(* the name is empty, or a damaged file of the neighbor.  Its length may   *)
(* be anything; nothing in the code holds it against the region.           *)
(*                                                                         *)
(* Hosts name slots of the table.  write_file does not check the slot (a   *)
(* TODO at filesystem.c:101), and a slot beyond the table is a write past  *)
(* FILE_ALLOCATION_TABLE in RAM, after which nothing is defined.           *)
(***************************************************************************)
EXTENDS Integers

CONSTANTS
  MaxFileCount,   \* MAX_FILE_COUNT
  FilePageCount,  \* FILE_PAGE_COUNT
  File,           \* the file objects write_file is called with
  Uuid,           \* the UUIDs they are stored under
  Pages,          \* the flash pages each file object takes by its length
  SparePages,     \* the flash pages between the file regions and the FAT
  MaxCopy,        \* what flash_simple_write at most can copy to its stack
  FlashMayFail,   \* whether erase and program commands may report FAILED
  Erased,         \* a flash page after an erase
  Garbage,        \* a flash page programmed twice without an erase
  NoEntry,        \* a FAT entry whose address word is erased (-1)
  BadEntry,       \* a FAT entry programmed twice without an erase
  None            \* no write known to have completed

Slot == 0 .. MaxFileCount - 1
Part == 0 .. FilePageCount - 1
Page == 0 .. MaxFileCount * FilePageCount + SparePages - 1
Piece == 0 .. MaxCopy - 1

(* The objects that fit a region, as every file of at most                 *)
(* MAX_CONTENTS_SIZE bytes does.                                           *)
Fits == {f \in File : Pages[f] <= FilePageCount}

Content == [slot : Slot, file : File, part : Piece, whole : BOOLEAN]
Entry == [uuid : Uuid, len : Nat \ {0}, addr : Page]
Object == [file : File, uuid : Uuid]
Stored == [file : Fits, uuid : Uuid]
Job == [slot : Slot, file : File, uuid : Uuid]
Busy == [slot : Slot, what : Object, was : Stored \cup {None, Garbage}]

ASSUME SizeAssumption ==
  /\ MaxFileCount \in Nat \ {0}
  /\ FilePageCount \in Nat \ {0}
  /\ SparePages \in Nat
  /\ Pages \in [File -> Nat \ {0}]
  /\ MaxCopy \in FilePageCount .. FilePageCount + SparePages
  /\ FlashMayFail \in BOOLEAN

ASSUME ValueAssumption ==
  /\ Erased \notin Content /\ Garbage \notin Content /\ Erased # Garbage
  /\ NoEntry \notin Entry /\ BadEntry \notin Entry /\ NoEntry # BadEntry
  /\ None \notin Object \cup Job \cup Busy
  /\ Garbage \notin Stored

VARIABLES
  fat,       \* FILE_ALLOCATION_TABLE, the copy in RAM
  fatFlash,  \* the page at _FLASH_FAT_START
  flash,     \* the pages of the file regions
  pc,        \* the flash driver call write_file makes next
  job,       \* write_file's arguments while it runs, None otherwise
  idx,       \* the page counter of the erase loop
  acked,     \* history: the last write of each slot if it returned 0 and
             \*   was of an object that fits
  faulted,   \* history: the slots whose last write saw a failed command
  overrun,   \* history: the slots an object too long for its own region
             \*   was programmed over since their last write
  before,    \* history: what the slot being written held, None otherwise
  fatCut     \* history: a reset has cut a store_fat

storeVars == <<fat, fatFlash, flash>>
histVars == <<acked, faulted, overrun, before, fatCut>>
vars == <<storeVars, pc, job, idx, histVars>>

-----------------------------------------------------------------------------
(* Flash layout and the flash driver.                                      *)

(* Mutants: the slot count taken from one; regions of a single page.       *)
StartPageFromOne(s) == FilePageCount * (s + 1)
StartPageOverlapping(s) == s

(* FILE_START_PAGE_FROM_SLOT: where the region of a slot begins.           *)
StartPage(s) == FilePageCount * s

(* The FAT entry write_file records for file object f.  (The few lengths   *)
(* that lose their top bits in the 16-bit field are too long to be copied: *)
(* such an entry points at erased pages and is damaged all the same.)      *)
EntryFor(s, f, u) == [uuid |-> u, len |-> Pages[f], addr |-> StartPage(s)]

(* The slots that programming the running write's object runs into.        *)
Reached ==
  {t \in Slot : /\ t > job.slot
                /\ StartPage(t) < StartPage(job.slot) + Pages[job.file]}

(* Programming can only clear bits: over an erased cell it stores the new  *)
(* value, over an equal one (or with all ones) it changes nothing, over    *)
(* anything else it leaves the AND of both.                                *)
ProgramEntry(old, new) ==
  CASE old = NoEntry               -> new
    [] new = NoEntry \/ new = old  -> old
    [] OTHER                       -> BadEntry

ProgramCell(old, new) ==
  CASE old = Erased -> new
    [] new = old    -> old
    [] OTHER        -> Garbage

(* The FAT page once the first k entries of fat have been programmed.      *)
FatProgrammed(k) ==
  [s \in Slot |-> IF s < k THEN ProgramEntry(fatFlash[s], fat[s])
                           ELSE fatFlash[s]]

(* The file pages once parts 0..k-1 of the file have been programmed, and, *)
(* when torn, the beginning of part k.                                     *)
FileProgrammed(k, torn) ==
  LET start == fat[job.slot].addr
      cell(i, w) ==
        [slot |-> job.slot, file |-> job.file, part |-> i, whole |-> w]
  IN  [p \in Page |->
         IF p - start \in 0 .. k - 1
           THEN ProgramCell(flash[p], cell(p - start, TRUE))
         ELSE IF torn /\ p - start = k
           THEN ProgramCell(flash[p], cell(k, FALSE))
         ELSE flash[p]]

-----------------------------------------------------------------------------
(* Reading.                                                                *)

(* read_file: the slot is in range and its entry has an address.           *)
Readable(s) == s \in Slot /\ fat[s] # NoEntry

(* The bytes read_file copies by the entry e of slot s are exactly the     *)
(* file object f, in full.  (An object that does not fit is longer than    *)
(* the caller's file_t, too.)                                              *)
HoldsBy(e, s, f) ==
  /\ e \in Entry
  /\ e.len = Pages[f]
  /\ \A i \in 0 .. Pages[f] - 1 :
       /\ e.addr + i \in Page
       /\ flash[e.addr + i] =
            [slot |-> s, file |-> f, part |-> i, whole |-> TRUE]

Holds(s, f) == HoldsBy(fat[s], s, f)

(* is_slot_in_use: readable, and the word FILE_IN_USE heads the region.    *)
IsSlotInUse(s) ==
  /\ Readable(s)
  /\ fat[s] \in Entry
  /\ flash[fat[s].addr] \in Content
  /\ flash[fat[s].addr].part = 0

(* What a caller of read_file and get_file_metadata gets by the entry e.   *)
ViewBy(e, s) ==
  IF e = NoEntry THEN None
  ELSE IF \E f \in Fits : HoldsBy(e, s, f)
    THEN [file |-> CHOOSE f \in Fits : HoldsBy(e, s, f), uuid |-> e.uuid]
  ELSE Garbage

View(s) == ViewBy(fat[s], s)

-----------------------------------------------------------------------------
(* The steps of write_file.                                                *)

Init ==
  /\ fat = [s \in Slot |-> NoEntry]
  /\ fatFlash = [s \in Slot |-> NoEntry]
  /\ flash = [p \in Page |-> Erased]
  /\ pc = "idle"
  /\ job = None
  /\ idx = 0
  /\ acked = [s \in Slot |-> None]
  /\ faulted = {}
  /\ overrun = {}
  /\ before = None
  /\ fatCut = FALSE

(* Mutant: the FAT is changed in RAM only, store_fat is not called.        *)
WriteFileNoStore(s, f, u) ==
  /\ pc = "idle"
  /\ fat' = [fat EXCEPT ![s] = EntryFor(s, f, u)]
  /\ job' = [slot |-> s, file |-> f, uuid |-> u]
  /\ pc' = "erasePages"
  /\ acked' = [acked EXCEPT ![s] = None]
  /\ faulted' = faulted \ {s}
  /\ overrun' = overrun \ {s}
  /\ before' = View(s)
  /\ UNCHANGED <<fatFlash, flash, idx, fatCut>>

(* write_file is called: the entry of the slot is replaced in RAM.         *)
WriteFile(s, f, u) ==
  /\ pc = "idle"
  /\ fat' = [fat EXCEPT ![s] = EntryFor(s, f, u)]
  /\ job' = [slot |-> s, file |-> f, uuid |-> u]
  /\ pc' = "eraseFat"
  /\ acked' = [acked EXCEPT ![s] = None]
  /\ faulted' = faulted \ {s}
  /\ overrun' = overrun \ {s}
  /\ before' = View(s)
  /\ UNCHANGED <<fatFlash, flash, idx, fatCut>>

(* The running flash command reports FAILED.                               *)
CommandFails ==
  /\ FlashMayFail
  /\ faulted' = faulted \cup {job.slot}

(* Mutant: store_fat programs the FAT page over its old content.           *)
EraseFatSkipped ==
  /\ pc = "eraseFat"
  /\ pc' = "programFat"
  /\ UNCHANGED <<fat, fatFlash, flash, job, idx, acked, faulted, overrun, before, fatCut>>

(* store_fat, first call: erase the FAT page.  The result is dropped.      *)
EraseFat ==
  /\ pc = "eraseFat"
  /\ \/ fatFlash' = [s \in Slot |-> NoEntry] /\ UNCHANGED faulted
     \/ CommandFails /\ UNCHANGED fatFlash
  /\ pc' = "programFat"
  /\ UNCHANGED <<fat, flash, job, idx, acked, overrun, before, fatCut>>

(* store_fat, second call: program the FAT page.  store_fat returns the    *)
(* result, write_file drops it.                                            *)
ProgramFat ==
  /\ pc = "programFat"
  /\ \/ fatFlash' = FatProgrammed(MaxFileCount) /\ UNCHANGED faulted
     \/ CommandFails /\ \E k \in Slot : fatFlash' = FatProgrammed(k)
  /\ pc' = "erasePages"
  /\ UNCHANGED <<fat, flash, job, idx, acked, overrun, before, fatCut>>

(* Mutant: the loop bound is i <= FILE_PAGE_COUNT.                         *)
ErasePageOneMore ==
  /\ pc = "erasePages"
  /\ flash' = [flash EXCEPT ![StartPage(job.slot) + idx] = Erased]
  /\ IF idx + 1 <= FilePageCount
       THEN idx' = idx + 1 /\ pc' = pc
       ELSE idx' = 0 /\ pc' = "programFile"
  /\ UNCHANGED <<fat, fatFlash, job, acked, faulted, overrun, before, fatCut>>

(* One turn of the erase loop.  The result is dropped.                     *)
ErasePage ==
  /\ pc = "erasePages"
  /\ \/ /\ flash' = [flash EXCEPT ![StartPage(job.slot) + idx] = Erased]
        /\ UNCHANGED faulted
     \/ CommandFails /\ UNCHANGED flash
  /\ IF idx + 1 < FilePageCount
       THEN idx' = idx + 1 /\ pc' = pc
       ELSE idx' = 0 /\ pc' = "programFile"
  /\ UNCHANGED <<fat, fatFlash, job, acked, overrun, before, fatCut>>

(* flash_simple_write, if its stack has room for the copy it makes of the  *)
(* object.  Nothing stops it at the end of the region.                     *)
Programs(k, torn) ==
  /\ Pages[job.file] <= MaxCopy
  /\ flash' = FileProgrammed(k, torn)
  /\ overrun' = overrun \cup Reached

(* The program command has been cut or has failed: part k is torn, or the  *)
(* next to come.                                                           *)
ProgramsPart ==
  \E k \in 0 .. Pages[job.file] - 1, torn \in BOOLEAN : Programs(k, torn)

(* Program the file; write_file returns what the driver returns.           *)
ProgramFile ==
  /\ pc = "programFile"
  /\ \/ /\ Programs(Pages[job.file], FALSE)
        /\ acked' = IF job.file \in Fits
                      THEN [acked EXCEPT ![job.slot] =
                              [file |-> job.file, uuid |-> job.uuid]]
                      ELSE acked
        /\ UNCHANGED faulted
     \/ CommandFails /\ ProgramsPart /\ UNCHANGED acked
  /\ pc' = "idle"
  /\ job' = None
  /\ before' = None
  /\ UNCHANGED <<fat, fatFlash, idx, fatCut>>

(* The copy of an object that is too long runs off the stack: a hard fault *)
(* that lasts until the next reset.                                        *)
StackFault ==
  /\ pc = "programFile"
  /\ job.file \notin Fits
  /\ pc' = "fault"
  /\ job' = None
  /\ before' = None
  /\ UNCHANGED <<storeVars, idx, acked, faulted, overrun, fatCut>>

(* Mutant: init_fs does not load the FAT, RAM keeps what it had.           *)
ResetNoLoad ==
  /\ pc' = "idle"
  /\ job' = None
  /\ before' = None
  /\ idx' = 0
  /\ fatCut' = (fatCut \/ pc = "programFat")
  /\ UNCHANGED <<fat, fatFlash, flash, acked, faulted, overrun>>

(* A reset, at any time: RAM is lost, what the running flash command did   *)
(* so far stays, and init_fs loads the FAT again.                          *)
Reset ==
  /\ \/ UNCHANGED <<fatFlash, flash, overrun>>
     \/ /\ pc = "programFat"
        /\ \E k \in Slot : fatFlash' = FatProgrammed(k)
        /\ UNCHANGED <<flash, overrun>>
     \/ pc = "programFile" /\ ProgramsPart /\ UNCHANGED fatFlash
  /\ fat' = fatFlash'
  /\ fatCut' = (fatCut \/ pc = "programFat")
  /\ pc' = "idle"
  /\ job' = None
  /\ before' = None
  /\ idx' = 0
  /\ UNCHANGED <<acked, faulted>>

WriteStep ==
  EraseFat \/ ProgramFat \/ ErasePage \/ ProgramFile \/ StackFault

Next ==
  \/ \E s \in Slot, f \in File, u \in Uuid : WriteFile(s, f, u)
  \/ WriteStep
  \/ Reset

Spec == Init /\ [][Next]_vars

-----------------------------------------------------------------------------
(* Properties.                                                             *)

TypeOK ==
  /\ fat \in [Slot -> Entry \cup {NoEntry, BadEntry}]
  /\ fatFlash \in [Slot -> Entry \cup {NoEntry, BadEntry}]
  /\ flash \in [Page -> Content \cup {Erased, Garbage}]
  /\ pc \in {"idle", "eraseFat", "programFat", "erasePages", "programFile",
             "fault"}
  /\ job \in Job \cup {None}
  /\ (job = None) <=> (pc \in {"idle", "fault"})
  /\ idx \in Part
  /\ acked \in [Slot -> Stored \cup {None}]
  /\ faulted \in SUBSET Slot
  /\ overrun \in SUBSET Slot
  /\ before \in Stored \cup {None, Garbage}
  /\ fatCut \in BOOLEAN

(* A slot whose last write returned 0 with every flash command succeeding  *)
(* reads back as that file under that UUID or not at all, and the file     *)
(* list shows it exactly if it can be read: whatever later writes to other *)
(* slots do, with resets and flash errors at any point of them, read_file  *)
(* never hands out anything else for it, unless the object one of them     *)
(* wrote was so long that it ran into the slot.                            *)
AckedOrLost ==
  \A s \in Slot : acked[s] # None /\ s \notin faulted \cup overrun =>
    /\ View(s) \in {acked[s], None}
    /\ IsSlotInUse(s) <=> View(s) = acked[s]

(* The only thing that can lose such a slot is a reset that cuts store_fat *)
(* between the erase of the FAT page and the end of its programming.       *)
AckedUnlessFatCut ==
  ~ fatCut => \A s \in Slot :
    acked[s] # None /\ s \notin overrun => View(s) = acked[s]

(* Outside store_fat the RAM copy of the FAT and the flash copy agree, so  *)
(* what read_file serves before a reset it serves after it.                *)
FatCoherent ==
  pc \notin {"eraseFat", "programFat"} => fat = fatFlash

(* When write_file returns 0 the flash alone, without the RAM copy of the  *)
(* FAT, holds the file under its UUID (filesystem.c:96, "@return 0 upon    *)
(* success. A negative value otherwise.").                                 *)
ZeroMeansStored ==
  [][\A s \in Slot, f \in File, u \in Uuid :
       /\ acked'[s] # acked[s]
       /\ acked'[s] = [file |-> f, uuid |-> u]
       => fatFlash'[s] = EntryFor(s, f, u) /\ Holds(s, f)']_vars

(* What a write may do to the region of another slot, with or without      *)
(* flash errors: an object that fits its region, nothing; one of any other *)
(* length (filesystem.c:64, 104 do not look at it) can be programmed on    *)
(* into later slots, but it never erases a page of theirs and never gets   *)
(* at an earlier slot.                                                     *)
WritesStayInSlot ==
  [][\A t \in Slot, i \in Part :
       LET p == StartPage(t) + i
       IN  flash'[p] # flash[p] =>
             \/ t = job.slot
             \/ /\ t > job.slot /\ job.file \notin Fits
                /\ flash'[p] # Erased]_vars

-----------------------------------------------------------------------------
(* The inductive invariant behind AckedOrLost and AckedUnlessFatCut.       *)

Sound(s) == acked[s] # None /\ s \notin faulted \cup overrun
AckedEntry(s) == EntryFor(s, acked[s].file, acked[s].uuid)

(* Every file that was stored without a failed command, and not overrun,   *)
(* is still complete in its region, and each copy of the FAT has its entry *)
(* or none.                                                                *)
SoundKept ==
  \A s \in Slot : Sound(s) =>
    /\ fat[s] \in {NoEntry, AckedEntry(s)}
    /\ fatFlash[s] \in {NoEntry, AckedEntry(s)}
    /\ \A i \in 0 .. Pages[acked[s].file] - 1 :
         flash[StartPage(s) + i] =
           [slot |-> s, file |-> acked[s].file, part |-> i, whole |-> TRUE]

(* Every entry, in RAM or on flash, points at its own slot's region.       *)
EntriesInPlace ==
  \A s \in Slot : \A e \in {fat[s], fatFlash[s]} :
    e \in Entry => e.addr = StartPage(s)

(* The slot being written has no stored file and has its new entry in RAM.  *)
JobOpen ==
  job # None =>
    /\ acked[job.slot] = None
    /\ job.slot \notin overrun
    /\ fat[job.slot] = EntryFor(job.slot, job.file, job.uuid)

(* The page counter only runs inside the erase loop.                       *)
LoopClosed == pc # "erasePages" => idx = 0

(* As long as no command of the running write has failed, every erase has  *)
(* left erased cells for the program command that follows it.              *)
CleanJob ==
  (job # None /\ job.slot \notin faulted) =>
    /\ pc = "programFat" => \A t \in Slot : fatFlash[t] = NoEntry
    /\ pc \in {"erasePages", "programFile"} => fatFlash = fat
    /\ pc = "erasePages" =>
         \A i \in 0 .. idx - 1 : flash[StartPage(job.slot) + i] = Erased
    /\ pc = "programFile" =>
         \A i \in Part : flash[StartPage(job.slot) + i] = Erased

(* Without flash errors, the flash copy of the FAT lags behind RAM only    *)
(* inside store_fat, and only a reset there can lose an entry.             *)
NoErrors ==
  ~ FlashMayFail =>
    /\ faulted = {}
    /\ pc \in {"idle", "fault"} => fatFlash = fat
    /\ pc = "eraseFat" =>
         /\ \A t \in Slot \ {job.slot} : fatFlash[t] = fat[t]
         /\ ViewBy(fatFlash[job.slot], job.slot) = before
    /\ ~ fatCut => \A s \in Slot : acked[s] # None => fat[s] = AckedEntry(s)

IInv ==
  /\ TypeOK
  /\ SoundKept
  /\ EntriesInPlace
  /\ JobOpen
  /\ LoopClosed
  /\ CleanJob
  /\ NoErrors

-----------------------------------------------------------------------------
(* Refinement.                                                             *)

(* The view of write_file as one slot update (SlotStore): the slot being   *)
(* written is undetermined, every other slot is what read_file returns.    *)
StoreView ==
  [s \in Slot |-> IF job # None /\ s = job.slot THEN Garbage ELSE View(s)]

BusyView ==
  IF job = None THEN None
  ELSE [slot |-> job.slot, what |-> [file |-> job.file, uuid |-> job.uuid],
        was |-> before]

Abstract == INSTANCE SlotStore WITH
  Nothing <- None,
  Damaged <- Garbage,
  store <- StoreView,
  busy <- BusyView

(* With a flash that reports no errors, write_file with resets at any      *)
(* point implements SlotStore: one slot changes, an idle reset is silent,  *)
(* a cut write leaves its slot as it was, empty, damaged or under its own  *)
(* UUID and can empty other slots but never alter them; only an object too *)
(* long for its region can damage another slot.                            *)
ImplementsSlotStore == Abstract!Spec
=============================================================================
