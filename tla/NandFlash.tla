------------------------------ MODULE NandFlash ------------------------------
(***************************************************************************)
(* The NAND flash of the board as the user boot loader writes it and boots *)
(* from it (src/HW_tools/sff_sdr/serial_loader/trunk/DVFlasher/ubl/src:    *)
(* nand.c, nandboot.c).  An image is a header in page 0 of a block and the *)
(* data in the pages after it.  One page or block operation of the device  *)
(* is one step; each may fail, and between any two the power may go.       *)
(*                                                                         *)
(* What fails unseen is part of it.  A read fails only when the device     *)
(* does not answer: ubl.h:30 leaves the comparison of the error-correcting *)
(* codes out, so a page that was only half written or erased is read like  *)
(* any other, as whatever it holds then (Half).  An erase fails only when  *)
(* the device does not answer either: NAND_WaitForStatus (nand.c:245-268)  *)
(* takes an error that the device reports for its being ready.  A page     *)
(* that was written is read back and compared, an erased block is not.     *)
(*                                                                         *)
(* The module has no specification of its own: SerialLoader says when the  *)
(* boot loader burns, and when the board starts.                           *)
(***************************************************************************)
EXTENDS Naturals

CONSTANTS
    Images,             \* what can be burned
    Srec,               \* those the flash keeps in S-record form
    NumPage,            \* per image, its pages of data
    NumBlocks, PagesPerBlock,               \* the device
    FirstUbl, LastUbl, FirstApp, LastApp,   \* where an image may start
    Half,               \* a page whose erasing or writing was cut short
    Erased

ASSUME DeviceAssumption ==
    /\ NumBlocks \in Nat /\ PagesPerBlock \in Nat \ {0}
    /\ {FirstUbl, LastUbl, FirstApp, LastApp} \subseteq 1 .. NumBlocks - 1
    /\ FirstUbl <= LastUbl /\ LastUbl < FirstApp /\ FirstApp <= LastApp
    /\ Srec \subseteq Images /\ NumPage \in [Images -> Nat \ {0}]

Blocks == 1 .. NumBlocks - 1
Pages == 0 .. PagesPerBlock - 1
\* "erase" is an erase that times out, "unseen" one that fails without being
\* noticed; "torn" is the power going while the flash is changed, "power" at any
\* other time.
FaultKinds == {"request", "answer", "slow", "erase", "unseen", "write", "read", "torn", "power"}

VARIABLES
    flash,      \* what each page of each block holds
    writer,     \* NAND_WriteHeaderAndData: where it is
    copy,       \* NAND_Copy: where it is
    faults      \* how often each kind of fault has struck

flashVars == <<flash, writer, copy>>

Header(img, b) == [holds |-> "header", img |-> img, n |-> b]
Data(img, n) == [holds |-> "data", img |-> img, n |-> n]
Contents == {Header(i, b) : i \in Images, b \in Blocks}
            \cup (UNION {{Data(i, n) : n \in 1 .. NumPage[i]} : i \in Images})
            \cup {Half, Erased}
Blank == [p \in Pages |-> Erased]

ASSUME PageAssumption ==
    /\ Half # Erased
    /\ \A i \in Images :
           /\ \A b \in Blocks : Header(i, b) \notin {Half, Erased}
           /\ \A n \in 1 .. NumPage[i] : Data(i, n) \notin {Half, Erased}

\* An image that starts in block b takes the blocks up to the one of its last
\* page: as few as hold NumPage[img] + 1 pages.
NumBlks(img) == NumPage[img] \div PagesPerBlock + 1
At(b, n) == <<b + n \div PagesPerBlock, n % PagesPerBlock>>
WholeAt(img, b) ==
    /\ b \in Blocks /\ flash[b][0] = Header(img, b)
    /\ \A n \in 1 .. NumPage[img] : LET p == At(b, n) IN
           p[1] \in Blocks /\ flash[p[1]][p[2]] = Data(img, n)

Fault(kind) == faults' = [faults EXCEPT ![kind] = @ + 1]
NoFault == UNCHANGED faults

-----------------------------------------------------------------------------
(* NAND_WriteHeaderAndData.                                                *)

NoWriter == [at |-> "none"]
StartWrite(img, first, last) ==
    writer' = [at |-> "erase", img |-> img, block |-> first, last |-> last, n |-> 0]
WriterAt(step) == writer.at = step
Passed == writer' = [at |-> "passed"]
Failed == writer' = [at |-> "failed"]

\* Fault: the limit is one block too far.
OneBlockFurther(b, last) == b > last + 1

\* NAND_WRITE_RETRY: only where the image starts is compared with the limit.
TooFar(b, last) == b > last

\* Unprotecting fails only for blocks the device does not have; the next
\* start is tried, whatever has failed.
Unprotect ==
    /\ WriterAt("erase") /\ writer.n = 0
    /\ \/ TooFar(writer.block, writer.last) /\ Failed
       \/ /\ ~TooFar(writer.block, writer.last)
          /\ writer' = IF writer.block + NumBlks(writer.img) - 1 < NumBlocks
                       THEN [writer EXCEPT !.at = "erasing"]
                       ELSE [writer EXCEPT !.block = @ + 1]
    /\ NoFault /\ UNCHANGED <<flash, copy>>

\* What an erase that failed leaves of a block: all, nothing, or something between.
HalfErased(b) == [p \in Pages |-> IF flash[b][p] = Erased THEN Erased ELSE Half]
Left(b) == {flash[b], HalfErased(b), Blank}

\* One block of NAND_EraseBlocks: what it takes for erased, and a time-out.
Erase(b) ==
    \/ flash' = [flash EXCEPT ![b] = Blank] /\ NoFault
    \/ (\E left \in Left(b) : flash' = [flash EXCEPT ![b] = left]) /\ Fault("unseen")
EraseTimesOut(b) ==
    (\E left \in Left(b) : flash' = [flash EXCEPT ![b] = left]) /\ Fault("erase")

EraseBlock ==
    LET b == writer.block + writer.n
        more == writer.n + 1 < NumBlks(writer.img)
    IN  /\ WriterAt("erasing")
        /\ \/ /\ Erase(b)
              /\ writer' = IF more THEN [writer EXCEPT !.n = @ + 1]
                           ELSE [writer EXCEPT !.at = "header", !.n = 0]
           \/ /\ EraseTimesOut(b)
              /\ writer' = [writer EXCEPT !.at = "erase", !.block = @ + 1, !.n = 0]
        /\ UNCHANGED copy

\* NAND_WritePage and NAND_VerifyPage: a page that cannot be written, or reads
\* back otherwise, ends the burning.  What was not erased shows through.
Program(b, p, content, next) ==
    LET there == flash[b][p]
    IN  /\ \/ /\ there \in {Erased, Half, content}
              /\ flash' = [flash EXCEPT ![b][p] = content]
              /\ writer' = next /\ NoFault
           \/ /\ there \notin {Erased, content}
              /\ flash' = [flash EXCEPT ![b][p] = Half]
              /\ Failed /\ NoFault
           \/ /\ \E left \in {there, content, Half} : flash' = [flash EXCEPT ![b][p] = left]
              /\ Failed /\ Fault("write")
        /\ UNCHANGED copy

WriteHeader ==
    /\ WriterAt("header")
    /\ Program(writer.block, 0, Header(writer.img, writer.block),
               [writer EXCEPT !.at = "data", !.n = 1])

\* The block is counted up whenever a page is the last of its block.
DataPage(b, n) == At(b, n)

\* Fault: one page too many is written.
WriteDataAndMore ==
    LET where == DataPage(writer.block, writer.n)
    IN  /\ WriterAt("data")
        /\ Program(where[1], where[2], Data(writer.img, writer.n),
                   IF writer.n <= NumPage[writer.img] THEN [writer EXCEPT !.n = @ + 1]
                   ELSE [at |-> "passed"])

WriteData ==
    LET where == DataPage(writer.block, writer.n)
    IN  /\ WriterAt("data")
        /\ Program(where[1], where[2], Data(writer.img, writer.n),
                   IF writer.n < NumPage[writer.img] THEN [writer EXCEPT !.n = @ + 1]
                   ELSE [at |-> "passed"])

\* NAND_EraseBlocks over the whole device, up to the first time-out.
StartWipe == writer' = [at |-> "wiping", block |-> 1]

WipeBlock ==
    LET b == writer.block
    IN  /\ WriterAt("wiping")
        /\ \/ /\ Erase(b)
              /\ writer' = IF b + 1 < NumBlocks THEN [at |-> "wiping", block |-> b + 1]
                           ELSE [at |-> "passed"]
           \/ EraseTimesOut(b) /\ Failed
        /\ UNCHANGED copy

-----------------------------------------------------------------------------
(* NAND_Copy: boot the first image that can be read.                       *)

NoCopy == [at |-> "none"]
StartCopy == copy' = [at |-> "find", block |-> FirstApp, twice |-> FALSE]

NotFound == copy' = [at |-> "failed"]

\* The headers that page 0 of a block may be taken for: there is no checksum, and
\* a page that is half there may hold anything.
HeadersSeen(b) ==
    IF flash[b][0] = Half THEN {Header(i, k) : i \in Images, k \in Blocks}
    ELSE {flash[b][0]} \cap {Header(i, b) : i \in Images}

\* Page 0 of one block after the other, for a valid magic number.
FindHeader ==
    LET b == copy.block
        page == flash[b][0]
        next == [copy EXCEPT !.block = @ + 1]
    IN  /\ copy.at = "find"
        /\ \/ b > LastApp /\ NotFound /\ NoFault
           \/ /\ b <= LastApp /\ NoFault
              /\ \E h \in HeadersSeen(b) :
                     copy' = [at |-> "read", block |-> b, twice |-> copy.twice,
                              img |-> h.img, from |-> h.n, n |-> 1, whole |-> page = h]
           \/ b <= LastApp /\ page \notin HeadersSeen(b) /\ copy' = next /\ NoFault
           \/ b <= LastApp /\ page \in HeadersSeen(b) /\ copy' = next /\ Fault("read")
        /\ UNCHANGED <<flash, writer>>

\* Fault: a page that cannot be read is left out.
SkipPage ==
    copy' = [copy EXCEPT !.n = @ + 1, !.whole = FALSE]

\* A page that cannot be read: all is read again once, then the next header
\* is looked for.
ReadFailed ==
    copy' = IF copy.twice THEN [at |-> "find", block |-> copy.block + 1, twice |-> TRUE]
            ELSE [copy EXCEPT !.twice = TRUE, !.n = 1,
                              !.whole = flash[copy.block][0] = Header(copy.img, copy.from)]

\* The next page, whatever it holds.
CopyPage ==
    LET where == At(copy.from, copy.n)
        right == where[1] \in Blocks /\ flash[where[1]][where[2]] = Data(copy.img, copy.n)
        more == copy.n <= NumPage[copy.img]
    IN  /\ copy.at = "read" /\ more
        /\ \/ copy' = [copy EXCEPT !.n = @ + 1, !.whole = @ /\ right] /\ NoFault
           \/ ReadFailed /\ Fault("read")
        /\ UNCHANGED <<flash, writer>>

\* Only an S-record is checked, by decoding it: SRecDecode (util.c:87-191) finds a
\* record whose sum is wrong, does not get past a byte that is no record, and
\* passes the records of another image.
Decode ==
    /\ copy.at = "read" /\ copy.n > NumPage[copy.img]
    /\ \/ copy' = [at |-> "booted", img |-> copy.img, whole |-> copy.whole]
       \/ /\ copy.img \in Srec /\ ~copy.whole
          /\ \E end \in {"failed", "hung"} : copy' = [at |-> end]
    /\ NoFault /\ UNCHANGED <<flash, writer>>

-----------------------------------------------------------------------------
\* The page or block that is being changed when the power goes is left as it is then.
Interrupted ==
    {flash}
    \cup (IF writer.at \in {"erasing", "wiping"}
          THEN LET b == writer.block + (IF WriterAt("erasing") THEN writer.n ELSE 0)
               IN  {[flash EXCEPT ![b] = left] : left \in Left(b)}
          ELSE {})
    \cup (IF WriterAt("header") THEN {[flash EXCEPT ![writer.block][0] = Half]} ELSE {})
    \cup (IF WriterAt("data")
          THEN LET where == DataPage(writer.block, writer.n)
               IN  {[flash EXCEPT ![where[1]][where[2]] = Half]}
          ELSE {})

NandTypeOK ==
    /\ flash \in [Blocks -> [Pages -> Contents]]
    /\ writer.at \in {"none", "erase", "erasing", "header", "data", "wiping", "passed", "failed"}
    /\ copy.at \in {"none", "find", "read", "booted", "failed", "hung"}
    /\ faults \in [FaultKinds -> Nat]

Writing == Unprotect \/ EraseBlock \/ WriteHeader \/ WriteData
Booting == FindHeader \/ CopyPage \/ Decode
=============================================================================
