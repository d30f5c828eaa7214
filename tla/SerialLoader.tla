----------------------------- MODULE SerialLoader -----------------------------
(***************************************************************************)
(* Burning the board's flash over a serial line: the dialog of the host    *)
(* program (DVFlasher.cs) with the user boot loader (uartboot.c, uart.c,   *)
(* ubl.c in src/HW_tools/sff_sdr/serial_loader/trunk/DVFlasher), and the   *)
(* flash behind it (NandFlash).  The line loses bytes, the host may be     *)
(* slow to answer, and the power may go at any moment; then the board      *)
(* starts from its flash.                                                  *)
(*                                                                         *)
(* A message is one string of the dialog, or the bytes of one image.  Text *)
(* the host skips is left out.  A request that has lost bytes is not what  *)
(* the target expects, or too short; its remainder is read for the next    *)
(* request.  Bytes that arrive altered are detected in images only, by the *)
(* checksums of their S-records, and are left out elsewhere.               *)
(***************************************************************************)
EXTENDS NandFlash, Integers, Sequences, SequencesExt

CONSTANTS
    Commands,       \* what the user of the host may ask for
    Ubl, App,       \* the images the host sends
    Old, OldAt,     \* the application that is in the flash before, and where
    Memory, Size,   \* memory of the target, and per image how much it takes
    MaxFaults       \* bound: faults of all kinds

ASSUME LoaderAssumption ==
    /\ Commands \subseteq {"burn", "run", "erase"}
    /\ {Ubl, App, Old} \subseteq Images
    /\ OldAt \in FirstApp .. LastApp /\ OldAt + NumBlks(Old) <= NumBlocks
    /\ Memory \in Nat /\ Size \in [Images -> Nat]
    /\ MaxFaults \in Nat

\* The boot loader is no application, and ends before the applications when it is
\* where it is tried first: 14k from block 1 on, the applications from block 6 on,
\* and no device with blocks of less than 4k (uartboot.c:285-296, nand.c:39-77).
ASSUME ApartAssumption == Ubl \notin {App, Old} /\ FirstUbl + NumBlks(Ubl) <= FirstApp

VARIABLES
    command,    \* what the user asks for
    host,       \* how far it is: an index into its dialog, 0 when it gave up
    target,     \* what the boot loader waits for or does
    toTarget, toHost,   \* the line
    used        \* current_mem_loc

lineVars == <<toTarget, toHost>>
vars == <<flashVars, faults, command, host, target, lineVars, used>>

Cmd(what) == [kind |-> "CMD", img |-> what]
Ack(img) == [kind |-> "ACK", img |-> img]
Bytes(img) == [kind |-> "bytes", img |-> img]
Spoilt == [kind |-> "bytes", img |-> "spoilt"]
Rest == [kind |-> "rest", img |-> "rest"]
None == [kind |-> "none", img |-> "none"]

\* The host's dialogs: what it waits for, and what it sends then.
Wait(answer, message) == [answer |-> answer, send |-> message]
Transmit(call, img) ==
    <<Wait(call, Ack(img)), Wait("BEGIN", Bytes(img)), Wait("DONE", None), Wait("DONE", None)>>
Dialog ==
    <<Wait("BOOTPSP", Cmd(command))>>
    \o (CASE command = "burn" -> Transmit("SENDUBL", Ubl) \o Transmit("SENDAPP", App)
          [] command = "run" -> Transmit("SENDAPP", App)
          [] command = "erase" -> << >>)
    \o <<Wait("DONE", None)>>

Init ==
    /\ flash = [b \in Blocks |-> [p \in Pages |->
                    IF b = OldAt /\ p = 0 THEN Header(Old, b)
                    ELSE LET n == (b - OldAt) * PagesPerBlock + p
                         IN  IF n \in 1 .. NumPage[Old] THEN Data(Old, n) ELSE Erased]]
    /\ writer = NoWriter /\ copy = NoCopy
    /\ faults = [k \in FaultKinds |-> 0]
    /\ command \in Commands /\ host = 1
    /\ target = [at |-> "cmd", part |-> "none", img |-> "none"]
    /\ toTarget = << >> /\ toHost = <<"BOOTPSP">>
    /\ used = 0

CanFail == FoldFunction(+, 0, faults) < MaxFaults

-----------------------------------------------------------------------------
(* The host.  It has no time-out: it waits for its answer or for BOOTPSP,  *)
(* and skips everything else.                                              *)

GaveUp == 0
Talking == host \in DOMAIN Dialog
Succeeded == host = Len(Dialog) + 1
Deliver(message) ==
    toTarget' = IF message = None THEN toTarget ELSE Append(toTarget, message)

Answered ==
    /\ Talking /\ toHost # << >> /\ Head(toHost) = Dialog[host].answer
    /\ host' = host + 1
    /\ Deliver(Dialog[host].send)
    /\ toHost' = Tail(toHost)
    /\ UNCHANGED <<flashVars, faults, command, target, used>>

Skip ==
    /\ Talking /\ toHost # << >> /\ Head(toHost) \notin {Dialog[host].answer, "BOOTPSP"}
    /\ toHost' = Tail(toHost)
    /\ UNCHANGED <<flashVars, faults, command, host, target, toTarget, used>>

\* The target has started over: so does the host -- or it gives up, when it
\* was waiting for the last DONE.  It drops what has arrived, which is all but
\* the message that the target may be sending.
StartOver ==
    /\ Talking /\ host > 1 /\ toHost # << >> /\ Head(toHost) = "BOOTPSP"
    /\ \/ /\ host = Len(Dialog) /\ command # "erase"
          /\ host' = GaveUp /\ toHost' = Tail(toHost)
       \/ /\ host < Len(Dialog) \/ command = "erase"
          /\ host' = 1
          /\ \/ toHost' = << >>
             \/ Len(toHost) > 1 /\ toHost' = <<Last(toHost)>>
    /\ UNCHANGED <<flashVars, faults, command, target, toTarget, used>>

-----------------------------------------------------------------------------
(* The boot loader on the target.                                          *)

Is(step) == target.at = step
Say(answers) == toHost' = toHost \o answers
Become(step, part, img) == target' = [at |-> step, part |-> part, img |-> img]
UartBoot == Become("cmd", "none", "none")
TryAgain == UartBoot /\ Say(<<"BOOTPSP">>)
Takes == toTarget' = Tail(toTarget)

\* A message that does not match is given up at the first byte that differs.
Mismatch ==
    \/ Takes
    \/ Head(toTarget) # Rest /\ toTarget' = <<Rest>> \o Tail(toTarget)

GetCmd ==
    /\ Is("cmd") /\ toTarget # << >>
    /\ \/ /\ Head(toTarget).kind = "CMD" /\ Takes
          /\ CASE Head(toTarget).img = "burn" -> Become("ack", "ubl", "none") /\ Say(<<"SENDUBL">>)
               [] Head(toTarget).img = "run" -> Become("ack", "run", "none") /\ Say(<<"SENDAPP">>)
               [] Head(toTarget).img = "erase" -> Become("erase", "none", "none") /\ UNCHANGED toHost
       \/ Head(toTarget).kind # "CMD" /\ Mismatch /\ TryAgain
    /\ UNCHANGED <<flashVars, faults, command, host, used>>

\* ubl_alloc_mem returns 0 when the memory is used up; nothing was freed by
\* starting over, and nobody looks at what it returns.
Fits(img) == used + Size[img] \in 0 .. Memory

GetHeader ==
    /\ Is("ack") /\ toTarget # << >>
    /\ LET m == Head(toTarget)
       IN  \/ /\ m.kind = "ACK" /\ Fits(m.img) /\ Takes
              /\ used' = used + Size[m.img]
              /\ Become("bytes", target.part, m.img) /\ Say(<<"BEGIN">>)
           \/ /\ m.kind = "ACK" /\ ~Fits(m.img) /\ Takes
              /\ \/ Become("bytes", target.part, m.img) /\ Say(<<"BEGIN">>)
                 \/ Become("crashed", "none", "none") /\ UNCHANGED toHost
              /\ UNCHANGED used
           \/ m.kind # "ACK" /\ Mismatch /\ TryAgain /\ UNCHANGED used
    /\ UNCHANGED <<flashVars, faults, command, host>>

\* UARTRecvData takes what comes.  What is not an image, as sent, is one that
\* does not decode, or that does not fill the space.
GetBytes ==
    /\ Is("bytes") /\ toTarget # << >> /\ Takes
    /\ LET m == Head(toTarget)
       IN  \/ m.kind = "bytes" /\ Become("decode", target.part, m.img) /\ Say(<<"DONE">>)
           \/ m.kind # "bytes" /\ Become("decode", target.part, "spoilt") /\ Say(<<"DONE">>)
           \/ m.kind # "bytes" /\ TryAgain
    /\ UNCHANGED <<flashVars, faults, command, host, used>>

\* SRecDecode, which finds a record that is spoilt, and never ends at a byte that
\* belongs to none; then the image is burned, or run.
DecodeImage ==
    /\ Is("decode")
    /\ \/ target.img = "spoilt" /\ TryAgain /\ UNCHANGED writer
       \/ target.img = "spoilt" /\ Become("hung", "none", "none") /\ UNCHANGED <<writer, toHost>>
       \/ /\ target.img # "spoilt" /\ Say(<<"DONE">>)
          /\ \/ target.part = "run" /\ Become("end", "run", target.img) /\ UNCHANGED writer
             \/ target.part = "ubl" /\ Become("burn", "ubl", target.img)
                /\ StartWrite(target.img, FirstUbl, LastUbl)
             \/ target.part = "app" /\ Become("burn", "app", target.img)
                /\ StartWrite(target.img, FirstApp, LastApp)
    /\ UNCHANGED <<flash, copy, faults, command, host, toTarget, used>>

\* Fault: what NAND_WriteHeaderAndData returns is not looked at.
BurnedAnyway ==
    /\ Is("burn") /\ writer.at \in {"passed", "failed"}
    /\ writer' = NoWriter
    /\ \/ target.part = "ubl" /\ Become("ack", "app", "none") /\ Say(<<"SENDAPP">>)
       \/ target.part = "app" /\ Become("end", "burn", "none") /\ UNCHANGED toHost
    /\ UNCHANGED <<flash, copy, faults, command, host, toTarget, used>>

Burned ==
    /\ Is("burn") /\ writer.at \in {"passed", "failed"}
    /\ writer' = NoWriter
    /\ \/ WriterAt("failed") /\ TryAgain
       \/ /\ WriterAt("passed") /\ target.part = "ubl"
          /\ Become("ack", "app", "none") /\ Say(<<"SENDAPP">>)
       \/ /\ WriterAt("passed") /\ target.part = "app"
          /\ Become("end", "burn", "none") /\ UNCHANGED toHost
    /\ UNCHANGED <<flash, copy, faults, command, host, toTarget, used>>

\* The global erase; an error starts over.
EraseAll ==
    /\ Is("erase")
    /\ \/ writer = NoWriter /\ StartWipe /\ UNCHANGED <<target, toHost>>
       \/ WriterAt("failed") /\ TryAgain /\ writer' = NoWriter
       \/ WriterAt("passed") /\ Become("end", "erase", "none") /\ writer' = NoWriter /\ UNCHANGED toHost
    /\ UNCHANGED <<flash, copy, faults, command, host, toTarget, used>>

\* The end of main: the last DONE, and the entry point -- 0, a reset, if
\* there is nothing to run.
Finish ==
    /\ Is("end") /\ Say(<<"DONE">>)
    /\ IF target.part = "run" THEN Become("running", "run", target.img)
       ELSE Become("reset", "none", "none")
    /\ UNCHANGED <<flashVars, faults, command, host, toTarget, used>>

\* No byte arrives before TIMER0 runs out.  A host that is waiting itself
\* sends nothing; one that is only slow is a fault (SlowHost).
Waiting == target.at \in {"cmd", "ack", "bytes"} /\ toTarget = << >>

\* Fault: the host is not told that the target starts over.
SilentTimeOut ==
    /\ Waiting /\ toHost = << >>
    /\ UartBoot
    /\ UNCHANGED <<flashVars, faults, command, host, lineVars, used>>

TimeOut ==
    /\ Waiting /\ toHost = << >>
    /\ TryAgain
    /\ UNCHANGED <<flashVars, faults, command, host, toTarget, used>>

-----------------------------------------------------------------------------
(* Starting from the flash: nothing that was sent before is still there    *)
(* (UART0Init), and the memory is all free again, except what NAND_Copy    *)
(* takes for an S-record.                                                  *)

HalfMemory == Memory \div 2

NandBoot ==
    /\ Is("reset") \/ Is("off")
    /\ StartCopy
    /\ used' = HalfMemory /\ toTarget' = << >>
    /\ Become("copying", "none", "none")
    /\ UNCHANGED <<flash, writer, faults, command, host, toHost>>

Copying ==
    /\ Is("copying") /\ copy.at \in {"find", "read"}
    /\ Booting
    /\ faults' = faults \/ CanFail
    /\ used' = IF copy.at = "find" /\ copy'.at = "read" /\ copy'.img \notin Srec
               THEN used - HalfMemory ELSE used
    /\ UNCHANGED <<command, host, target, lineVars>>

Copied ==
    /\ Is("copying") /\ copy.at \in {"booted", "failed", "hung"}
    /\ \/ copy.at = "failed" /\ TryAgain /\ copy' = NoCopy
       \/ copy.at = "hung" /\ Become("hung", "none", "none") /\ copy' = NoCopy /\ UNCHANGED toHost
       \/ /\ copy.at = "booted" /\ Become("running", "nand", copy.img)
          /\ UNCHANGED <<copy, toHost>>
    /\ UNCHANGED <<flash, writer, faults, command, host, toTarget, used>>

-----------------------------------------------------------------------------
(* Faults.                                                                 *)

Burning ==
    /\ Is("burn") /\ Writing /\ (faults' = faults \/ CanFail)
    /\ UNCHANGED <<command, host, target, lineVars, used>>

Wiping ==
    /\ Is("erase") /\ WipeBlock /\ (faults' = faults \/ CanFail)
    /\ UNCHANGED <<command, host, target, lineVars, used>>

LoseRequest ==
    /\ CanFail /\ Fault("request")
    /\ \E i \in DOMAIN toTarget :
           \/ toTarget' = RemoveAt(toTarget, i)
           \/ toTarget[i] # Rest /\ toTarget' = [toTarget EXCEPT ![i] = Rest]
           \/ toTarget[i].kind = "bytes" /\ toTarget' = [toTarget EXCEPT ![i] = Spoilt]
    /\ UNCHANGED <<flashVars, command, host, target, toHost, used>>

LoseAnswer ==
    /\ CanFail /\ Fault("answer")
    /\ \E i \in DOMAIN toHost : toHost' = RemoveAt(toHost, i)
    /\ UNCHANGED <<flashVars, command, host, target, toTarget, used>>

SlowHost ==
    /\ CanFail /\ Fault("slow")
    /\ Waiting /\ toHost # << >> /\ Talking /\ TryAgain
    /\ UNCHANGED <<flashVars, command, host, toTarget, used>>

PowerCut ==
    /\ CanFail /\ ~Is("off")
    /\ Fault(IF Is("burn") \/ Is("erase") THEN "torn" ELSE "power")
    /\ flash' \in Interrupted
    /\ writer' = NoWriter /\ copy' = NoCopy
    /\ Become("off", "none", "none")
    /\ toTarget' = << >>
    /\ UNCHANGED <<command, host, toHost, used>>

-----------------------------------------------------------------------------
HostStep == Answered \/ Skip \/ StartOver
TargetStep ==
    GetCmd \/ GetHeader \/ GetBytes \/ DecodeImage \/ Burned \/ EraseAll \/ Finish \/ TimeOut
    \/ Burning \/ Wiping
StartStep == NandBoot \/ Copying \/ Copied
FaultStep == LoseRequest \/ LoseAnswer \/ SlowHost \/ PowerCut

Next == HostStep \/ TargetStep \/ StartStep \/ FaultStep

\* The host and the boot loader go on while they can; nobody has to start the
\* board, and no fault has to happen.
Spec == Init /\ [][Next]_vars /\ WF_vars(HostStep) /\ WF_vars(TargetStep)

-----------------------------------------------------------------------------
(* Properties.                                                             *)

TypeOK ==
    /\ NandTypeOK
    /\ command \in Commands /\ host \in 0 .. Len(Dialog) + 1
    /\ target.at \in {"cmd", "ack", "bytes", "decode", "burn", "erase", "end", "reset", "running",
                      "crashed", "hung", "copying", "off"}
    /\ toTarget \in Seq({Spoilt, Rest} \cup {Cmd(c) : c \in Commands} \cup {Ack(i) : i \in Images} \cup {Bytes(i) : i \in Images})
    /\ toHost \in Seq({Dialog[i].answer : i \in DOMAIN Dialog} \cup {"SENDAPP"})
    /\ used \in Int

\* The last block an image that starts in first .. last can reach: each erase that
\* times out moves it by one.
Reach(img, first, last) ==
    (IF first + faults["erase"] < last THEN first + faults["erase"] ELSE last) + NumBlks(img) - 1
Burnt(img, first, last) ==
    \E b \in first .. last : b <= first + faults["erase"] /\ WholeAt(img, b)

\* The host reports success (DVFlasher.cs:760) only if the target has done
\* what it was asked to, with the images it was sent, although an answer names
\* no image and may belong to a dialog that was given up, and whatever part of
\* the flash failed: both images are there as a whole, in the block tried first
\* unless an erase has timed out, and all of the flash is blank unless an erase
\* has failed without being noticed, or is done again for a late answer and fails
\* then.  The boot loader is still whole as long as it cannot have reached the
\* block where the application starts.
SuccessIsReal ==
    Succeeded =>
        /\ command = "burn" =>
               /\ Burnt(App, FirstApp, LastApp)
               /\ Reach(Ubl, FirstUbl, LastUbl) < FirstApp => Burnt(Ubl, FirstUbl, LastUbl)
        /\ command = "erase" =>
               \/ \A b \in Blocks : flash[b] = Blank
               \/ faults["unseen"] > 0
               \/ faults["slow"] > 0 /\ faults["erase"] + faults["torn"] > 0
        /\ command = "run" => target \in {[at |-> "running", part |-> "run", img |-> App]}
                              \/ faults["power"] > 0

\* The boot loader and the application stay apart (uartboot.c:295, 343): no
\* dialog that starts over, and no burning that had to move to later blocks
\* (nand.c:777-797), puts a page of one where the other may start, except that
\* the boot loader, when it takes several blocks, runs on from where it was moved
\* to.  A lost request and several late answers together can do more:
\* SerialLoader_proof says what keeps the two sides in step.
AreasApart ==
    \A b \in Blocks, p \in Pages :
        flash[b][p] \notin {Erased, Half} =>
            (IF flash[b][p].img = Ubl THEN b \in FirstUbl .. Reach(Ubl, FirstUbl, LastUbl)
             ELSE b >= FirstApp)

\* NAND_Copy (nandboot.c:34-155) starts an image only if it is there as a whole,
\* after any number of dialogs that were given up, of reads that failed and of
\* restarts, as long as no change to the flash has failed or was cut short.  When
\* one was, an image is started in part: its header is written before its data
\* (nand.c:811-844), and nothing marks its end.
Unharmed == \A k \in {"erase", "unseen", "write", "torn"} : faults[k] = 0
BootsWhole == Unharmed /\ target.at = "running" /\ target.part = "nand" => copy.whole

\* The dialog ends, however often requests are lost and parts of the flash
\* fail: the host and the target do not restart each other for ever
\* (DVFlasher.cs:1101-1195, uartboot.c:117).  An answer that is lost can leave
\* the host waiting, one late answer of the host's can set off restarts that do
\* not stop, and an image with a byte that is no S-record keeps the target
\* decoding for ever (util.c:113-188).
DialogEnds ==
    <>(~Talking \/ target.at \in {"crashed", "hung"}
         \/ \E k \in {"answer", "slow", "power", "torn"} : faults[k] > 0)
=============================================================================
