-------------------------- MODULE SerialLoader_proof --------------------------
(***************************************************************************)
(* What SerialLoader promises, for every number of faults.                 *)
(*                                                                         *)
(* The host and the boot loader name no image in an answer, so all depends *)
(* on their being in step.  Two arguments keep them so, each under one     *)
(* condition:                                                              *)
(*   - Alternate: when the host is never slow and the power stays on, at   *)
(*     most one request is under way, and none while an answer is; a lost  *)
(*     message leaves both silent, and the boot loader's time-out finds    *)
(*     the line empty.                                                     *)
(*   - Adjacent: when no request is lost, the requests under way, with the *)
(*     one the host sends next, are a stretch of its dialog, cut only by   *)
(*     starting over; however many answers it has mistaken.                *)
(* A lost request together with late answers breaks both, and then an      *)
(* image can reach the place of the other: that is what InStep excludes.   *)
(*                                                                         *)
(* Where the writer may be needs nothing of the line: an erase that times  *)
(* out, and nothing else, moves it by one block (Near).  Neither does what *)
(* is in the flash as long as no change to it fails: then each application *)
(* that has a header is whole, except the one being written (Intact).      *)
(***************************************************************************)
EXTENDS SerialLoader, SequenceTheorems, FiniteSetTheorems, TLAPS

\* The power stays on, and the host is not late.
OnTime == faults["slow"] = 0 /\ faults["power"] = 0 /\ faults["torn"] = 0
\* No request is lost, and none is altered.
NoneLost == faults["request"] = 0
InStep == NoneLost \/ OnTime

-----------------------------------------------------------------------------
(* Types.                                                                  *)

Parts == IF command = "burn" THEN {"ubl", "app"}
         ELSE IF command = "run" THEN {"run"} ELSE {}
ImageOf(part) == IF part = "ubl" THEN Ubl ELSE App
FirstOf(part) == IF part = "ubl" THEN FirstUbl ELSE FirstApp
LastOf(part) == IF part = "ubl" THEN LastUbl ELSE LastApp

Steps == IF command = "burn" THEN 10 ELSE IF command = "run" THEN 6 ELSE 2
Requests == {Cmd(command), Spoilt, Rest} \cup {Ack(i) : i \in Images} \cup {Bytes(i) : i \in Images}
Answers == {"BOOTPSP", "DONE"}
           \cup (IF command = "erase" THEN {} ELSE {"SENDAPP", "BEGIN"})
           \cup (IF command = "burn" THEN {"SENDUBL"} ELSE {})

TargetOK ==
    \/ /\ target \in [at : {"cmd", "erase", "reset", "crashed", "hung", "copying", "off"},
                      part : {"none"}, img : {"none"}]
       /\ Is("erase") => command = "erase"
    \/ target \in [at : {"ack"}, part : Parts, img : {"none"}]
    \/ target \in [at : {"bytes"}, part : Parts, img : Images]
    \/ target \in [at : {"decode"}, part : Parts, img : Images \cup {"spoilt"}]
    \/ target \in [at : {"burn"}, part : Parts \ {"run"}, img : Images]
    \/ target \in [at : {"end"}, part : {command}, img : Images \cup {"none"}]
    \/ target \in [at : {"running"}, part : {"run", "nand"}, img : Images \cup {"none"}]

\* A writer is at work only while the target burns or erases; it burns the
\* target's image in the target's part, within the device.
Underway ==
    /\ writer \in [at : {"erasing", "header", "data"}, img : {target.img},
                   block : FirstOf(target.part) .. LastOf(target.part),
                   last : {LastOf(target.part)}, n : Nat]
    /\ writer.block + NumBlks(writer.img) <= NumBlocks
    /\ WriterAt("erasing") => writer.n < NumBlks(writer.img)
    /\ WriterAt("header") => writer.n = 0
    /\ WriterAt("data") => writer.n \in 1 .. NumPage[writer.img]
WriterOK ==
    /\ ~Is("burn") /\ ~Is("erase") => writer = NoWriter
    /\ Is("erase") =>
           \/ writer = NoWriter
           \/ writer \in [at : {"passed", "failed"}]
           \/ writer \in [at : {"wiping"}, block : Blocks]
    /\ Is("burn") =>
           \/ writer \in [at : {"passed", "failed"}]
           \/ /\ writer \in [at : {"erase"}, img : {target.img}, block : Nat,
                             last : {LastOf(target.part)}, n : {0}]
              /\ writer.block >= FirstOf(target.part)
           \/ Underway

CopyOK ==
    \/ copy = NoCopy /\ ~Is("copying") /\ (Is("running") => target.part = "run")
    \/ /\ Is("copying") /\ copy \in [at : {"find"}, block : Nat, twice : BOOLEAN]
       /\ copy.block >= FirstApp
    \/ Is("copying") /\ copy \in [at : {"read"}, block : FirstApp .. LastApp, twice : BOOLEAN,
                                  img : Images, from : Blocks, n : Nat \ {0}, whole : BOOLEAN]
    \/ Is("copying") /\ copy \in [at : {"failed", "hung"}]
    \/ /\ Is("copying") \/ (Is("running") /\ target.part = "nand")
       /\ copy \in [at : {"booted"}, img : Images, whole : BOOLEAN]

TypeInv ==
    /\ flash \in [Blocks -> [Pages -> Contents]]
    /\ faults \in [FaultKinds -> Nat]
    /\ command \in Commands /\ host \in 0 .. Steps + 1
    /\ toTarget \in Seq(Requests) /\ toHost \in Seq(Answers)
    /\ used \in Int
    /\ TargetOK /\ WriterOK /\ CopyOK

-----------------------------------------------------------------------------
(* The line, when all is on time.                                          *)

\* The step of the dialog the host is at when the target has reached where it
\* is: at least Low, and High + 1 when every answer has arrived.
After == target.at \in {"reset", "copying", "running"}
Engaged == After \/ target.at \in {"ack", "bytes", "decode", "burn", "erase", "end"}
Low ==
    IF Is("ack") THEN (IF target.part = "app" THEN 4 ELSE 2)
    ELSE IF Is("bytes") THEN (IF target.part = "app" THEN 7 ELSE 3)
    ELSE IF command = "burn" THEN (IF target.part = "ubl" THEN 4 ELSE 8)
    ELSE IF command = "run" THEN 4 ELSE 2
High ==
    IF Is("cmd") THEN 1
    ELSE IF Is("ack") THEN (IF target.part = "app" THEN 6 ELSE 2)
    ELSE IF Is("bytes") THEN (IF target.part = "app" THEN 7 ELSE 3)
    ELSE IF Is("decode") THEN (IF target.part = "app" THEN 8 ELSE 4)
    ELSE IF Is("burn") THEN (IF target.part = "app" THEN 9 ELSE 5)
    ELSE IF After THEN Steps ELSE Steps - 1

\* The request the target waits for.
Wanted ==
    IF Is("cmd") THEN Cmd(command)
    ELSE IF Is("ack") THEN Ack(ImageOf(target.part)) ELSE Bytes(ImageOf(target.part))

Arrived ==
    \A i \in DOMAIN toHost : toHost[i] # "DONE" =>
        IF Is("cmd") THEN toHost[i] = "BOOTPSP" /\ i = Len(toHost)
        ELSE target.at \in {"ack", "bytes"} /\ toHost[i] # "BOOTPSP"

Alternate ==
    /\ ~Is("off")
    /\ toTarget # << >> =>
           /\ target.at \in {"cmd", "ack", "bytes"} /\ toHost = << >> /\ host = High + 1
           /\ Len(toTarget) = 1
           /\ toTarget[1] \in {Wanted, Rest} \/ (Is("bytes") /\ toTarget[1] = Spoilt)
    /\ Arrived
    /\ host = 1 => Is("cmd") /\ \A i \in DOMAIN toHost : toHost[i] = "BOOTPSP"
    /\ host = 0 => Is("cmd")
    /\ Engaged => Low <= host /\ host + Len(toHost) <= High + 1
    /\ Is("crashed") => toHost = << >> /\ host \in 2 .. Steps
    /\ Is("hung") => host > 1 /\ host + Len(toHost) <= Steps + 1

-----------------------------------------------------------------------------
(* The line, when no request is lost.                                      *)

\* What the host sends next, unless it starts over.
Upcoming ==
    IF command = "burn" /\ host = 2 THEN Ack(Ubl)
    ELSE IF command = "burn" /\ host = 3 THEN Bytes(Ubl)
    ELSE IF (command = "burn" /\ host \in 4 .. 6) \/ (command = "run" /\ host = 2) THEN Ack(App)
    ELSE IF (command = "burn" /\ host = 7) \/ (command = "run" /\ host = 3) THEN Bytes(App)
    ELSE Cmd(command)

Follows(m, next) ==
    \/ next = Cmd(command)
    \/ m = Cmd(command) /\ next = Ack(IF command = "burn" THEN Ubl ELSE App)
    \/ m = Ack(Ubl) /\ next = Bytes(Ubl)
    \/ m = Bytes(Ubl) /\ next = Ack(App)
    \/ m = Ack(App) /\ next = Bytes(App)

Coming(i) == IF i <= Len(toTarget) THEN toTarget[i] ELSE Upcoming

\* What the target will wait for next, or waits for.
Wants ==
    IF Is("ack") THEN Ack(ImageOf(target.part))
    ELSE IF Is("bytes") THEN Bytes(ImageOf(target.part)) ELSE Ack(App)
Waits ==
    \/ Is("ack") \/ Is("bytes")
    \/ target.part = "ubl" /\ (Is("burn") \/ (Is("decode") /\ target.img # "spoilt"))

Adjacent ==
    /\ \A i \in DOMAIN toTarget :
           IF toTarget[i] = Rest THEN i = 1 /\ Is("cmd")
           ELSE Follows(toTarget[i], Coming(i + 1))
    /\ Waits => Coming(1) \in {Cmd(command), Wants}

\* Either way the target burns and runs what it should.
Right ==
    /\ Is("decode") => target.img \in {"spoilt", ImageOf(target.part)}
    /\ Is("burn") => target.img = ImageOf(target.part)
    /\ (Is("end") \/ Is("running")) /\ target.part = "run" => target.img = App

-----------------------------------------------------------------------------
(* The flash.                                                              *)

HeaderAt(b) == b \in Blocks /\ \E img \in Images, n \in Blocks : flash[b][0] = Header(img, n)
NoHeaderIn(S) == \A b \in S : ~HeaderAt(b)

\* Each time-out has moved the writer by one block, except where it looks for a
\* start at which the image would be within the device.
Near ==
    Is("burn") /\ writer.at \in {"erase", "erasing", "header", "data"}
    /\ writer.block + NumBlks(writer.img) <= NumBlocks
        => writer.block <= FirstOf(target.part) + faults["erase"]

\* What has been written is there; and what has been erased is blank, unless
\* an erase has failed unseen.
Written ==
    /\ WriterAt("data") =>
           /\ flash[writer.block][0] = Header(writer.img, writer.block)
           /\ \A m \in 1 .. writer.n - 1 : LET q == At(writer.block, m) IN
                  flash[q[1]][q[2]] = Data(writer.img, m)
    /\ WriterAt("passed") /\ Is("burn") =>
           Burnt(target.img, FirstOf(target.part), LastOf(target.part))
    /\ WriterAt("wiping") /\ faults["unseen"] = 0 =>
           \A k \in 1 .. writer.block - 1 : flash[k] = Blank
    /\ WriterAt("passed") /\ Is("erase") /\ faults["unseen"] = 0 =>
           \A k \in Blocks : flash[k] = Blank

\* An application that has a header is there as a whole, unless it is being written.
Intact ==
    \A b \in Blocks :
        /\ flash[b][0] # Half
        /\ HeaderAt(b) /\ b >= FirstApp =>
               WholeAt(flash[b][0].img, b) \/ (WriterAt("data") /\ b = writer.block)

\* The writer begins where it should, and what it has not written yet is blank.
Clean ==
    LET b == writer.block
        blocks == b .. b + NumBlks(writer.img) - 1
    IN  /\ WriterAt("erasing") => \A k \in b .. b + writer.n - 1 : flash[k] = Blank
        /\ WriterAt("header") => \A k \in blocks : flash[k] = Blank
        /\ WriterAt("data") =>
               /\ NoHeaderIn(blocks \ {b})
               /\ \A m \in writer.n .. NumPage[writer.img] : LET q == At(b, m) IN
                      flash[q[1]][q[2]] = Erased

\* Copying finds what is there.
CopiedSoFar ==
    /\ copy.at = "read" =>
           /\ copy.from = copy.block /\ copy.whole /\ WholeAt(copy.img, copy.block)
    /\ copy.at = "booted" => copy.whole

-----------------------------------------------------------------------------
(* Success.                                                                *)

UblWhole == Reach(Ubl, FirstUbl, LastUbl) < FirstApp => Burnt(Ubl, FirstUbl, LastUbl)
Done ==
    /\ command = "burn" => Burnt(App, FirstApp, LastApp) /\ UblWhole
    /\ command = "erase" => (faults["unseen"] = 0 => \A b \in Blocks : flash[b] = Blank)
    /\ command # "run"

\* The last step of the dialog the host can reach with what is under way.
DueOf(h, answers) ==
    h + Len(answers) - (IF answers # << >> /\ answers[Len(answers)] = "BOOTPSP" THEN 1 ELSE 0)
Due == DueOf(host, toHost)

Progress ==
    /\ target.part = "app" => UblWhole
    /\ Is("end") /\ command # "run" => Done
    /\ After => Done \/ (command = "run" /\ Is("running") /\ target.part = "run")
    /\ Is("cmd") => Done \/ Due <= Steps
    /\ Is("hung") => Done \/ host + Len(toHost) <= Steps

-----------------------------------------------------------------------------
(* The dialogs, step by step.                                              *)

LEMMA Joined ==
    ASSUME NEW S, NEW s \in Seq(S), NEW t \in Seq(S), NEW u \in Seq(S)
    PROVE  /\ Len(s \o t \o u) = Len(s) + Len(t) + Len(u)
           /\ DOMAIN (s \o t \o u) = 1 .. Len(s) + Len(t) + Len(u)
           /\ \A i \in 1 .. Len(s) + Len(t) + Len(u) :
                  (s \o t \o u)[i] = IF i <= Len(s) THEN s[i]
                                     ELSE IF i <= Len(s) + Len(t) THEN t[i - Len(s)]
                                     ELSE u[i - Len(s) - Len(t)]
<1>1. /\ s \o t \in Seq(S) /\ Len(s \o t) = Len(s) + Len(t)
      /\ \A i \in 1 .. Len(s) + Len(t) :
             (s \o t)[i] = IF i <= Len(s) THEN s[i] ELSE t[i - Len(s)]
    BY ConcatProperties
<1>2. /\ s \o t \o u \in Seq(S) /\ Len(s \o t \o u) = Len(s \o t) + Len(u)
      /\ \A i \in 1 .. Len(s \o t) + Len(u) :
             (s \o t \o u)[i] = IF i <= Len(s \o t) THEN (s \o t)[i] ELSE u[i - Len(s \o t)]
    BY <1>1, ConcatProperties
<1>3. Len(s) \in Nat /\ Len(t) \in Nat /\ Len(u) \in Nat
    BY LenProperties
<1> QED
    BY <1>1, <1>2, <1>3, LenProperties

LEMMA DialogIs ==
    ASSUME command \in Commands
    PROVE  /\ Len(Dialog) = Steps /\ DOMAIN Dialog = 1 .. Steps
           /\ Dialog[1] = Wait("BOOTPSP", Cmd(command))
           /\ Dialog[Steps] = Wait("DONE", None)
           /\ command = "burn" =>
                  /\ Dialog[2] = Wait("SENDUBL", Ack(Ubl)) /\ Dialog[3] = Wait("BEGIN", Bytes(Ubl))
                  /\ Dialog[4] = Wait("DONE", None) /\ Dialog[5] = Wait("DONE", None)
                  /\ Dialog[6] = Wait("SENDAPP", Ack(App)) /\ Dialog[7] = Wait("BEGIN", Bytes(App))
                  /\ Dialog[8] = Wait("DONE", None) /\ Dialog[9] = Wait("DONE", None)
           /\ command = "run" =>
                  /\ Dialog[2] = Wait("SENDAPP", Ack(App)) /\ Dialog[3] = Wait("BEGIN", Bytes(App))
                  /\ Dialog[4] = Wait("DONE", None) /\ Dialog[5] = Wait("DONE", None)
<1> DEFINE W == {Wait("BOOTPSP", Cmd(command)), Wait("SENDUBL", Ack(Ubl)), Wait("SENDAPP", Ack(App)),
                 Wait("BEGIN", Bytes(Ubl)), Wait("BEGIN", Bytes(App)), Wait("DONE", None)}
           first == <<Wait("BOOTPSP", Cmd(command))>>
           last == <<Wait("DONE", None)>>
           ubl == <<Wait("SENDUBL", Ack(Ubl)), Wait("BEGIN", Bytes(Ubl)),
                    Wait("DONE", None), Wait("DONE", None)>>
           app == <<Wait("SENDAPP", Ack(App)), Wait("BEGIN", Bytes(App)),
                    Wait("DONE", None), Wait("DONE", None)>>
<1>1. first \in Seq(W) /\ last \in Seq(W) /\ ubl \in Seq(W) /\ app \in Seq(W)
    OBVIOUS
<1>2. /\ Len(first) = 1 /\ first[1] = Wait("BOOTPSP", Cmd(command))
      /\ Len(last) = 1 /\ last[1] = Wait("DONE", None)
    OBVIOUS
<1>3. /\ Len(ubl) = 4 /\ ubl[1] = Wait("SENDUBL", Ack(Ubl)) /\ ubl[2] = Wait("BEGIN", Bytes(Ubl))
      /\ ubl[3] = Wait("DONE", None) /\ ubl[4] = Wait("DONE", None)
    OBVIOUS
<1>4. /\ Len(app) = 4 /\ app[1] = Wait("SENDAPP", Ack(App)) /\ app[2] = Wait("BEGIN", Bytes(App))
      /\ app[3] = Wait("DONE", None) /\ app[4] = Wait("DONE", None)
    OBVIOUS
<1>5. command \in {"burn", "run", "erase"}
    BY LoaderAssumption
<1> DEFINE both == ubl \o app
<1>6. /\ command = "burn" => Dialog = first \o both \o last
      /\ command = "run" => Dialog = first \o app \o last
      /\ command = "erase" => Dialog = first \o << >> \o last
    BY DEF Dialog, Transmit
<1>a. /\ both \in Seq(W) /\ Len(both) = Len(ubl) + Len(app)
      /\ \A i \in 1 .. Len(ubl) + Len(app) : both[i] = IF i <= Len(ubl) THEN ubl[i] ELSE app[i - Len(ubl)]
  <2> HIDE DEF W, ubl, app
  <2> QED
    BY <1>1, ConcatProperties
<1> HIDE DEF W, first, last, ubl, app, both
<1>7. CASE command = "burn"
  <2>0. Dialog = first \o both \o last /\ both \in Seq(W)
    BY <1>6, <1>7, <1>a
  <2>1. /\ Len(Dialog) = Len(first) + Len(both) + Len(last)
        /\ DOMAIN Dialog = 1 .. Len(first) + Len(both) + Len(last)
        /\ \A i \in 1 .. Len(first) + Len(both) + Len(last) :
               Dialog[i] = IF i <= Len(first) THEN first[i]
                           ELSE IF i <= Len(first) + Len(both) THEN both[i - Len(first)]
                           ELSE last[i - Len(first) - Len(both)]
    BY <1>1, <2>0, Joined
  <2>2. Len(first) = 1 /\ Len(both) = 8 /\ Len(last) = 1 /\ Len(ubl) = 4 /\ Len(app) = 4
    BY <1>2, <1>3, <1>4, <1>a
  <2>3. /\ both[1] = ubl[1] /\ both[2] = ubl[2] /\ both[3] = ubl[3] /\ both[4] = ubl[4]
        /\ both[5] = app[1] /\ both[6] = app[2] /\ both[7] = app[3] /\ both[8] = app[4]
    BY <1>a, <2>2
  <2>4. Len(Dialog) = 10 /\ DOMAIN Dialog = 1 .. 10
    BY <2>1, <2>2
  <2>5. /\ Dialog[1] = first[1] /\ Dialog[2] = both[1] /\ Dialog[3] = both[2] /\ Dialog[4] = both[3]
        /\ Dialog[5] = both[4] /\ Dialog[6] = both[5] /\ Dialog[7] = both[6] /\ Dialog[8] = both[7]
        /\ Dialog[9] = both[8] /\ Dialog[10] = last[1]
    BY <2>1, <2>2
  <2> QED
    BY <1>2, <1>3, <1>4, <1>7, <2>3, <2>4, <2>5 DEF Steps
<1>8. CASE command = "run"
  <2>1. /\ Len(Dialog) = Len(first) + Len(app) + Len(last)
        /\ DOMAIN Dialog = 1 .. Len(first) + Len(app) + Len(last)
        /\ \A i \in 1 .. Len(first) + Len(app) + Len(last) :
               Dialog[i] = IF i <= Len(first) THEN first[i]
                           ELSE IF i <= Len(first) + Len(app) THEN app[i - Len(first)]
                           ELSE last[i - Len(first) - Len(app)]
    BY <1>1, <1>6, <1>8, Joined
  <2>2. Len(first) = 1 /\ Len(app) = 4 /\ Len(last) = 1
    BY <1>2, <1>4
  <2>3. Len(Dialog) = 6 /\ DOMAIN Dialog = 1 .. 6
    BY <2>1, <2>2
  <2>4. /\ Dialog[1] = first[1] /\ Dialog[2] = app[1] /\ Dialog[3] = app[2] /\ Dialog[4] = app[3]
        /\ Dialog[5] = app[4] /\ Dialog[6] = last[1]
    BY <2>1, <2>2
  <2> QED
    BY <1>2, <1>4, <1>8, <2>3, <2>4 DEF Steps
<1>9. CASE command = "erase"
  <2> DEFINE no == << >>
  <2>1. no \in Seq(W) /\ Len(no) = 0
    BY EmptySeq
  <2>2. Dialog = first \o no \o last
    BY <1>6, <1>9
  <2> HIDE DEF no
  <2>3. /\ Len(Dialog) = Len(first) + Len(no) + Len(last)
        /\ DOMAIN Dialog = 1 .. Len(first) + Len(no) + Len(last)
        /\ \A i \in 1 .. Len(first) + Len(no) + Len(last) :
               Dialog[i] = IF i <= Len(first) THEN first[i]
                           ELSE IF i <= Len(first) + Len(no) THEN no[i - Len(first)]
                           ELSE last[i - Len(first) - Len(no)]
    BY <1>1, <2>1, <2>2, Joined
  <2>4. Len(Dialog) = 2 /\ DOMAIN Dialog = 1 .. 2 /\ Dialog[1] = first[1] /\ Dialog[2] = last[1]
    BY <1>2, <2>1, <2>3
  <2> QED
    BY <1>2, <1>9, <2>4 DEF Steps
<1> QED
    BY <1>5, <1>7, <1>8, <1>9

-----------------------------------------------------------------------------
(* What the line's operators do to a sequence.                             *)

LEMMA TailFacts ==
    ASSUME NEW S, NEW s \in Seq(S), s # << >>
    PROVE  /\ Len(s) \in Nat \ {0} /\ DOMAIN s = 1 .. Len(s) /\ Head(s) = s[1] /\ s[1] \in S
           /\ Tail(s) \in Seq(S) /\ Len(Tail(s)) = Len(s) - 1 /\ DOMAIN Tail(s) = 1 .. Len(s) - 1
           /\ \A i \in 1 .. Len(s) - 1 : Tail(s)[i] = s[i + 1]
<1>1. Len(s) \in Nat \ {0} /\ DOMAIN s = 1 .. Len(s)
    BY EmptySeq, LenProperties
<1>2. /\ Head(s) \in S /\ Tail(s) \in Seq(S) /\ Len(Tail(s)) = Len(s) - 1
      /\ \A i \in 1 .. Len(Tail(s)) : Tail(s)[i] = s[i + 1]
    BY HeadTailProperties
<1>3. DOMAIN Tail(s) = 1 .. Len(Tail(s))
    BY <1>2, LenProperties
<1>4. Head(s) = s[1]
    BY <1>1
<1> QED
    BY <1>1, <1>2, <1>3, <1>4

LEMMA SayFacts ==
    ASSUME NEW S, NEW s \in Seq(S), NEW e \in S
    PROVE  /\ Len(s) \in Nat /\ DOMAIN s = 1 .. Len(s)
           /\ s \o <<e>> \in Seq(S) /\ s \o <<e>> # << >> /\ Len(s \o <<e>>) = Len(s) + 1
           /\ DOMAIN (s \o <<e>>) = 1 .. Len(s) + 1
           /\ \A i \in 1 .. Len(s) : (s \o <<e>>)[i] = s[i]
           /\ (s \o <<e>>)[Len(s) + 1] = e
           /\ Append(s, e) = s \o <<e>>
<1>1. Append(s, e) = s \o <<e>>
    BY AppendIsConcat
<1>2. /\ Append(s, e) \in Seq(S) /\ Append(s, e) # << >> /\ Len(Append(s, e)) = Len(s) + 1
      /\ \A i \in 1 .. Len(s) : Append(s, e)[i] = s[i]
      /\ Append(s, e)[Len(s) + 1] = e
    BY AppendProperties
<1>3. DOMAIN Append(s, e) = 1 .. Len(Append(s, e)) /\ Len(s) \in Nat /\ DOMAIN s = 1 .. Len(s)
    BY <1>2, LenProperties
<1> QED
    BY <1>1, <1>2, <1>3

LEMMA RemoveFacts ==
    ASSUME NEW S, NEW s \in Seq(S), NEW i \in DOMAIN s
    PROVE  /\ Len(s) \in Nat \ {0} /\ DOMAIN s = 1 .. Len(s)
           /\ RemoveAt(s, i) \in Seq(S) /\ Len(RemoveAt(s, i)) = Len(s) - 1
           /\ DOMAIN RemoveAt(s, i) = 1 .. Len(s) - 1
           /\ \A j \in 1 .. Len(s) - 1 : RemoveAt(s, i)[j] = IF j < i THEN s[j] ELSE s[j + 1]
<1>1. Len(s) \in Nat /\ DOMAIN s = 1 .. Len(s) /\ s \in [1 .. Len(s) -> S]
    BY LenProperties
<1>2. i \in Int /\ Len(s) \in Int /\ i - 1 \in Int /\ i + 1 \in Int
      /\ (\A j \in 1 .. i - 1 : s[j] \in S) /\ (\A j \in i + 1 .. Len(s) : s[j] \in S)
    BY <1>1
<1> DEFINE a == SubSeq(s, 1, i - 1)
           b == SubSeq(s, i + 1, Len(s))
<1>3. /\ a \in Seq(S) /\ Len(a) = IF 1 <= i - 1 THEN i - 1 - 1 + 1 ELSE 0
      /\ \A j \in 1 .. i - 1 - 1 + 1 : a[j] = s[1 + j - 1]
    BY <1>2, SubSeqProperties
<1>4. /\ b \in Seq(S) /\ Len(b) = IF i + 1 <= Len(s) THEN Len(s) - (i + 1) + 1 ELSE 0
      /\ \A j \in 1 .. Len(s) - (i + 1) + 1 : b[j] = s[i + 1 + j - 1]
    BY <1>2, SubSeqProperties
<1> HIDE DEF a, b
<1>5. /\ a \o b \in Seq(S) /\ Len(a \o b) = Len(a) + Len(b)
      /\ \A j \in 1 .. Len(a) + Len(b) : (a \o b)[j] = IF j <= Len(a) THEN a[j] ELSE b[j - Len(a)]
    BY <1>3, <1>4, ConcatProperties
<1>6. RemoveAt(s, i) = a \o b
    BY DEF RemoveAt, a, b
<1>7. Len(a) = i - 1 /\ Len(b) = Len(s) - i
    BY <1>1, <1>3, <1>4
<1>8. \A j \in 1 .. i - 1 : a[j] = s[j]
  <2> SUFFICES ASSUME NEW j \in 1 .. i - 1 PROVE a[j] = s[j]
    OBVIOUS
  <2>1. j \in 1 .. i - 1 - 1 + 1 /\ 1 + j - 1 = j
    BY <1>1
  <2> QED
    BY <1>3, <2>1
<1>b. \A j \in i .. Len(s) - 1 : b[j - (i - 1)] = s[j + 1]
  <2> SUFFICES ASSUME NEW j \in i .. Len(s) - 1 PROVE b[j - (i - 1)] = s[j + 1]
    OBVIOUS
  <2>1. j - (i - 1) \in 1 .. Len(s) - (i + 1) + 1 /\ i + 1 + (j - (i - 1)) - 1 = j + 1
    BY <1>1
  <2> QED
    BY <1>4, <2>1
<1>9. \A j \in 1 .. Len(s) - 1 : (a \o b)[j] = IF j < i THEN s[j] ELSE s[j + 1]
  <2> SUFFICES ASSUME NEW j \in 1 .. Len(s) - 1
               PROVE  (a \o b)[j] = IF j < i THEN s[j] ELSE s[j + 1]
    OBVIOUS
  <2>1. (a \o b)[j] = IF j <= i - 1 THEN a[j] ELSE b[j - (i - 1)]
    BY <1>1, <1>5, <1>7
  <2>2. CASE j < i
    BY <1>1, <1>8, <2>1, <2>2
  <2>3. CASE ~(j < i)
    BY <1>1, <1>b, <2>1, <2>3
  <2> QED
    BY <2>2, <2>3
<1>10. DOMAIN (a \o b) = 1 .. Len(a \o b) /\ Len(a \o b) = Len(s) - 1
    BY <1>1, <1>5, <1>7, LenProperties
<1>11. Len(s) \in Nat \ {0}
    BY <1>1
<1>12. RemoveAt(s, i) \in Seq(S)
    BY <1>5, <1>6
<1>13. DOMAIN RemoveAt(s, i) = 1 .. Len(s) - 1 /\ Len(RemoveAt(s, i)) = Len(s) - 1
    BY <1>6, <1>10
<1>14. \A j \in 1 .. Len(s) - 1 : RemoveAt(s, i)[j] = IF j < i THEN s[j] ELSE s[j + 1]
    BY <1>6, <1>9
<1> QED
    BY <1>1, <1>11, <1>12, <1>13, <1>14

LEMMA RestFacts ==
    ASSUME NEW S, NEW s \in Seq(S), s # << >>, NEW e \in S
    PROVE  /\ <<e>> \o Tail(s) \in Seq(S) /\ Len(<<e>> \o Tail(s)) = Len(s)
           /\ DOMAIN (<<e>> \o Tail(s)) = 1 .. Len(s)
           /\ (<<e>> \o Tail(s))[1] = e
           /\ \A i \in 2 .. Len(s) : (<<e>> \o Tail(s))[i] = s[i]
<1> DEFINE t == Tail(s)
           u == <<e>>
<1>1. /\ t \in Seq(S) /\ Len(t) = Len(s) - 1 /\ Len(s) \in Nat \ {0}
      /\ \A i \in 1 .. Len(s) - 1 : t[i] = s[i + 1]
    BY TailFacts
<1>2. u \in Seq(S) /\ Len(u) = 1 /\ u[1] = e
    OBVIOUS
<1> HIDE DEF t, u
<1>3. /\ u \o t \in Seq(S) /\ Len(u \o t) = Len(u) + Len(t)
      /\ \A i \in 1 .. Len(u) + Len(t) : (u \o t)[i] = IF i <= Len(u) THEN u[i] ELSE t[i - Len(u)]
    BY <1>1, <1>2, ConcatProperties
<1>4. DOMAIN (u \o t) = 1 .. Len(u \o t)
    BY <1>3, LenProperties
<1>5. Len(u \o t) = Len(s)
    BY <1>1, <1>2, <1>3
<1>6. (u \o t)[1] = e
    BY <1>1, <1>2, <1>3
<1>7. \A i \in 2 .. Len(s) : (u \o t)[i] = s[i]
    BY <1>1, <1>2, <1>3
<1> QED
    BY <1>3, <1>4, <1>5, <1>6, <1>7 DEF t, u

-----------------------------------------------------------------------------
(* Types.                                                                  *)

LEMMA RequestKinds ==
    ASSUME NEW m \in Requests
    PROVE  /\ m # None /\ m.kind \in {"CMD", "ACK", "bytes", "rest"}
           /\ m.kind = "CMD" => m = Cmd(command) /\ m.img = command
           /\ m.kind = "ACK" => m.img \in Images /\ m = Ack(m.img)
           /\ m.kind = "bytes" => m.img \in Images \cup {"spoilt"} /\ m = Bytes(m.img)
           /\ m.kind = "rest" => m = Rest
           /\ m = Rest => m.kind = "rest"
BY DEF Requests, Cmd, Ack, Bytes, Spoilt, Rest, None

\* Where the host sends something.
Sending ==
    \/ host = 1 \/ (command # "erase" /\ host \in {2, 3})
    \/ command = "burn" /\ host \in {6, 7}

LEMMA HostSends ==
    ASSUME command \in Commands, host \in 1 .. Steps
    PROVE  /\ host \in DOMAIN Dialog
           /\ Dialog[host].answer \in Answers
           /\ Dialog[host].send = IF Sending THEN Upcoming ELSE None
           /\ Upcoming \in Requests /\ Upcoming # None
           /\ Sending => Dialog[host].answer # "DONE"
           /\ ~Sending => Dialog[host].answer = "DONE"
           /\ Dialog[host].answer = "BOOTPSP" => host = 1
<1>1. /\ Len(Dialog) = Steps /\ DOMAIN Dialog = 1 .. Steps
      /\ Dialog[1] = Wait("BOOTPSP", Cmd(command))
      /\ Dialog[Steps] = Wait("DONE", None)
      /\ command = "burn" =>
             /\ Dialog[2] = Wait("SENDUBL", Ack(Ubl)) /\ Dialog[3] = Wait("BEGIN", Bytes(Ubl))
             /\ Dialog[4] = Wait("DONE", None) /\ Dialog[5] = Wait("DONE", None)
             /\ Dialog[6] = Wait("SENDAPP", Ack(App)) /\ Dialog[7] = Wait("BEGIN", Bytes(App))
             /\ Dialog[8] = Wait("DONE", None) /\ Dialog[9] = Wait("DONE", None)
      /\ command = "run" =>
             /\ Dialog[2] = Wait("SENDAPP", Ack(App)) /\ Dialog[3] = Wait("BEGIN", Bytes(App))
             /\ Dialog[4] = Wait("DONE", None) /\ Dialog[5] = Wait("DONE", None)
    BY DialogIs
<1>2. {Ubl, App} \subseteq Images /\ command \in {"burn", "run", "erase"}
    BY LoaderAssumption
<1>3. Upcoming \in Requests /\ Upcoming # None
    BY <1>2 DEF Upcoming, Requests, Cmd, Ack, Bytes, None
<1> DEFINE D(i) == /\ Dialog[i].answer \in Answers
                   /\ host = i => Dialog[i].send = IF Sending THEN Upcoming ELSE None
                   /\ host = i => (Sending => Dialog[i].answer # "DONE")
                   /\ host = i => (~Sending => Dialog[i].answer = "DONE")
                   /\ Dialog[i].answer = "BOOTPSP" => i = 1
<1>4. CASE command = "burn"
  <2>1. D(1) /\ D(2) /\ D(3)
    BY <1>1, <1>4 DEF Wait, Answers, Sending, Upcoming
  <2>2. D(4) /\ D(5) /\ D(6) /\ D(7)
    BY <1>1, <1>4 DEF Wait, Answers, Sending, Upcoming
  <2>3. D(8) /\ D(9) /\ D(10)
    BY <1>1, <1>4 DEF Wait, Answers, Sending, Upcoming, Steps
  <2>4. host \in {1, 2, 3, 4, 5, 6, 7, 8, 9, 10}
    BY <1>4 DEF Steps
  <2> QED
    BY <1>1, <1>3, <2>1, <2>2, <2>3, <2>4
<1>5. CASE command = "run"
  <2>1. D(1) /\ D(2) /\ D(3) /\ D(4) /\ D(5) /\ D(6)
    BY <1>1, <1>5 DEF Wait, Answers, Sending, Upcoming, Steps
  <2>2. host \in {1, 2, 3, 4, 5, 6}
    BY <1>5 DEF Steps
  <2> QED
    BY <1>1, <1>3, <2>1, <2>2
<1>6. CASE command = "erase"
  <2>1. D(1) /\ D(2)
    BY <1>1, <1>6 DEF Wait, Answers, Sending, Upcoming, Steps
  <2>2. host \in {1, 2}
    BY <1>6 DEF Steps
  <2> QED
    BY <1>1, <1>3, <2>1, <2>2
<1> QED
    BY <1>2, <1>4, <1>5, <1>6

\* What an answer makes the host do.
LEMMA AnsweredDoes ==
    ASSUME TypeInv, Answered
    PROVE  /\ host \in 1 .. Steps /\ toHost # << >> /\ host' = host + 1
           /\ toHost' = Tail(toHost)
           /\ Upcoming \in Requests
           /\ toTarget' = IF Sending THEN toTarget \o <<Upcoming>> ELSE toTarget
           /\ ~Sending => toHost[1] = "DONE"
           /\ Sending => toHost[1] # "DONE"
           /\ toHost[1] = "BOOTPSP" => host = 1
           /\ UNCHANGED <<flashVars, faults, command, target, used>>
<1>1. /\ host \in 1 .. Steps /\ toHost # << >> /\ Head(toHost) = Dialog[host].answer
      /\ Deliver(Dialog[host].send)
    BY DialogIs DEF Answered, Talking, TypeInv
<1>2. Dialog[host].send = (IF Sending THEN Upcoming ELSE None) /\ Upcoming \in Requests
      /\ Upcoming # None
    BY <1>1, HostSends DEF TypeInv
<1>3. Append(toTarget, Upcoming) = toTarget \o <<Upcoming>>
    BY <1>2, SayFacts DEF TypeInv
<1>4. Head(toHost) = toHost[1]
    BY <1>1, TailFacts DEF TypeInv
<1>5. toTarget' = IF Sending THEN toTarget \o <<Upcoming>> ELSE toTarget
    BY <1>1, <1>2, <1>3 DEF Deliver
<1>6. /\ Sending => Dialog[host].answer # "DONE"
      /\ ~Sending => Dialog[host].answer = "DONE"
      /\ Dialog[host].answer = "BOOTPSP" => host = 1
    BY <1>1, HostSends DEF TypeInv
<1> QED
    BY <1>1, <1>2, <1>4, <1>5, <1>6 DEF Answered

LEMMA SameTypes ==
    ASSUME TypeInv, UNCHANGED command
    PROVE  Steps' = Steps /\ Requests' = Requests /\ Answers' = Answers /\ Parts' = Parts
BY DEF Steps, Requests, Answers, Parts, Cmd

\* What the host does leaves the target as it is.
LEMMA HostTypes ==
    ASSUME TypeInv, HostStep
    PROVE  TypeInv'
<1>1. UNCHANGED <<flash, writer, copy, faults, command, target, used>>
    BY DEF HostStep, Answered, Skip, StartOver, flashVars
<1>2. TargetOK' /\ WriterOK' /\ CopyOK'
    BY <1>1 DEF TypeInv, TargetOK, WriterOK, Underway, CopyOK, Is, WriterAt, NoWriter, NoCopy, Parts,
                NumBlks, FirstOf, LastOf
<1>3. Steps' = Steps /\ Requests' = Requests /\ Answers' = Answers /\ Steps \in Nat /\ Steps > 1
    BY <1>1, SameTypes DEF Steps
<1>4. host' \in 0 .. Steps + 1 /\ toTarget' \in Seq(Requests) /\ toHost' \in Seq(Answers)
  <2>1. CASE Answered
    <3>1. /\ host \in 1 .. Steps /\ toHost # << >> /\ host' = host + 1 /\ toHost' = Tail(toHost)
          /\ Upcoming \in Requests
          /\ toTarget' = IF Sending THEN toTarget \o <<Upcoming>> ELSE toTarget
      BY <2>1, AnsweredDoes
    <3>2. toTarget \o <<Upcoming>> \in Seq(Requests)
      BY <3>1, SayFacts DEF TypeInv
    <3>3. Tail(toHost) \in Seq(Answers)
      BY <3>1, TailFacts DEF TypeInv
    <3> QED
      BY <1>3, <3>1, <3>2, <3>3 DEF TypeInv
  <2>2. CASE Skip
    <3>1. Tail(toHost) \in Seq(Answers)
      BY <2>2, TailFacts DEF TypeInv, Skip
    <3> QED
      BY <2>2, <3>1 DEF Skip, TypeInv
  <2>3. CASE StartOver
    <3>1. /\ Tail(toHost) \in Seq(Answers) /\ Len(toHost) \in Nat \ {0}
          /\ toHost[Len(toHost)] \in Answers
      BY <2>3, TailFacts, ElementOfSeq DEF TypeInv, StartOver
    <3>2. << >> \in Seq(Answers) /\ <<Last(toHost)>> \in Seq(Answers)
      BY <3>1 DEF Last
    <3>3. host' \in {0, 1} /\ UNCHANGED toTarget
      BY <2>3 DEF StartOver, GaveUp
    <3>4. toHost' \in {Tail(toHost), << >>, <<Last(toHost)>>}
      BY <2>3 DEF StartOver
    <3>5. toHost' \in Seq(Answers)
      BY <3>1, <3>2, <3>4
    <3> QED
      BY <1>3, <3>3, <3>5 DEF TypeInv
  <2> QED
    BY <2>1, <2>2, <2>3 DEF HostStep
<1> QED
    BY <1>1, <1>2, <1>3, <1>4 DEF TypeInv

-----------------------------------------------------------------------------
(* Where the pages of an image are.                                        *)

LEMMA DivMod ==
    ASSUME NEW n \in Nat, NEW d \in Nat \ {0}
    PROVE  /\ n \div d \in Nat /\ n % d \in 0 .. d - 1
           /\ n = d * (n \div d) + (n % d)
<1>1. n \div d \in Int
    OBVIOUS
<1>2. n \div d >= 0
    OBVIOUS
<1>3. n % d \in 0 .. d - 1
    OBVIOUS
<1>4. n = d * (n \div d) + (n % d)
    OBVIOUS
<1> QED
    BY <1>1, <1>2, <1>3, <1>4

LEMMA Products ==
    ASSUME NEW x \in Int, NEW y \in Int, NEW d \in Nat \ {0}, x < y
    PROVE  d * x + d <= d * y /\ d * x \in Int /\ d * y \in Int
OBVIOUS

LEMMA DivGrows ==
    ASSUME NEW m \in Nat, NEW n \in Nat, NEW d \in Nat \ {0}, m <= n
    PROVE  m \div d <= n \div d
<1> DEFINE x == m \div d
           y == n \div d
           r == m % d
           s == n % d
<1>1. /\ x \in Nat /\ y \in Nat /\ r \in 0 .. d - 1 /\ s \in 0 .. d - 1
      /\ m = d * x + r /\ n = d * y + s
    BY DivMod
<1> HIDE DEF x, y, r, s
<1>2. CASE y < x
  <2>1. d * y + d <= d * x /\ d * y \in Int /\ d * x \in Int
    BY <1>1, <1>2, Products
  <2> DEFINE dx == d * x
             dy == d * y
  <2>2. dy + d <= dx /\ dx \in Int /\ dy \in Int /\ m = dx + r /\ n = dy + s
    BY <1>1, <2>1
  <2> HIDE DEF dx, dy
  <2> QED
    BY <1>1, <2>2
<1> QED
    BY <1>1, <1>2 DEF x, y

LEMMA DivSmall ==
    ASSUME NEW n \in Nat, NEW d \in Nat \ {0}, n < d
    PROVE  n \div d = 0 /\ n % d = n
OBVIOUS

LEMMA AtFacts ==
    ASSUME NEW img \in Images, NEW b \in Int, NEW n \in 1 .. NumPage[img]
    PROVE  /\ NumPage[img] \in Nat \ {0} /\ n \in Nat \ {0} /\ PagesPerBlock \in Nat \ {0}
           /\ NumBlks(img) \in Nat \ {0}
           /\ At(b, n)[1] \in b .. b + NumBlks(img) - 1
           /\ At(b, n)[2] \in Pages
           /\ At(b, n)[1] = b => At(b, n)[2] # 0
           /\ NumPage[img] < PagesPerBlock => At(b, n)[1] = b
<1>1. NumPage[img] \in Nat \ {0} /\ n \in Nat \ {0} /\ PagesPerBlock \in Nat \ {0}
    BY DeviceAssumption
<1>2. /\ n \div PagesPerBlock \in Nat /\ n % PagesPerBlock \in 0 .. PagesPerBlock - 1
      /\ n = PagesPerBlock * (n \div PagesPerBlock) + (n % PagesPerBlock)
      /\ NumPage[img] \div PagesPerBlock \in Nat
    BY <1>1, DivMod
<1>3. n \div PagesPerBlock <= NumPage[img] \div PagesPerBlock
    BY <1>1, DivGrows
<1>4. n \div PagesPerBlock = 0 => n % PagesPerBlock = n
    BY <1>1, <1>2
<1>5. NumPage[img] < PagesPerBlock => n \div PagesPerBlock = 0
    BY <1>1, DivSmall
<1> DEFINE k == n \div PagesPerBlock
           l == NumPage[img] \div PagesPerBlock
<1>6. k \in Nat /\ l \in Nat /\ k <= l
    BY <1>2, <1>3
<1> HIDE DEF k, l
<1>7. At(b, n)[1] = b + k /\ At(b, n)[2] = n % PagesPerBlock /\ NumBlks(img) = l + 1
    BY DEF At, NumBlks, k, l
<1> QED
    BY <1>1, <1>2, <1>4, <1>5, <1>6, <1>7 DEF Pages, k

\* No two pages of an image are in one place, and a place determines the page.
LEMMA AtInjective ==
    ASSUME NEW b \in Int, NEW m \in Nat, NEW n \in Nat, At(b, m) = At(b, n)
    PROVE  m = n
<1>1. PagesPerBlock \in Nat \ {0}
    BY DeviceAssumption
<1> DEFINE k == m \div PagesPerBlock
           l == n \div PagesPerBlock
<1>2. /\ k \in Nat /\ m = PagesPerBlock * k + (m % PagesPerBlock)
      /\ l \in Nat /\ n = PagesPerBlock * l + (n % PagesPerBlock)
    BY <1>1, DivMod
<1>3. b + k = b + l /\ m % PagesPerBlock = n % PagesPerBlock
    BY DEF At
<1> HIDE DEF k, l
<1>4. k = l
    BY <1>2, <1>3
<1> QED
    BY <1>2, <1>3, <1>4

LEMMA NumBlksType ==
    ASSUME NEW img \in Images
    PROVE  NumBlks(img) \in Nat \ {0} /\ NumPage[img] \in Nat \ {0}
<1>1. NumPage[img] \in Nat \ {0} /\ PagesPerBlock \in Nat \ {0}
    BY DeviceAssumption
<1>2. NumPage[img] \div PagesPerBlock \in Nat
    BY <1>1, DivMod
<1> QED
    BY <1>1, <1>2 DEF NumBlks

-----------------------------------------------------------------------------
LEMMA AnswerTypes ==
    ASSUME TypeInv, NEW e \in Answers
    PROVE  toHost \o <<e>> \in Seq(Answers)
BY SayFacts DEF TypeInv

\* A step that leaves the flash and its operations alone, with the target
\* neither burning nor starting.
LEMMA TypesKept ==
    ASSUME TypeInv, UNCHANGED <<flash, writer, copy, faults, command, host>>,
           target.at \notin {"burn", "erase", "copying", "running"},
           target'.at \notin {"burn", "copying", "running"},
           TargetOK', used' \in Int,
           toTarget' \in Seq(Requests), toHost' \in Seq(Answers)
    PROVE  TypeInv'
<1>1. Steps' = Steps /\ Requests' = Requests /\ Answers' = Answers
    BY SameTypes
<1>2. writer = NoWriter /\ copy = NoCopy
    BY DEF TypeInv, WriterOK, CopyOK, Is
<1>3. WriterOK' /\ CopyOK'
    BY <1>2 DEF WriterOK, CopyOK, Is, NoWriter, NoCopy
<1> QED
    BY <1>1, <1>3 DEF TypeInv

LEMMA TryAgainTypes ==
    ASSUME TypeInv, UartBoot
    PROVE  TargetOK' /\ target'.at = "cmd"
BY DEF UartBoot, Become, TargetOK, Is

LEMMA GetCmdTypes ==
    ASSUME TypeInv, GetCmd
    PROVE  TypeInv'
<1> DEFINE m == Head(toTarget)
<1>1. UNCHANGED <<flash, writer, copy, faults, command, host, used>> /\ Is("cmd") /\ toTarget # << >>
    BY DEF GetCmd, flashVars
<1>2. m \in Requests /\ Tail(toTarget) \in Seq(Requests) /\ Rest \in Requests
    BY <1>1, TailFacts DEF TypeInv, Requests
<1>3. <<Rest>> \o Tail(toTarget) \in Seq(Requests)
    BY <1>1, <1>2, RestFacts DEF TypeInv
<1>4. m.kind = "CMD" => m.img = command
    BY <1>2, RequestKinds
<1>5. toTarget' \in Seq(Requests)
    BY <1>2, <1>3 DEF GetCmd, Takes, Mismatch
<1>6. command \in {"burn", "run", "erase"}
    BY LoaderAssumption DEF TypeInv
<1> HIDE DEF m
<1>7. CASE m.kind = "CMD" /\ command = "burn"
  <2>1. Become("ack", "ubl", "none") /\ Say(<<"SENDUBL">>)
    BY <1>4, <1>7 DEF GetCmd, m
  <2>2. TargetOK' /\ target'.at = "ack"
    BY <1>1, <1>7, <2>1 DEF Become, TargetOK, Parts, Is
  <2>3. toHost' \in Seq(Answers)
    BY <1>7, <2>1, AnswerTypes DEF Say, Answers
  <2> QED
    BY <1>1, <1>5, <2>2, <2>3, TypesKept DEF TypeInv, Is
<1>8. CASE m.kind = "CMD" /\ command = "run"
  <2>1. Become("ack", "run", "none") /\ Say(<<"SENDAPP">>)
    BY <1>4, <1>8 DEF GetCmd, m
  <2>2. TargetOK' /\ target'.at = "ack"
    BY <1>1, <1>8, <2>1 DEF Become, TargetOK, Parts, Is
  <2>3. toHost' \in Seq(Answers)
    BY <1>8, <2>1, AnswerTypes DEF Say, Answers
  <2> QED
    BY <1>1, <1>5, <2>2, <2>3, TypesKept DEF TypeInv, Is
<1>9. CASE m.kind = "CMD" /\ command = "erase"
  <2>1. Become("erase", "none", "none") /\ UNCHANGED toHost
    BY <1>4, <1>9 DEF GetCmd, m
  <2>2. TargetOK' /\ target'.at = "erase"
    BY <1>1, <1>9, <2>1 DEF Become, TargetOK, Is
  <2> QED
    BY <1>1, <1>5, <2>1, <2>2, TypesKept DEF TypeInv, Is
<1>10. CASE m.kind # "CMD"
  <2>1. UartBoot /\ Say(<<"BOOTPSP">>)
    BY <1>10 DEF GetCmd, TryAgain, m
  <2>2. toHost' \in Seq(Answers)
    BY <2>1, AnswerTypes DEF Say, Answers
  <2> QED
    BY <1>1, <1>5, <2>1, <2>2, TryAgainTypes, TypesKept DEF TypeInv, Is
<1> QED
    BY <1>6, <1>7, <1>8, <1>9, <1>10

LEMMA GetHeaderTypes ==
    ASSUME TypeInv, GetHeader
    PROVE  TypeInv'
<1> DEFINE m == Head(toTarget)
<1>1. UNCHANGED <<flash, writer, copy, faults, command, host>> /\ Is("ack") /\ toTarget # << >>
    BY DEF GetHeader, flashVars
<1>2. m \in Requests /\ Tail(toTarget) \in Seq(Requests) /\ Rest \in Requests
    BY <1>1, TailFacts DEF TypeInv, Requests
<1>3. <<Rest>> \o Tail(toTarget) \in Seq(Requests)
    BY <1>1, <1>2, RestFacts DEF TypeInv
<1>4. m.kind = "ACK" => m.img \in Images
    BY <1>2, RequestKinds
<1>5. toTarget' \in Seq(Requests)
    BY <1>2, <1>3 DEF GetHeader, Takes, Mismatch
<1>6. target.part \in Parts /\ command # "erase"
    BY <1>1 DEF TypeInv, TargetOK, Is, Parts
<1>7. "BEGIN" \in Answers /\ "BOOTPSP" \in Answers
    BY <1>6 DEF Answers
<1>8. m.kind = "ACK" => Size[m.img] \in Int
    BY <1>4, LoaderAssumption
<1> HIDE DEF m
<1>9. used' \in Int
    BY <1>8 DEF GetHeader, TypeInv, m
<1>10. CASE m.kind = "ACK" /\ Become("bytes", target.part, m.img) /\ Say(<<"BEGIN">>)
  <2>1. TargetOK' /\ target'.at = "bytes"
    BY <1>1, <1>4, <1>6, <1>10, SameTypes DEF Become, TargetOK
  <2>2. toHost' \in Seq(Answers)
    BY <1>7, <1>10, AnswerTypes DEF Say
  <2> QED
    BY <1>1, <1>5, <1>9, <2>1, <2>2, TypesKept DEF TypeInv, Is
<1>11. CASE Become("crashed", "none", "none") /\ UNCHANGED toHost
  <2>1. TargetOK' /\ target'.at = "crashed"
    BY <1>11 DEF Become, TargetOK, Is
  <2> QED
    BY <1>1, <1>5, <1>9, <1>11, <2>1, TypesKept DEF TypeInv, Is
<1>12. CASE UartBoot /\ Say(<<"BOOTPSP">>)
  <2>1. toHost' \in Seq(Answers)
    BY <1>7, <1>12, AnswerTypes DEF Say
  <2> QED
    BY <1>1, <1>5, <1>9, <1>12, <2>1, TryAgainTypes, TypesKept DEF TypeInv, Is
<1> QED
    BY <1>10, <1>11, <1>12 DEF GetHeader, TryAgain, m

LEMMA GetBytesTypes ==
    ASSUME TypeInv, GetBytes
    PROVE  TypeInv'
<1> DEFINE m == Head(toTarget)
<1>1. UNCHANGED <<flash, writer, copy, faults, command, host, used>> /\ Is("bytes") /\ toTarget # << >>
      /\ toTarget' = Tail(toTarget)
    BY DEF GetBytes, flashVars, Takes
<1>2. m \in Requests /\ toTarget' \in Seq(Requests)
    BY <1>1, TailFacts DEF TypeInv
<1>3. m.kind = "bytes" => m.img \in Images \cup {"spoilt"}
    BY <1>2, RequestKinds
<1>4. target.part \in Parts
    BY <1>1 DEF TypeInv, TargetOK, Is, Parts
<1>5. "DONE" \in Answers /\ "BOOTPSP" \in Answers
    BY DEF Answers
<1> HIDE DEF m
<1>6. CASE /\ Say(<<"DONE">>)
           /\ (m.kind = "bytes" /\ Become("decode", target.part, m.img)) \/ Become("decode", target.part, "spoilt")
  <2>1. TargetOK' /\ target'.at = "decode"
    BY <1>1, <1>3, <1>4, <1>6, SameTypes DEF Become, TargetOK
  <2>2. toHost' \in Seq(Answers)
    BY <1>5, <1>6, AnswerTypes DEF Say
  <2> QED
    BY <1>1, <1>2, <2>1, <2>2, TypesKept DEF TypeInv, Is
<1>7. CASE UartBoot /\ Say(<<"BOOTPSP">>)
  <2>1. toHost' \in Seq(Answers)
    BY <1>5, <1>7, AnswerTypes DEF Say
  <2> QED
    BY <1>1, <1>2, <1>7, <2>1, TryAgainTypes, TypesKept DEF TypeInv, Is
<1> QED
    BY <1>6, <1>7 DEF GetBytes, TryAgain, m

LEMMA FaultTypes ==
    ASSUME TypeInv, NEW kind \in FaultKinds, Fault(kind)
    PROVE  /\ faults' \in [FaultKinds -> Nat]
           /\ faults'[kind] = faults[kind] + 1
           /\ \A k \in FaultKinds \ {kind} : faults'[k] = faults[k]
BY DEF TypeInv, Fault

LEMMA ContentTypes ==
    /\ Half \in Contents /\ Erased \in Contents
    /\ \A img \in Images, b \in Blocks : Header(img, b) \in Contents
    /\ \A img \in Images : \A n \in 1 .. NumPage[img] : Data(img, n) \in Contents
    /\ Blank \in [Pages -> Contents] /\ [p \in Pages |-> Half] \in [Pages -> Contents]
<1> DEFINE H == {Header(i, b) : i \in Images, b \in Blocks}
           U == UNION {{Data(i, n) : n \in 1 .. NumPage[i]} : i \in Images}
<1>0. Contents = H \cup U \cup {Half, Erased}
    BY DEF Contents
<1>1. Half \in Contents /\ Erased \in Contents
  <2> HIDE DEF H, U
  <2> QED
    BY <1>0
<1>2. \A img \in Images, b \in Blocks : Header(img, b) \in Contents
  <2>1. \A img \in Images, b \in Blocks : Header(img, b) \in H
    OBVIOUS
  <2> HIDE DEF H, U
  <2> QED
    BY <1>0, <2>1
<1>3. \A img \in Images : \A n \in 1 .. NumPage[img] : Data(img, n) \in Contents
  <2> SUFFICES ASSUME NEW img \in Images, NEW n \in 1 .. NumPage[img] PROVE Data(img, n) \in Contents
    OBVIOUS
  <2> DEFINE D(i) == {Data(i, k) : k \in 1 .. NumPage[i]}
  <2>1. Data(img, n) \in D(img)
    OBVIOUS
  <2>2. D(img) \in {D(i) : i \in Images}
    OBVIOUS
  <2>3. U = UNION {D(i) : i \in Images}
    OBVIOUS
  <2> HIDE DEF D, U
  <2>4. Data(img, n) \in U
    BY <2>1, <2>2, <2>3
  <2> HIDE DEF H
  <2> QED
    BY <1>0, <2>4
<1> HIDE DEF Contents
<1> QED
    BY <1>1, <1>2, <1>3 DEF Blank

\* The target's image and the part of the device it goes to.
LEMMA PlaceTypes ==
    ASSUME TypeInv, Is("burn")
    PROVE  /\ target.part \in {"ubl", "app"} /\ command = "burn" /\ target.img \in Images
           /\ FirstOf(target.part) \in Blocks /\ LastOf(target.part) \in Blocks
           /\ FirstOf(target.part) <= LastOf(target.part)
           /\ NumBlocks \in Nat
           /\ NumBlks(target.img) \in Nat \ {0} /\ NumPage[target.img] \in Nat \ {0}
<1>1. target.part \in {"ubl", "app"} /\ command = "burn" /\ target.img \in Images
    BY DEF TypeInv, TargetOK, Is, Parts
<1>2. /\ FirstOf(target.part) \in Blocks /\ LastOf(target.part) \in Blocks
      /\ FirstOf(target.part) <= LastOf(target.part) /\ NumBlocks \in Nat
    BY DeviceAssumption DEF FirstOf, LastOf, Blocks
<1> QED
    BY <1>1, <1>2, NumBlksType

\* What the writer's record is where it does something.
LEMMA WriterIs ==
    ASSUME TypeInv, Is("burn")
    PROVE  /\ writer.at \in {"erase", "erasing", "header", "data"} =>
                  /\ writer = [at |-> writer.at, img |-> target.img, block |-> writer.block,
                               last |-> LastOf(target.part), n |-> writer.n]
                  /\ writer.img = target.img /\ writer.last = LastOf(target.part)
                  /\ writer.block \in Nat /\ writer.n \in Nat
                  /\ writer.block >= FirstOf(target.part)
           /\ writer.at \in {"erasing", "header", "data"} =>
                  /\ writer.block <= LastOf(target.part) /\ writer.block \in Blocks
                  /\ writer.block + NumBlks(target.img) <= NumBlocks
           /\ writer.at \in {"passed", "failed"} => writer = [at |-> writer.at]
           /\ writer.at \in {"erase", "erasing", "header", "data", "passed", "failed"}
           /\ WriterAt("erase") => writer.n = 0
           /\ WriterAt("erasing") => writer.n < NumBlks(target.img)
           /\ WriterAt("header") => writer.n = 0
           /\ WriterAt("data") => writer.n \in 1 .. NumPage[target.img]
<1>1. FirstOf(target.part) \in Blocks /\ LastOf(target.part) \in Blocks
    BY PlaceTypes
<1>2. CASE writer \in [at : {"passed", "failed"}]
    BY <1>2 DEF WriterAt
<1>3. CASE /\ writer \in [at : {"erase"}, img : {target.img}, block : Nat,
                          last : {LastOf(target.part)}, n : {0}]
           /\ writer.block >= FirstOf(target.part)
    BY <1>3 DEF WriterAt
<1>4. CASE Underway
  <2>1. writer \in [at : {"erasing", "header", "data"}, img : {target.img},
                    block : FirstOf(target.part) .. LastOf(target.part),
                    last : {LastOf(target.part)}, n : Nat]
    BY <1>4 DEF Underway
  <2> DEFINE first == FirstOf(target.part)
             last == LastOf(target.part)
  <2>2. /\ writer = [at |-> writer.at, img |-> target.img, block |-> writer.block,
                     last |-> last, n |-> writer.n]
        /\ writer.img = target.img /\ writer.last = last
        /\ writer.block \in first .. last /\ writer.n \in Nat
        /\ writer.at \in {"erasing", "header", "data"}
    BY <2>1
  <2>3. first \in 1 .. NumBlocks - 1 /\ last \in 1 .. NumBlocks - 1
    BY <1>1 DEF Blocks
  <2> HIDE DEF first, last
  <2>4. /\ writer.block \in Nat /\ writer.block >= first /\ writer.block <= last
        /\ writer.block \in Blocks
    BY <2>2, <2>3, DeviceAssumption DEF Blocks
  <2> QED
    BY <1>4, <2>2, <2>4 DEF WriterAt, Underway, first, last
<1> QED
    BY <1>2, <1>3, <1>4 DEF TypeInv, WriterOK

LEMMA ProgramTypes ==
    ASSUME TypeInv, NEW b, NEW p, NEW c \in Contents, NEW next, Program(b, p, c, next)
    PROVE  /\ flash' \in [Blocks -> [Pages -> Contents]] /\ faults' \in [FaultKinds -> Nat]
           /\ writer' \in {next, [at |-> "failed"]} /\ UNCHANGED copy
<1>1. /\ [flash EXCEPT ![b][p] = c] \in [Blocks -> [Pages -> Contents]]
      /\ [flash EXCEPT ![b][p] = Half] \in [Blocks -> [Pages -> Contents]]
  <2>1. Half \in Contents
    BY ContentTypes
  <2> QED
    BY <2>1 DEF TypeInv
<1>2. UNCHANGED copy
    BY DEF Program
<1>3. CASE flash' = [flash EXCEPT ![b][p] = c] /\ writer' = next /\ NoFault
    BY <1>1, <1>2, <1>3 DEF NoFault, TypeInv
<1>4. CASE flash' = [flash EXCEPT ![b][p] = Half] /\ Failed /\ NoFault
    BY <1>1, <1>2, <1>4 DEF NoFault, TypeInv, Failed
<1>5. CASE /\ \E left \in {flash[b][p], c, Half} : flash' = [flash EXCEPT ![b][p] = left]
           /\ Failed /\ Fault("write")
  <2>1. faults' \in [FaultKinds -> Nat]
    BY <1>5, FaultTypes DEF FaultKinds
  <2>2. [flash EXCEPT ![b][p] = flash[b][p]] \in [Blocks -> [Pages -> Contents]]
    BY DEF TypeInv
  <2> QED
    BY <1>1, <1>2, <1>5, <2>1, <2>2 DEF Failed
<1> QED
    BY <1>3, <1>4, <1>5 DEF Program

\* An erase, whatever it leaves.
LEMMA EraseTypes ==
    ASSUME TypeInv, NEW b \in Blocks, Erase(b) \/ EraseTimesOut(b)
    PROVE  /\ flash' \in [Blocks -> [Pages -> Contents]] /\ faults' \in [FaultKinds -> Nat]
           /\ \E left \in [Pages -> Contents] : flash' = [flash EXCEPT ![b] = left]
<1>1. Blank \in [Pages -> Contents] /\ HalfErased(b) \in [Pages -> Contents]
      /\ flash[b] \in [Pages -> Contents]
    BY ContentTypes DEF HalfErased, TypeInv
<1>2. \E left \in [Pages -> Contents] : flash' = [flash EXCEPT ![b] = left]
    BY <1>1 DEF Erase, EraseTimesOut, Left
<1>3. faults' \in [FaultKinds -> Nat]
    BY FaultTypes DEF Erase, EraseTimesOut, NoFault, FaultKinds, TypeInv
<1> QED
    BY <1>2, <1>3 DEF TypeInv

LEMMA WriterEnds ==
    ASSUME target'.at = "burn", writer' \in [at : {"passed", "failed"}]
    PROVE  WriterOK'
BY DEF WriterOK, Is

LEMMA WriterGoesOn ==
    ASSUME TypeInv, Is("burn"), UNCHANGED target,
           NEW at \in {"erase", "erasing", "header", "data"}, NEW block \in Nat, NEW n \in Nat,
           writer' = [at |-> at, img |-> target.img, block |-> block,
                      last |-> LastOf(target.part), n |-> n],
           block >= FirstOf(target.part),
           at = "erase" => n = 0,
           at # "erase" => block <= LastOf(target.part) /\ block + NumBlks(target.img) <= NumBlocks,
           at = "erasing" => n < NumBlks(target.img),
           at = "header" => n = 0,
           at = "data" => n \in 1 .. NumPage[target.img]
    PROVE  WriterOK'
<1>1. FirstOf(target.part) \in Nat /\ LastOf(target.part) \in Nat
    BY PlaceTypes DEF Blocks
<1>2. target' = target /\ FirstOf(target.part)' = FirstOf(target.part)
      /\ LastOf(target.part)' = LastOf(target.part)
      /\ NumBlks(target.img)' = NumBlks(target.img)
    BY DEF FirstOf, LastOf, NumBlks
<1>3. CASE at = "erase"
    BY <1>1, <1>2, <1>3 DEF WriterOK, Is
<1>4. CASE at # "erase"
  <2>1. writer'.at = at /\ writer'.img = target.img /\ writer'.block = block /\ writer'.n = n
    OBVIOUS
  <2>2. writer' \in [at : {"erasing", "header", "data"}, img : {target.img},
                     block : FirstOf(target.part) .. LastOf(target.part),
                     last : {LastOf(target.part)}, n : Nat]
    BY <1>1, <1>4
  <2>3. Underway'
    BY <1>2, <1>4, <2>1, <2>2 DEF Underway, WriterAt, NumBlks
  <2> QED
    BY <1>2, <2>3 DEF WriterOK, Is
<1> QED
    BY <1>3, <1>4

LEMMA WritingTypes ==
    ASSUME TypeInv, Is("burn"), Writing, UNCHANGED target
    PROVE  /\ flash' \in [Blocks -> [Pages -> Contents]] /\ faults' \in [FaultKinds -> Nat]
           /\ UNCHANGED copy /\ WriterOK'
<1> DEFINE first == FirstOf(target.part)
           last == LastOf(target.part)
           img == target.img
<1>1. /\ img \in Images /\ NumBlks(img) \in Nat \ {0} /\ NumPage[img] \in Nat \ {0}
      /\ first \in Nat /\ last \in Nat /\ NumBlocks \in Nat
    BY PlaceTypes DEF Blocks
<1>2. /\ writer.at \in {"erase", "erasing", "header", "data"} =>
             /\ writer = [at |-> writer.at, img |-> img, block |-> writer.block,
                          last |-> last, n |-> writer.n]
             /\ writer.img = img /\ writer.last = last
             /\ writer.block \in Nat /\ writer.n \in Nat /\ writer.block >= first
      /\ writer.at \in {"erasing", "header", "data"} =>
             /\ writer.block <= last /\ writer.block \in Blocks
             /\ writer.block + NumBlks(img) <= NumBlocks
      /\ WriterAt("erase") => writer.n = 0
      /\ WriterAt("data") => writer.n \in 1 .. NumPage[img]
    BY WriterIs
<1>3. target'.at = "burn"
    BY DEF Is
<1>4. CASE Unprotect
  <2>1. UNCHANGED <<flash, faults, copy>> /\ WriterAt("erase") /\ writer.at = "erase"
    BY <1>4 DEF Unprotect, NoFault, WriterAt
  <2>2. CASE Failed
    BY <1>3, <2>1, <2>2, WriterEnds DEF Failed, TypeInv
  <2>3. CASE ~TooFar(writer.block, writer.last) /\ writer' = [writer EXCEPT !.at = "erasing"]
             /\ writer.block + NumBlks(writer.img) - 1 < NumBlocks
    <3>1. writer' = [at |-> "erasing", img |-> img, block |-> writer.block, last |-> last, n |-> 0]
      BY <1>2, <2>1, <2>3
    <3>2. writer.block <= last /\ writer.block + NumBlks(img) <= NumBlocks
      BY <1>1, <1>2, <2>1, <2>3 DEF TooFar
    <3>3. 0 \in Nat /\ 0 < NumBlks(img) /\ writer.block \in Nat /\ writer.block >= first
      BY <1>1, <1>2, <2>1
    <3>4. WriterOK'
      BY <3>1, <3>2, <3>3, WriterGoesOn
    <3> QED
      BY <2>1, <3>4 DEF TypeInv
  <2>4. CASE writer' = [writer EXCEPT !.block = @ + 1]
    <3>1. writer' = [at |-> "erase", img |-> img, block |-> writer.block + 1, last |-> last, n |-> 0]
      BY <1>2, <2>1, <2>4
    <3>2. writer.block + 1 \in Nat /\ writer.block + 1 >= first /\ 0 \in Nat
      BY <1>1, <1>2, <2>1
    <3>3. WriterOK'
      BY <3>1, <3>2, WriterGoesOn
    <3> QED
      BY <2>1, <3>3 DEF TypeInv
  <2> QED
    BY <1>4, <2>2, <2>3, <2>4 DEF Unprotect
<1>5. CASE EraseBlock
  <2> DEFINE b == writer.block + writer.n
  <2>1. UNCHANGED copy /\ WriterAt("erasing") /\ writer.at = "erasing" /\ writer.img = img
    BY <1>2, <1>5 DEF EraseBlock, WriterAt
  <2>a. b \in Blocks
    <3>1. writer.n < NumBlks(img) /\ writer.n \in Nat
      BY <1>2, <2>1, WriterIs
    <3> QED
      BY <1>1, <1>2, <2>1, <3>1 DEF Blocks
  <2>b. flash' \in [Blocks -> [Pages -> Contents]] /\ faults' \in [FaultKinds -> Nat]
    BY <1>5, <2>a, EraseTypes DEF EraseBlock
  <2>2. CASE writer' = IF writer.n + 1 < NumBlks(writer.img) THEN [writer EXCEPT !.n = @ + 1]
                       ELSE [writer EXCEPT !.at = "header", !.n = 0]
    <3>1. CASE writer.n + 1 < NumBlks(img)
      <4>1. writer' = [at |-> "erasing", img |-> img, block |-> writer.block, last |-> last,
                       n |-> writer.n + 1]
        BY <1>2, <2>1, <2>2, <3>1
      <4>2. writer.n + 1 \in Nat
        BY <1>2, <2>1
      <4>3. WriterOK'
        BY <1>2, <2>1, <3>1, <4>1, <4>2, WriterGoesOn
      <4> QED
        BY <2>1, <2>b, <4>3
    <3>2. CASE ~(writer.n + 1 < NumBlks(img))
      <4>1. writer' = [at |-> "header", img |-> img, block |-> writer.block, last |-> last, n |-> 0]
        BY <1>2, <2>1, <2>2, <3>2
      <4>2. WriterOK'
        BY <1>2, <2>1, <4>1, WriterGoesOn
      <4> QED
        BY <2>1, <2>b, <4>2
    <3> QED
      BY <3>1, <3>2
  <2>3. CASE writer' = [writer EXCEPT !.at = "erase", !.block = @ + 1, !.n = 0]
    <3>1. writer' = [at |-> "erase", img |-> img, block |-> writer.block + 1, last |-> last, n |-> 0]
      BY <1>2, <2>1, <2>3
    <3>2. writer.block + 1 \in Nat /\ writer.block + 1 >= first /\ 0 \in Nat
      BY <1>1, <1>2, <2>1
    <3>3. WriterOK'
      BY <3>1, <3>2, WriterGoesOn
    <3> QED
      BY <2>1, <2>b, <3>3
  <2> QED
    BY <1>5, <2>2, <2>3 DEF EraseBlock
<1>6. CASE WriteHeader
  <2> DEFINE next == [writer EXCEPT !.at = "data", !.n = 1]
             c == Header(writer.img, writer.block)
  <2>1. Program(writer.block, 0, c, next) /\ WriterAt("header") /\ writer.at = "header"
    BY <1>6 DEF WriteHeader, WriterAt
  <2>2. c \in Contents
    BY <1>1, <1>2, <2>1, ContentTypes
  <2>a. writer = [at |-> writer.at, img |-> img, block |-> writer.block,
                  last |-> last, n |-> writer.n]
    BY <1>2, <2>1
  <2>3. next = [at |-> "data", img |-> img, block |-> writer.block, last |-> last, n |-> 1]
    <3> DEFINE half == [writer EXCEPT !.at = "data"]
    <3>1. half = [at |-> "data", img |-> img, block |-> writer.block, last |-> last, n |-> writer.n]
      BY <2>a
    <3>2. next = [half EXCEPT !.n = 1]
      BY <2>a
    <3> HIDE DEF half, next
    <3> QED
      BY <3>1, <3>2
  <2> HIDE DEF next, c
  <2>4. /\ flash' \in [Blocks -> [Pages -> Contents]] /\ faults' \in [FaultKinds -> Nat]
        /\ writer' \in {next, [at |-> "failed"]} /\ UNCHANGED copy
    BY <2>1, <2>2, ProgramTypes
  <2>5. CASE writer' = next
    <3>1. 1 \in Nat /\ 1 \in 1 .. NumPage[img]
      BY <1>1
    <3>2. WriterOK'
      BY <1>2, <2>1, <2>3, <2>5, <3>1, WriterGoesOn
    <3> QED
      BY <2>4, <3>2
  <2>6. CASE writer' = [at |-> "failed"]
    BY <1>3, <2>4, <2>6, WriterEnds
  <2> QED
    BY <2>4, <2>5, <2>6
<1>7. CASE WriteData
  <2> DEFINE where == DataPage(writer.block, writer.n)
             next == IF writer.n < NumPage[writer.img] THEN [writer EXCEPT !.n = @ + 1]
                     ELSE [at |-> "passed"]
             c == Data(writer.img, writer.n)
  <2>1. Program(where[1], where[2], c, next) /\ WriterAt("data") /\ writer.at = "data"
    BY <1>7 DEF WriteData, WriterAt
  <2>2. c \in Contents
    BY <1>1, <1>2, <2>1, ContentTypes
  <2>3. /\ writer.n < NumPage[img] =>
               next = [at |-> "data", img |-> img, block |-> writer.block, last |-> last,
                       n |-> writer.n + 1]
        /\ ~(writer.n < NumPage[img]) => next = [at |-> "passed"]
    BY <1>2, <2>1
  <2> HIDE DEF where, next, c
  <2>4. /\ flash' \in [Blocks -> [Pages -> Contents]] /\ faults' \in [FaultKinds -> Nat]
        /\ writer' \in {next, [at |-> "failed"]} /\ UNCHANGED copy
    BY <2>1, <2>2, ProgramTypes
  <2>5. CASE writer' = next /\ writer.n < NumPage[img]
    <3>1. writer.n + 1 \in Nat /\ writer.n + 1 \in 1 .. NumPage[img]
      BY <1>1, <1>2, <2>1, <2>5
    <3>2. WriterOK'
      BY <1>2, <2>1, <2>3, <2>5, <3>1, WriterGoesOn
    <3> QED
      BY <2>4, <3>2
  <2>6. CASE writer' \in [at : {"passed", "failed"}]
    BY <1>3, <2>4, <2>6, WriterEnds
  <2> QED
    BY <2>3, <2>4, <2>5, <2>6
<1> QED
    BY <1>4, <1>5, <1>6, <1>7 DEF Writing

LEMMA TypesFrom ==
    ASSUME TypeInv, UNCHANGED <<command, host>>,
           flash' \in [Blocks -> [Pages -> Contents]], faults' \in [FaultKinds -> Nat],
           TargetOK', WriterOK', CopyOK', used' \in Int,
           toTarget' \in Seq(Requests), toHost' \in Seq(Answers)
    PROVE  TypeInv'
<1>1. Steps' = Steps /\ Requests' = Requests /\ Answers' = Answers
    BY SameTypes
<1> QED
    BY <1>1 DEF TypeInv

LEMMA DecodeImageTypes ==
    ASSUME TypeInv, DecodeImage
    PROVE  TypeInv'
<1>1. UNCHANGED <<flash, copy, faults, command, host, toTarget, used>> /\ Is("decode")
    BY DEF DecodeImage
<1>2. target.part \in Parts /\ target.img \in Images \cup {"spoilt"}
    BY <1>1 DEF TypeInv, TargetOK, Is, Parts
<1>3. "DONE" \in Answers /\ "BOOTPSP" \in Answers
    BY DEF Answers
<1>4. toHost' \in Seq(Answers)
    BY <1>3, AnswerTypes DEF DecodeImage, Say, TryAgain, TypeInv
<1>5. writer = NoWriter /\ copy = NoCopy
    BY <1>1 DEF TypeInv, WriterOK, CopyOK, Is
<1>6. Parts' = Parts /\ command' = command
    BY <1>1, SameTypes
<1>7. CASE TryAgain /\ UNCHANGED writer
  <2>1. TargetOK' /\ target'.at = "cmd"
    BY <1>7, TryAgainTypes DEF TryAgain
  <2>2. WriterOK' /\ CopyOK'
    BY <1>1, <1>5, <1>7, <2>1 DEF WriterOK, CopyOK, Is, NoWriter, NoCopy
  <2> QED
    BY <1>1, <1>4, <2>1, <2>2, TypesFrom DEF TypeInv
<1>8. CASE target.part = "run" /\ Become("end", "run", target.img) /\ UNCHANGED writer
           /\ target.img # "spoilt"
  <2>1. TargetOK' /\ target'.at = "end"
    BY <1>2, <1>6, <1>8 DEF Become, TargetOK, Parts
  <2>2. WriterOK' /\ CopyOK'
    BY <1>1, <1>5, <1>8, <2>1 DEF WriterOK, CopyOK, Is, NoWriter, NoCopy
  <2> QED
    BY <1>1, <1>4, <2>1, <2>2, TypesFrom DEF TypeInv
<1>9. ASSUME NEW part \in {"ubl", "app"}, target.part = part, Become("burn", part, target.img),
             StartWrite(target.img, FirstOf(part), LastOf(part)), target.img # "spoilt"
      PROVE  TypeInv'
  <2>1. TargetOK' /\ target' = [at |-> "burn", part |-> part, img |-> target.img]
    BY <1>2, <1>6, <1>9 DEF Become, TargetOK
  <2>2. FirstOf(part) \in Nat /\ FirstOf(part) >= FirstOf(part)
    BY DeviceAssumption DEF FirstOf
  <2>3. writer' = [at |-> "erase", img |-> target.img, block |-> FirstOf(part),
                   last |-> LastOf(part), n |-> 0]
    BY <1>9 DEF StartWrite
  <2>4. target'.part = part /\ target'.img = target.img /\ target'.at = "burn"
    BY <2>1
  <2>5. WriterOK'
    BY <2>2, <2>3, <2>4 DEF WriterOK, Is, FirstOf, LastOf
  <2>6. CopyOK'
    BY <1>1, <1>5, <2>4 DEF CopyOK, Is, NoCopy
  <2> QED
    BY <1>1, <1>4, <2>1, <2>5, <2>6, TypesFrom DEF TypeInv
<1>10. FirstOf("ubl") = FirstUbl /\ LastOf("ubl") = LastUbl
       /\ FirstOf("app") = FirstApp /\ LastOf("app") = LastApp
    BY DEF FirstOf, LastOf
<1>11. CASE Become("hung", "none", "none") /\ UNCHANGED writer
  <2>1. TargetOK' /\ target'.at = "hung"
    BY <1>11 DEF Become, TargetOK, Is
  <2>2. WriterOK' /\ CopyOK'
    BY <1>1, <1>5, <1>11, <2>1 DEF WriterOK, CopyOK, Is, NoWriter, NoCopy
  <2> QED
    BY <1>1, <1>4, <2>1, <2>2, TypesFrom DEF TypeInv
<1> QED
    BY <1>7, <1>8, <1>9, <1>10, <1>11 DEF DecodeImage

LEMMA BurnedTypes ==
    ASSUME TypeInv, Burned
    PROVE  TypeInv'
<1>1. UNCHANGED <<flash, copy, faults, command, host, toTarget, used>> /\ Is("burn")
      /\ writer' = NoWriter
    BY DEF Burned
<1>2. copy = NoCopy /\ command = "burn" /\ Parts = {"ubl", "app"} /\ Parts' = Parts
    BY <1>1, PlaceTypes, SameTypes DEF TypeInv, CopyOK, Is, Parts
<1>3. "SENDAPP" \in Answers /\ "BOOTPSP" \in Answers
    BY <1>2 DEF Answers
<1>4. toHost' \in Seq(Answers)
    BY <1>3, AnswerTypes DEF Burned, Say, TryAgain, TypeInv
<1>5. TargetOK' /\ target'.at \in {"cmd", "ack", "end"}
    BY <1>1, <1>2 DEF Burned, TryAgain, UartBoot, Become, TargetOK, Is
<1>6. WriterOK' /\ CopyOK'
    BY <1>1, <1>2, <1>5 DEF WriterOK, CopyOK, Is, NoWriter, NoCopy
<1> QED
    BY <1>1, <1>4, <1>5, <1>6, TypesFrom DEF TypeInv

LEMMA EraseAllTypes ==
    ASSUME TypeInv, EraseAll
    PROVE  TypeInv'
<1>1. UNCHANGED <<flash, copy, faults, command, host, toTarget, used>> /\ Is("erase")
    BY DEF EraseAll
<1>2. copy = NoCopy /\ command = "erase"
    BY <1>1 DEF TypeInv, TargetOK, CopyOK, Is
<1>3. "BOOTPSP" \in Answers
    BY DEF Answers
<1>4. toHost' \in Seq(Answers)
    BY <1>3, AnswerTypes DEF EraseAll, Say, TryAgain, TypeInv
<1>5. TargetOK' /\ target'.at \in {"erase", "cmd", "end"}
    BY <1>1, <1>2 DEF EraseAll, TryAgain, UartBoot, Become, TargetOK, Is, TypeInv
<1>6. WriterOK' /\ CopyOK'
  <2>1. 1 \in Blocks
    BY DeviceAssumption DEF Blocks
  <2>2. \/ target'.at = "erase" /\ writer' = [at |-> "wiping", block |-> 1]
        \/ target'.at \in {"cmd", "end"} /\ writer' = NoWriter
    BY <1>1 DEF EraseAll, StartWipe, TryAgain, UartBoot, Become, Is
  <2>3. WriterOK'
    BY <2>1, <2>2 DEF WriterOK, Is
  <2> QED
    BY <1>1, <1>2, <1>5, <2>3 DEF CopyOK, Is, NoCopy
<1> QED
    BY <1>1, <1>4, <1>5, <1>6, TypesFrom DEF TypeInv

\* What the writer's record is while the device is erased.
LEMMA WiperIs ==
    ASSUME TypeInv, Is("erase"), WriterAt("wiping")
    PROVE  /\ writer = [at |-> "wiping", block |-> writer.block] /\ writer.block \in Blocks
           /\ NumBlocks \in Nat
BY DeviceAssumption DEF TypeInv, WriterOK, WriterAt, NoWriter, Is

LEMMA WipingTypes ==
    ASSUME TypeInv, Wiping
    PROVE  TypeInv'
<1>1. UNCHANGED <<command, host, target, toTarget, toHost, used>> /\ Is("erase") /\ WipeBlock
    BY DEF Wiping, lineVars
<1>2. writer.block \in Blocks /\ WriterAt("wiping") /\ NumBlocks \in Nat /\ UNCHANGED copy
    BY <1>1, WiperIs DEF WipeBlock
<1>3. flash' \in [Blocks -> [Pages -> Contents]] /\ faults' \in [FaultKinds -> Nat]
    BY <1>1, <1>2, EraseTypes DEF WipeBlock
<1>4. \/ writer' \in [at : {"passed", "failed"}]
      \/ writer' \in [at : {"wiping"}, block : Blocks]
    BY <1>1, <1>2 DEF WipeBlock, Failed, Blocks
<1>5. target'.at = "erase"
    BY <1>1 DEF Is
<1>6. TargetOK' /\ WriterOK' /\ CopyOK'
    BY <1>1, <1>2, <1>4, <1>5 DEF TypeInv, TargetOK, WriterOK, CopyOK, Is, Parts, NoCopy
<1> QED
    BY <1>1, <1>3, <1>6, TypesFrom DEF TypeInv

LEMMA FinishTypes ==
    ASSUME TypeInv, Finish
    PROVE  TypeInv'
<1>1. UNCHANGED <<flash, writer, copy, faults, command, host, toTarget, used>> /\ Is("end")
    BY DEF Finish, flashVars
<1>2. writer = NoWriter /\ copy = NoCopy /\ target.img \in Images \cup {"none"}
    BY <1>1 DEF TypeInv, TargetOK, WriterOK, CopyOK, Is
<1>3. toHost' \in Seq(Answers)
    BY AnswerTypes DEF Finish, Say, Answers
<1>4. TargetOK'
    BY <1>2 DEF Finish, Become, TargetOK, Is
<1>5. target'.at \in {"running", "reset"} /\ (target'.at = "running" => target'.part = "run")
    BY DEF Finish, Become
<1>6. WriterOK' /\ CopyOK'
    BY <1>1, <1>2, <1>5 DEF WriterOK, CopyOK, Is, NoWriter, NoCopy
<1> QED
    BY <1>1, <1>3, <1>4, <1>6, TypesFrom DEF TypeInv

LEMMA TimeOutTypes ==
    ASSUME TypeInv, Waiting, TryAgain, UNCHANGED <<flashVars, command, host, toTarget, used>>,
           faults' \in [FaultKinds -> Nat]
    PROVE  TypeInv'
<1>1. UNCHANGED <<flash, writer, copy>> /\ target.at \notin {"burn", "erase", "copying", "running"}
    BY DEF Waiting, flashVars
<1>2. writer = NoWriter /\ copy = NoCopy
    BY <1>1 DEF TypeInv, WriterOK, CopyOK, Is
<1>3. TargetOK' /\ target'.at = "cmd"
    BY TryAgainTypes DEF TryAgain
<1>4. WriterOK' /\ CopyOK'
    BY <1>1, <1>2, <1>3 DEF WriterOK, CopyOK, Is, NoWriter, NoCopy
<1>5. toHost' \in Seq(Answers)
    BY AnswerTypes DEF TryAgain, Say, Answers
<1> QED
    BY <1>1, <1>3, <1>4, <1>5, TypesFrom DEF TypeInv

LEMMA BurningTypes ==
    ASSUME TypeInv, Burning
    PROVE  TypeInv'
<1>1. UNCHANGED <<command, host, target, toTarget, toHost, used>> /\ Is("burn") /\ Writing
    BY DEF Burning, lineVars
<1>2. /\ flash' \in [Blocks -> [Pages -> Contents]] /\ faults' \in [FaultKinds -> Nat]
      /\ UNCHANGED copy /\ WriterOK'
    BY <1>1, WritingTypes
<1>3. TargetOK' /\ CopyOK'
    BY <1>1, <1>2 DEF TypeInv, TargetOK, CopyOK, Is, Parts, NoCopy
<1> QED
    BY <1>1, <1>2, <1>3, TypesFrom DEF TypeInv

\* What can be read is part of an image.
LEMMA PageIs ==
    ASSUME NEW c \in Contents, c \notin {Erased, Half}
    PROVE  \/ \E i \in Images, b \in Blocks : c = Header(i, b)
           \/ \E i \in Images : \E n \in 1 .. NumPage[i] : c = Data(i, n)
BY DEF Contents

LEMMA HeaderIs ==
    ASSUME TypeInv, NEW b, HeaderAt(b)
    PROVE  /\ b \in Blocks /\ flash[b][0].img \in Images /\ flash[b][0].n \in Blocks
           /\ flash[b][0] = Header(flash[b][0].img, flash[b][0].n)
           /\ flash[b][0] \notin {Half, Erased}
BY PageAssumption DEF HeaderAt, Header

LEMMA SeenIs ==
    ASSUME TypeInv, NEW b \in Blocks, NEW h \in HeadersSeen(b)
    PROVE  /\ h.img \in Images /\ h.n \in Blocks
           /\ flash[b][0] # Half => h = flash[b][0] /\ h = Header(h.img, b)
BY DEF HeadersSeen, Header

LEMMA NandBootTypes ==
    ASSUME TypeInv, NandBoot
    PROVE  TypeInv'
<1>1. UNCHANGED <<flash, writer, faults, command, host, toHost>> /\ (Is("reset") \/ Is("off"))
      /\ toTarget' = << >> /\ used' = HalfMemory
    BY DEF NandBoot
<1>2. writer = NoWriter
    BY <1>1 DEF TypeInv, WriterOK, Is
<1>3. TargetOK' /\ target'.at = "copying"
    BY DEF NandBoot, Become, TargetOK, Is
<1>4. FirstApp \in Nat
    BY DeviceAssumption
<1>5. copy' = [at |-> "find", block |-> FirstApp, twice |-> FALSE]
    BY DEF NandBoot, StartCopy
<1>6. WriterOK' /\ CopyOK'
    BY <1>1, <1>2, <1>3, <1>4, <1>5 DEF WriterOK, CopyOK, Is, NoWriter
<1>7. HalfMemory \in Int
  <2>1. Memory \in Nat
    BY LoaderAssumption
  <2> QED
    BY <2>1 DEF HalfMemory
<1>8. toTarget' \in Seq(Requests)
    BY <1>1, EmptySeq
<1>9. flash \in [Blocks -> [Pages -> Contents]] /\ faults \in [FaultKinds -> Nat]
      /\ toHost \in Seq(Answers)
    BY DEF TypeInv
<1> QED
    BY <1>1, <1>3, <1>6, <1>7, <1>8, <1>9, TypesFrom

LEMMA CopyingTypes ==
    ASSUME TypeInv, Copying
    PROVE  TypeInv'
<1>1. UNCHANGED <<flash, writer, command, host, target, toTarget, toHost>> /\ Is("copying")
    BY DEF Copying, lineVars, Booting, FindHeader, CopyPage, Decode
<1>2. TargetOK' /\ WriterOK'
    BY <1>1 DEF TypeInv, TargetOK, WriterOK, Is, Parts
<1>3. used' \in Int
  <2>1. Memory \in Nat
    BY LoaderAssumption
  <2> QED
    BY <2>1 DEF Copying, TypeInv, HalfMemory
<1>4. target'.at = "copying"
    BY <1>1 DEF Is
<1>5. CASE FindHeader
  <2>1. copy.at = "find"
    BY <1>5 DEF FindHeader
  <2>2. copy \in [at : {"find"}, block : Nat, twice : BOOLEAN] /\ copy.block >= FirstApp
        /\ FirstApp \in Nat
    BY <2>1, DeviceAssumption DEF TypeInv, CopyOK, NoCopy
  <2>3. faults' \in [FaultKinds -> Nat]
    BY <1>5, FaultTypes DEF FindHeader, NoFault, TypeInv, FaultKinds
  <2>4. CASE NotFound
    BY <1>1, <1>2, <1>3, <1>4, <2>3, <2>4, TypesFrom DEF NotFound, CopyOK, Is, TypeInv
  <2>5. CASE copy' = [copy EXCEPT !.block = @ + 1]
    <3>1. copy' \in [at : {"find"}, block : Nat, twice : BOOLEAN]
      BY <2>2, <2>5
    <3>2. copy'.block >= FirstApp
      BY <2>2, <2>5
    <3>3. CopyOK'
      BY <1>4, <3>1, <3>2 DEF CopyOK, Is
    <3> QED
      BY <1>1, <1>2, <1>3, <2>3, <3>3, TypesFrom DEF TypeInv
  <2>6. ASSUME copy.block <= LastApp, NEW h \in HeadersSeen(copy.block),
               copy' = [at |-> "read", block |-> copy.block, twice |-> copy.twice,
                        img |-> h.img, from |-> h.n, n |-> 1, whole |-> flash[copy.block][0] = h]
        PROVE  TypeInv'
    <3>1. copy.block \in FirstApp .. LastApp /\ copy.block \in Blocks /\ copy.twice \in BOOLEAN
      BY <2>2, <2>6, DeviceAssumption DEF Blocks
    <3>2. h.img \in Images /\ h.n \in Blocks
      BY <2>6, <3>1, SeenIs
    <3>3. CopyOK'
      BY <1>4, <2>6, <3>1, <3>2 DEF CopyOK, Is
    <3> QED
      BY <1>1, <1>2, <1>3, <2>3, <3>3, TypesFrom DEF TypeInv
  <2> QED
    BY <1>5, <2>4, <2>5, <2>6 DEF FindHeader
<1>6. copy.at = "read" => copy \in [at : {"read"}, block : FirstApp .. LastApp, twice : BOOLEAN,
                                    img : Images, from : Blocks, n : Nat \ {0}, whole : BOOLEAN]
    BY DEF TypeInv, CopyOK, NoCopy
<1>7. CASE CopyPage
  <2>1. copy.at = "read"
    BY <1>7 DEF CopyPage
  <2>2. faults' \in [FaultKinds -> Nat]
    BY <1>7, FaultTypes DEF CopyPage, NoFault, TypeInv, FaultKinds
  <2>3. CASE \E w \in BOOLEAN : copy' = [copy EXCEPT !.n = @ + 1, !.whole = w]
    <3>1. PICK w \in BOOLEAN : copy' = [copy EXCEPT !.n = @ + 1, !.whole = w]
      BY <2>3
    <3> DEFINE half == [copy EXCEPT !.n = @ + 1]
    <3>2. half \in [at : {"read"}, block : FirstApp .. LastApp, twice : BOOLEAN,
                    img : Images, from : Blocks, n : Nat \ {0}, whole : BOOLEAN]
      BY <1>6, <2>1
    <3>3. copy' = [half EXCEPT !.whole = w]
      BY <1>6, <2>1, <3>1
    <3> HIDE DEF half
    <3>4. CopyOK'
      BY <1>4, <3>2, <3>3 DEF CopyOK, Is
    <3> QED
      BY <1>1, <1>2, <1>3, <2>2, <3>4, TypesFrom DEF TypeInv
  <2>4. CASE ReadFailed /\ copy.twice
    <3>1. copy' = [at |-> "find", block |-> copy.block + 1, twice |-> TRUE]
      BY <2>4 DEF ReadFailed
    <3>2. copy.block \in FirstApp .. LastApp /\ FirstApp \in Nat /\ LastApp \in Nat
      BY <1>6, <2>1, DeviceAssumption
    <3>3. CopyOK'
      BY <1>4, <3>1, <3>2 DEF CopyOK, Is
    <3> QED
      BY <1>1, <1>2, <1>3, <2>2, <3>3, TypesFrom DEF TypeInv
  <2>5. CASE ReadFailed /\ ~copy.twice
    <3> DEFINE w == flash[copy.block][0] = Header(copy.img, copy.from)
    <3>1. copy' = [copy EXCEPT !.twice = TRUE, !.n = 1, !.whole = w]
      BY <2>5 DEF ReadFailed
    <3>a. w \in BOOLEAN
      OBVIOUS
    <3> HIDE DEF w
    <3>2. copy' \in [at : {"read"}, block : FirstApp .. LastApp, twice : BOOLEAN,
                     img : Images, from : Blocks, n : Nat \ {0}, whole : BOOLEAN]
      <4> DEFINE half == [copy EXCEPT !.twice = TRUE]
                 most == [half EXCEPT !.n = 1]
      <4>1. half \in [at : {"read"}, block : FirstApp .. LastApp, twice : BOOLEAN,
                      img : Images, from : Blocks, n : Nat \ {0}, whole : BOOLEAN]
        BY <1>6, <2>1
      <4>2. copy' = [most EXCEPT !.whole = w]
        BY <1>6, <2>1, <3>1
      <4> HIDE DEF half
      <4>3. most \in [at : {"read"}, block : FirstApp .. LastApp, twice : BOOLEAN,
                      img : Images, from : Blocks, n : Nat \ {0}, whole : BOOLEAN]
        BY <4>1
      <4> HIDE DEF most
      <4> QED
        BY <3>a, <4>2, <4>3
    <3>3. CopyOK'
      BY <1>4, <3>2 DEF CopyOK, Is
    <3> QED
      BY <1>1, <1>2, <1>3, <2>2, <3>3, TypesFrom DEF TypeInv
  <2>6. copy.whole \in BOOLEAN
    BY <1>6, <2>1
  <2> QED
    BY <1>7, <2>3, <2>4, <2>5, <2>6 DEF CopyPage
<1>8. CASE Decode
  <2>1. copy.img \in Images /\ copy.whole \in BOOLEAN
    BY <1>6, <1>8 DEF Decode
  <2>2. UNCHANGED faults
    BY <1>8 DEF Decode, NoFault
  <2>3. CopyOK'
    BY <1>4, <1>8, <2>1 DEF Decode, CopyOK, Is
  <2> QED
    BY <1>1, <1>2, <1>3, <2>2, <2>3, TypesFrom DEF TypeInv
<1> QED
    BY <1>5, <1>7, <1>8 DEF Copying, Booting

LEMMA CopiedTypes ==
    ASSUME TypeInv, Copied
    PROVE  TypeInv'
<1>1. UNCHANGED <<flash, writer, faults, command, host, toTarget, used>> /\ Is("copying")
    BY DEF Copied
<1>2. writer = NoWriter
    BY <1>1 DEF TypeInv, WriterOK, Is
<1>3. copy.at = "booted" => copy \in [at : {"booted"}, img : Images, whole : BOOLEAN]
    BY DEF TypeInv, CopyOK, NoCopy
<1>4. toHost' \in Seq(Answers)
    BY AnswerTypes DEF Copied, TryAgain, Say, Answers, TypeInv
<1>5. CASE TryAgain /\ copy' = NoCopy
  <2>1. TargetOK' /\ target'.at = "cmd"
    BY <1>5, TryAgainTypes DEF TryAgain
  <2>2. WriterOK' /\ CopyOK'
    BY <1>1, <1>2, <1>5, <2>1 DEF WriterOK, CopyOK, Is, NoWriter, NoCopy
  <2> QED
    BY <1>1, <1>4, <2>1, <2>2, TypesFrom DEF TypeInv
<1>a. CASE Become("hung", "none", "none") /\ copy' = NoCopy
  <2>1. TargetOK' /\ target'.at = "hung"
    BY <1>a DEF Become, TargetOK, Is
  <2>2. WriterOK' /\ CopyOK'
    BY <1>1, <1>2, <1>a, <2>1 DEF WriterOK, CopyOK, Is, NoWriter, NoCopy
  <2> QED
    BY <1>1, <1>4, <2>1, <2>2, TypesFrom DEF TypeInv
<1>6. CASE copy.at = "booted" /\ Become("running", "nand", copy.img) /\ UNCHANGED copy
  <2>1. TargetOK' /\ target'.at = "running" /\ target'.part = "nand"
    BY <1>3, <1>6 DEF Become, TargetOK
  <2>2. WriterOK' /\ CopyOK'
    BY <1>1, <1>2, <1>3, <1>6, <2>1 DEF WriterOK, CopyOK, Is, NoWriter
  <2> QED
    BY <1>1, <1>4, <2>1, <2>2, TypesFrom DEF TypeInv
<1> QED
    BY <1>5, <1>6, <1>a DEF Copied

LEMMA LineFaultTypes ==
    ASSUME TypeInv, LoseRequest \/ LoseAnswer
    PROVE  TypeInv'
<1>1. UNCHANGED <<flash, writer, copy, command, host, target, used>>
    BY DEF LoseRequest, LoseAnswer, flashVars
<1>2. TargetOK' /\ WriterOK' /\ CopyOK'
    BY <1>1 DEF TypeInv, TargetOK, WriterOK, Underway, CopyOK, Is, WriterAt, NoWriter, NoCopy, Parts,
                NumBlks, FirstOf, LastOf
<1>3. faults' \in [FaultKinds -> Nat]
    BY FaultTypes DEF LoseRequest, LoseAnswer, FaultKinds
<1>4. CASE LoseRequest
  <2>1. PICK i \in DOMAIN toTarget :
            \/ toTarget' = RemoveAt(toTarget, i)
            \/ toTarget' = [toTarget EXCEPT ![i] = Rest]
            \/ toTarget' = [toTarget EXCEPT ![i] = Spoilt]
    BY <1>4 DEF LoseRequest
  <2>2. RemoveAt(toTarget, i) \in Seq(Requests) /\ i \in 1 .. Len(toTarget)
    BY RemoveFacts DEF TypeInv
  <2>3. Rest \in Requests /\ Spoilt \in Requests
    BY DEF Requests
  <2>4. /\ [toTarget EXCEPT ![i] = Rest] \in Seq(Requests)
        /\ [toTarget EXCEPT ![i] = Spoilt] \in Seq(Requests)
    BY <2>2, <2>3, ExceptSeq DEF TypeInv
  <2>5. toTarget' \in Seq(Requests) /\ UNCHANGED toHost
    BY <1>4, <2>1, <2>2, <2>4 DEF LoseRequest
  <2> QED
    BY <1>1, <1>2, <1>3, <2>5, TypesFrom DEF TypeInv
<1>5. CASE LoseAnswer
  <2>1. PICK i \in DOMAIN toHost : toHost' = RemoveAt(toHost, i)
    BY <1>5 DEF LoseAnswer
  <2>2. toHost' \in Seq(Answers) /\ UNCHANGED toTarget
    BY <1>5, <2>1, RemoveFacts DEF TypeInv, LoseAnswer
  <2> QED
    BY <1>1, <1>2, <1>3, <2>2, TypesFrom DEF TypeInv
<1> QED
    BY <1>4, <1>5

\* What a power cut leaves: each page as it was, erased, or half done.
LEMMA InterruptedIs ==
    ASSUME TypeInv, NEW f \in Interrupted
    PROVE  /\ f \in [Blocks -> [Pages -> Contents]]
           /\ \A b \in Blocks, p \in Pages : f[b][p] \in {flash[b][p], Erased, Half}
           /\ ~Is("burn") /\ ~Is("erase") => f = flash
<1>0. Half \in Contents /\ Blank \in [Pages -> Contents] /\ flash \in [Blocks -> [Pages -> Contents]]
    BY ContentTypes DEF TypeInv
<1>1. CASE f = flash
    BY <1>0, <1>1
<1>2. ASSUME NEW k, NEW left \in Left(k), f = [flash EXCEPT ![k] = left]
      PROVE  /\ f \in [Blocks -> [Pages -> Contents]]
             /\ \A b \in Blocks, p \in Pages : f[b][p] \in {flash[b][p], Erased, Half}
  <2>1. CASE k \in Blocks
    <3>1. /\ left \in [Pages -> Contents]
          /\ \A p \in Pages : left[p] \in {flash[k][p], Erased, Half}
      BY <1>0, <1>2, <2>1, ContentTypes DEF Left, HalfErased, Blank
    <3> QED
      BY <1>0, <1>2, <2>1, <3>1
  <2>2. CASE k \notin Blocks
    BY <1>0, <1>2, <2>2
  <2> QED
    BY <2>1, <2>2
<1>3. ASSUME NEW k, NEW q, f = [flash EXCEPT ![k][q] = Half]
      PROVE  /\ f \in [Blocks -> [Pages -> Contents]]
             /\ \A b \in Blocks, p \in Pages : f[b][p] \in {flash[b][p], Erased, Half}
    BY <1>0, <1>3
<1>4. \/ f = flash
      \/ \E k : \E left \in Left(k) : f = [flash EXCEPT ![k] = left]
      \/ \E k, q : f = [flash EXCEPT ![k][q] = Half]
    BY DEF Interrupted
<1>5. ~Is("burn") /\ ~Is("erase") => f = flash
    BY DEF Interrupted, TypeInv, WriterOK, NoWriter, WriterAt
<1> QED
    BY <1>1, <1>2, <1>3, <1>4, <1>5

LEMMA PowerCutTypes ==
    ASSUME TypeInv, PowerCut
    PROVE  TypeInv'
<1>1. /\ UNCHANGED <<command, host, toHost, used>> /\ toTarget' = << >>
      /\ writer' = NoWriter /\ copy' = NoCopy
      /\ flash' \in [Blocks -> [Pages -> Contents]]
    BY InterruptedIs DEF PowerCut
<1>2. TargetOK' /\ target'.at = "off"
    BY DEF PowerCut, Become, TargetOK, Is
<1>3. WriterOK' /\ CopyOK'
    BY <1>1, <1>2 DEF WriterOK, CopyOK, Is, NoWriter, NoCopy
<1>4. faults' \in [FaultKinds -> Nat] /\ toTarget' \in Seq(Requests)
    BY <1>1, FaultTypes, EmptySeq DEF PowerCut, FaultKinds
<1> QED
    BY <1>1, <1>2, <1>3, <1>4, TypesFrom DEF TypeInv

LEMMA InitTypes ==
    ASSUME Init
    PROVE  TypeInv
<1>1. flash \in [Blocks -> [Pages -> Contents]]
  <2> SUFFICES ASSUME NEW b \in Blocks, NEW p \in Pages
               PROVE  (IF b = OldAt /\ p = 0 THEN Header(Old, b)
                       ELSE LET n == (b - OldAt) * PagesPerBlock + p
                            IN  IF n \in 1 .. NumPage[Old] THEN Data(Old, n) ELSE Erased) \in Contents
    BY DEF Init
  <2>1. Old \in Images
    BY LoaderAssumption
  <2> QED
    BY <2>1, ContentTypes
<1>2. faults \in [FaultKinds -> Nat] /\ command \in Commands /\ used \in Int
    BY DEF Init
<1>3. host \in 0 .. Steps + 1
    BY DEF Init, Steps
<1>4. toTarget \in Seq(Requests)
    BY EmptySeq DEF Init
<1>5. toHost \in Seq(Answers)
    BY DEF Init, Answers
<1>6. TargetOK /\ WriterOK /\ CopyOK
    BY DEF Init, TargetOK, WriterOK, CopyOK, Is, NoWriter, NoCopy
<1> QED
    BY <1>1, <1>2, <1>3, <1>4, <1>5, <1>6 DEF TypeInv

LEMMA StepTypes ==
    ASSUME TypeInv, [Next]_vars
    PROVE  TypeInv'
<1>1. CASE HostStep
    BY <1>1, HostTypes
<1>2. CASE TargetStep
    BY <1>2, GetCmdTypes, GetHeaderTypes, GetBytesTypes, DecodeImageTypes, BurnedTypes, EraseAllTypes,
       FinishTypes, TimeOutTypes, BurningTypes, WipingTypes DEF TargetStep, TimeOut, TypeInv
<1>3. CASE StartStep
    BY <1>3, NandBootTypes, CopyingTypes, CopiedTypes DEF StartStep
<1>4. CASE FaultStep
  <2>1. CASE SlowHost
    BY <2>1, FaultTypes, TimeOutTypes DEF SlowHost, FaultKinds
  <2> QED
    BY <1>4, <2>1, LineFaultTypes, PowerCutTypes DEF FaultStep
<1>5. CASE UNCHANGED vars
    BY <1>5 DEF vars, flashVars, lineVars, TypeInv, Steps, Requests, Answers, TargetOK, WriterOK,
                Underway, CopyOK, Is, WriterAt, NoWriter, NoCopy, Parts, NumBlks, FirstOf, LastOf, Cmd
<1> QED
    BY <1>1, <1>2, <1>3, <1>4, <1>5 DEF Next

\* What the types leave out and every later invariant needs: the places the dialog
\* and the line can be in for each command, and that burning and copying go on only
\* while the boot loader is at them.
THEOREM Types == Spec => []TypeInv
<1>1. Init => TypeInv
    BY InitTypes
<1>2. TypeInv /\ [Next]_vars => TypeInv'
    BY StepTypes
<1> QED
    BY <1>1, <1>2, PTL DEF Spec

\* The state of the loader has the types SerialLoader states, for any images,
\* memory and device, and any number of faults.
THEOREM TypeCorrect == Spec => []TypeOK
<1>1. ASSUME TypeInv PROVE TypeOK
  <2>1. NandTypeOK
    <3>1. writer.at \in {"none", "erase", "erasing", "header", "data", "wiping", "passed", "failed"}
      BY <1>1, WriterIs DEF TypeInv, WriterOK, NoWriter
    <3>2. copy.at \in {"none", "find", "read", "booted", "failed", "hung"}
      BY <1>1 DEF TypeInv, CopyOK, NoCopy
    <3> QED
      BY <1>1, <3>1, <3>2 DEF TypeInv, NandTypeOK
  <2>2. command \in Commands /\ host \in 0 .. Len(Dialog) + 1
    BY <1>1, DialogIs DEF TypeInv
  <2>3. target.at \in {"cmd", "ack", "bytes", "decode", "burn", "erase", "end", "reset", "running",
                       "crashed", "hung", "copying", "off"}
    BY <1>1 DEF TypeInv, TargetOK
  <2> DEFINE M == {Spoilt, Rest} \cup {Cmd(c) : c \in Commands} \cup {Ack(i) : i \in Images}
                  \cup {Bytes(i) : i \in Images}
             A == {Dialog[i].answer : i \in DOMAIN Dialog} \cup {"SENDAPP"}
  <2>4. Requests \subseteq M
    BY <2>2 DEF Requests
  <2>5. Answers \subseteq A
    <3>1. \A i \in DOMAIN Dialog : Dialog[i].answer \in A
      OBVIOUS
    <3>2. "SENDAPP" \in A
      OBVIOUS
    <3> HIDE DEF A
    <3>3. "BOOTPSP" \in A /\ "DONE" \in A
      BY <2>2, <3>1, DialogIs DEF Wait, Steps
    <3>4. command = "burn" => "SENDUBL" \in A /\ "BEGIN" \in A
      BY <2>2, <3>1, DialogIs DEF Wait, Steps
    <3>5. command = "run" => "BEGIN" \in A
      BY <2>2, <3>1, DialogIs DEF Wait, Steps
    <3>6. command \in {"burn", "run", "erase"}
      BY <2>2, LoaderAssumption
    <3> QED
      BY <3>2, <3>3, <3>4, <3>5, <3>6 DEF Answers
  <2>6. toTarget \in Seq(Requests) /\ toHost \in Seq(Answers) /\ used \in Int
    BY <1>1 DEF TypeInv
  <2> HIDE DEF M, A
  <2>7. toTarget \in Seq(M) /\ toHost \in Seq(A)
    BY <2>4, <2>5, <2>6, SeqMonotonic
  <2> QED
    BY <2>1, <2>2, <2>3, <2>6, <2>7 DEF TypeOK, M, A
<1> QED
    BY <1>1, Types, PTL

-----------------------------------------------------------------------------
(* What can come of a step.                                                *)

LEMMA FaultsGrow ==
    ASSUME TypeInv, [Next]_vars
    PROVE  \A k \in FaultKinds : faults'[k] >= faults[k]
<1>1. CASE UNCHANGED faults
    BY <1>1 DEF TypeInv
<1>2. CASE \E kind \in FaultKinds : Fault(kind)
  <2>1. PICK kind \in FaultKinds : Fault(kind)
    BY <1>2
  <2>2. /\ faults'[kind] = faults[kind] + 1
        /\ \A k \in FaultKinds \ {kind} : faults'[k] = faults[k]
    BY <2>1, FaultTypes
  <2> QED
    BY <2>2 DEF TypeInv
<1>3. CASE HostStep
    BY <1>1, <1>3 DEF HostStep, Answered, Skip, StartOver
<1>4. CASE GetCmd \/ GetHeader \/ GetBytes \/ DecodeImage \/ Burned \/ EraseAll \/ Finish \/ TimeOut
    BY <1>1, <1>4 DEF GetCmd, GetHeader, GetBytes, DecodeImage, Burned, EraseAll, Finish, TimeOut
<1>5. CASE Wiping
  <2>1. UNCHANGED faults \/ Fault("erase") \/ Fault("unseen")
    BY <1>5 DEF Wiping, WipeBlock, Erase, EraseTimesOut, NoFault
  <2> QED
    BY <1>1, <1>2, <2>1 DEF FaultKinds
<1>6. CASE Burning
  <2>1. UNCHANGED faults \/ Fault("erase") \/ Fault("unseen") \/ Fault("write")
    BY <1>6 DEF Burning, Writing, Unprotect, EraseBlock, Erase, EraseTimesOut, WriteHeader, WriteData,
                Program, NoFault
  <2> QED
    BY <1>1, <1>2, <2>1 DEF FaultKinds
<1>7. CASE StartStep
  <2>1. UNCHANGED faults \/ Fault("read")
    BY <1>7 DEF StartStep, NandBoot, Copying, Booting, Copied, FindHeader, CopyPage, Decode, NoFault
  <2> QED
    BY <1>1, <1>2, <2>1 DEF FaultKinds
<1>8. CASE FaultStep
    BY <1>2, <1>8 DEF FaultStep, LoseRequest, LoseAnswer, SlowHost, PowerCut, FaultKinds
<1>9. CASE UNCHANGED vars
    BY <1>1, <1>9 DEF vars
<1> QED
    BY <1>3, <1>4, <1>5, <1>6, <1>7, <1>8, <1>9 DEF Next, TargetStep

\* The conditions were true before, and exclude the faults they name.
LEMMA StillOnTime ==
    ASSUME TypeInv, [Next]_vars, OnTime'
    PROVE  OnTime /\ ~SlowHost /\ ~PowerCut
<1>1. /\ \A k \in {"slow", "power", "torn"} : faults'[k] >= faults[k] /\ faults[k] \in Nat
    BY FaultsGrow DEF FaultKinds, TypeInv
<1>2. SlowHost => faults'["slow"] = faults["slow"] + 1
    BY FaultTypes DEF SlowHost, FaultKinds
<1>3. PowerCut => faults'["power"] = faults["power"] + 1 \/ faults'["torn"] = faults["torn"] + 1
  <2>1. PowerCut => Fault("power") \/ Fault("torn")
    BY DEF PowerCut
  <2> QED
    BY <2>1, FaultTypes DEF FaultKinds
<1> QED
    BY <1>1, <1>2, <1>3 DEF OnTime

LEMMA StillNoneLost ==
    ASSUME TypeInv, [Next]_vars, NoneLost'
    PROVE  NoneLost /\ ~LoseRequest
<1>1. faults'["request"] >= faults["request"] /\ faults["request"] \in Nat
    BY FaultsGrow DEF FaultKinds, TypeInv
<1>2. LoseRequest => faults'["request"] = faults["request"] + 1
    BY FaultTypes DEF LoseRequest, FaultKinds
<1> QED
    BY <1>1, <1>2 DEF NoneLost

LEMMA StillInStep ==
    ASSUME TypeInv, [Next]_vars, InStep'
    PROVE  InStep
BY StillOnTime, StillNoneLost DEF InStep

-----------------------------------------------------------------------------
(* Alternate.                                                              *)

dialogVars == <<command, host, target, toTarget, toHost>>

LEMMA AlternateSame ==
    ASSUME Alternate, UNCHANGED dialogVars
    PROVE  Alternate'
BY DEF Alternate, dialogVars, Engaged, After, Low, High, Steps, Wanted, Arrived, Is, Cmd, Ack, Bytes,
       Spoilt, Rest, ImageOf

LEMMA AlternateInit ==
    ASSUME Init
    PROVE  Alternate
BY DEF Init, Alternate, Is, Engaged, After, Arrived

LEMMA AlternateAnswered ==
    ASSUME TypeInv, Alternate, Answered
    PROVE  Alternate'
<1>1. /\ host \in 1 .. Steps /\ toHost # << >> /\ host' = host + 1
      /\ toHost' = Tail(toHost)
      /\ Upcoming \in Requests
      /\ toTarget' = IF Sending THEN toTarget \o <<Upcoming>> ELSE toTarget
      /\ ~Sending => toHost[1] = "DONE"
      /\ Sending => toHost[1] # "DONE"
      /\ toHost[1] = "BOOTPSP" => host = 1
      /\ UNCHANGED <<command, target>>
    BY AnsweredDoes
<1>2. /\ Len(toHost) \in Nat \ {0} /\ DOMAIN toHost = 1 .. Len(toHost)
      /\ Len(toHost') = Len(toHost) - 1 /\ DOMAIN toHost' = 1 .. Len(toHost) - 1
      /\ \A i \in 1 .. Len(toHost) - 1 : toHost'[i] = toHost[i + 1]
    BY <1>1, TailFacts DEF TypeInv
<1>3. toTarget = << >> /\ ~Is("crashed") /\ ~Is("off")
    BY <1>1 DEF Alternate
<1>4. TargetOK /\ command \in {"burn", "run", "erase"} /\ host \in Nat
    BY LoaderAssumption DEF TypeInv, Steps
<1>5. UNCHANGED <<Low, High, Engaged, Steps, Wanted>> /\ \A x : Is(x)' <=> Is(x)
    BY <1>1 DEF Low, High, Engaged, After, Steps, Wanted, Is, Cmd, Ack, Bytes, ImageOf
<1>6. Arrived'
    BY <1>1, <1>2, <1>5 DEF Alternate, Arrived, Is
<1>7. Engaged => Low <= host' /\ host' + Len(toHost') <= High + 1
    BY <1>1, <1>2, <1>4 DEF Alternate, Low, High
<1>a. Is("hung")' => host' > 1 /\ host' + Len(toHost') <= Steps' + 1
  <2>1. Steps \in Nat
    BY DEF Steps
  <2> QED
    BY <1>1, <1>2, <1>4, <1>5, <2>1 DEF Alternate
<1>8. CASE ~Sending
  <2>1. host' # 1 /\ host' # 0
    BY <1>1, <1>4, <1>8 DEF Sending
  <2>2. toTarget' = << >>
    BY <1>1, <1>3, <1>8
  <2> QED
    BY <1>3, <1>5, <1>6, <1>7, <1>a, <2>1, <2>2 DEF Alternate
<1>9. CASE Sending
  <2>1. /\ toTarget' # << >> /\ Len(toTarget') = 1 /\ toTarget'[1] = Upcoming
    BY <1>1, <1>3, <1>9
  <2>2. toHost[1] # "DONE" /\ 1 \in DOMAIN toHost
    BY <1>1, <1>2, <1>9
  <2>3. CASE Is("cmd")
    <3>1. toHost[1] = "BOOTPSP" /\ 1 = Len(toHost)
      BY <2>2, <2>3 DEF Alternate, Arrived
    <3>2. host = 1 /\ Upcoming = Wanted /\ High = 1
      BY <1>1, <2>3, <3>1 DEF Upcoming, Wanted, High
    <3>3. toHost' = << >>
      BY <1>1, <1>2, <3>1, EmptySeq, TailFacts DEF TypeInv
    <3>4. host' = 2 /\ host' = High' + 1 /\ toTarget'[1] = Wanted' /\ target'.at = "cmd" /\ ~Is("off")'
      BY <1>1, <1>3, <1>5, <2>1, <2>3, <3>2 DEF Is
    <3>5. host' # 1 /\ host' # 0
      BY <3>4
    <3>6. ~Is("crashed")' /\ (Engaged' => Low' <= host' /\ host' + Len(toHost') <= High' + 1)
      BY <1>3, <1>5, <1>7
    <3> QED
      BY <1>6, <1>a, <2>1, <3>3, <3>4, <3>5, <3>6 DEF Alternate
  <2>4. CASE ~Is("cmd")
    <3>1. target.at \in {"ack", "bytes"} /\ toHost[1] # "BOOTPSP"
      BY <2>2, <2>4 DEF Alternate, Arrived
    <3>2. target.part \in Parts /\ Engaged
      BY <1>4, <3>1 DEF TargetOK, Engaged
    <3>3. Low <= host /\ host + Len(toHost) <= High + 1 /\ host # 1
      BY <2>4, <3>2 DEF Alternate
    <3>4. host = High /\ Len(toHost) = 1 /\ Upcoming = Wanted
      BY <1>2, <1>4, <1>9, <3>1, <3>2, <3>3 DEF Low, High, Is, Parts, Sending, Upcoming, Wanted, ImageOf
    <3>5. toHost' = << >>
      BY <1>1, <1>2, <3>4, EmptySeq, TailFacts DEF TypeInv
    <3> QED
      BY <1>1, <1>3, <1>4, <1>5, <1>6, <1>7, <1>a, <2>1, <3>1, <3>4, <3>5 DEF Alternate, Is
  <2> QED
    BY <2>3, <2>4
<1> QED
    BY <1>8, <1>9

LEMMA AlternateSkip ==
    ASSUME TypeInv, Alternate, Skip
    PROVE  Alternate'
<1>1. /\ host \in 1 .. Steps /\ toHost # << >> /\ Head(toHost) # "BOOTPSP"
      /\ toHost' = Tail(toHost) /\ UNCHANGED <<command, host, target, toTarget>>
    BY DialogIs DEF Skip, Talking, TypeInv
<1>2. /\ Len(toHost) \in Nat \ {0} /\ DOMAIN toHost = 1 .. Len(toHost) /\ Head(toHost) = toHost[1]
      /\ Len(toHost') = Len(toHost) - 1 /\ DOMAIN toHost' = 1 .. Len(toHost) - 1
      /\ \A i \in 1 .. Len(toHost) - 1 : toHost'[i] = toHost[i + 1]
    BY <1>1, TailFacts DEF TypeInv
<1>3. toTarget = << >> /\ ~Is("crashed") /\ ~Is("off") /\ host # 1 /\ host # 0
    BY <1>1, <1>2 DEF Alternate
<1>4. UNCHANGED <<Low, High, Engaged, Steps, Wanted>> /\ \A x : Is(x)' <=> Is(x)
    BY <1>1 DEF Low, High, Engaged, After, Steps, Wanted, Is, Cmd, Ack, Bytes, ImageOf
<1>5. Arrived'
    BY <1>1, <1>2, <1>4 DEF Alternate, Arrived, Is
<1>6. High \in Int /\ host \in Int
    BY <1>1 DEF High, Steps
<1>7. Engaged => Low <= host' /\ host' + Len(toHost') <= High + 1
    BY <1>1, <1>2, <1>6 DEF Alternate
<1>8. Is("hung")' => host' > 1 /\ host' + Len(toHost') <= Steps' + 1
  <2>1. Steps \in Nat
    BY DEF Steps
  <2> QED
    BY <1>1, <1>2, <1>4, <1>6, <2>1 DEF Alternate
<1> QED
    BY <1>1, <1>3, <1>4, <1>5, <1>7, <1>8 DEF Alternate

LEMMA AlternateStartOver ==
    ASSUME TypeInv, Alternate, StartOver
    PROVE  Alternate'
<1>1. /\ host \in 1 .. Steps /\ toHost # << >> /\ Head(toHost) = "BOOTPSP"
      /\ host' \in {0, 1} /\ UNCHANGED <<command, target, toTarget>>
      /\ toHost' \in {Tail(toHost), << >>} \/ Len(toHost) > 1
    BY DialogIs DEF StartOver, Talking, TypeInv, GaveUp
<1> DEFINE t == Tail(toHost)
<1>2. /\ Len(toHost) \in Nat \ {0} /\ DOMAIN toHost = 1 .. Len(toHost) /\ Head(toHost) = toHost[1]
      /\ t \in Seq(Answers) /\ Len(t) = Len(toHost) - 1
    BY <1>1, TailFacts DEF TypeInv
<1>3. Is("cmd") /\ 1 = Len(toHost) /\ toTarget = << >>
    BY <1>1, <1>2 DEF Alternate, Arrived, Is
<1>c. toHost' \in {t, << >>} \/ Len(toHost) > 1
    BY <1>1
<1> HIDE DEF t
<1> DEFINE n == Len(toHost)
<1>d. n = 1 /\ Len(t) = n - 1
    BY <1>2, <1>3
<1> HIDE DEF n
<1>a. t \in Seq(Answers) /\ Len(t) = 0 /\ ~(Len(toHost) > 1)
  <2>1. Len(t) = 0 /\ ~(n > 1)
    BY <1>d
  <2> QED
    BY <1>2, <2>1 DEF n
<1>b. toHost' \in {t, << >>}
    BY <1>c, <1>a
<1>4. toHost' = << >>
    BY <1>a, <1>b, EmptySeq
<1>5. DOMAIN toHost' = {}
    BY <1>4
<1>6. target'.at = "cmd"
    BY <1>1, <1>3 DEF Is
<1> QED
    BY <1>1, <1>3, <1>4, <1>5, <1>6 DEF Alternate, Arrived, Is, Engaged, After

\* The target back at its prompt: the line holds the answers that were under
\* way, all DONE, and BOOTPSP.
LEMMA AlternateTryAgain ==
    ASSUME TypeInv, Alternate, TryAgain, UNCHANGED <<command, host>>, toTarget' = << >>,
           \A i \in DOMAIN toHost : toHost[i] = "DONE",
           host \in 2 .. Steps + 1 \/ (Is("cmd") /\ toHost = << >>)
    PROVE  Alternate'
<1>1. target'.at = "cmd" /\ toHost' = toHost \o <<"BOOTPSP">>
    BY DEF TryAgain, UartBoot, Become, Say
<1>2. "BOOTPSP" \in Answers /\ toHost \in Seq(Answers)
    BY DEF Answers, TypeInv
<1>3. /\ Len(toHost) \in Nat /\ DOMAIN toHost = 1 .. Len(toHost)
      /\ Len(toHost') = Len(toHost) + 1 /\ DOMAIN toHost' = 1 .. Len(toHost) + 1
      /\ \A i \in 1 .. Len(toHost) : toHost'[i] = toHost[i]
      /\ toHost'[Len(toHost) + 1] = "BOOTPSP"
    BY <1>1, <1>2, SayFacts
<1>4. Arrived'
    BY <1>1, <1>3 DEF Arrived, Is
<1>5. host' = 1 => \A i \in DOMAIN toHost' : toHost'[i] = "BOOTPSP"
  <2>1. host = 1 => toHost = << >>
    BY DEF Steps
  <2>2. toHost = << >> => Len(toHost) = 0
    OBVIOUS
  <2>3. host = 1 => DOMAIN toHost' = {1} /\ toHost'[1] = "BOOTPSP"
    BY <1>3, <2>1, <2>2
  <2> QED
    BY <2>3
<1> QED
    BY <1>1, <1>4, <1>5 DEF Alternate, Is, Engaged, After

\* The target says one more thing, and waits for what comes next.
LEMMA AlternateSays ==
    ASSUME TypeInv, Alternate, NEW e \in Answers, toHost' = toHost \o <<e>>,
           UNCHANGED <<command, host>>, toTarget' = << >>,
           Engaged', ~Is("cmd")', Low' <= host, host + Len(toHost) <= High', host \notin {0, 1},
           e # "BOOTPSP", \A i \in DOMAIN toHost : toHost[i] # "BOOTPSP",
           \/ target'.at \in {"ack", "bytes"}
           \/ e = "DONE" /\ \A i \in DOMAIN toHost : toHost[i] = "DONE"
    PROVE  Alternate'
<1>1. /\ Len(toHost) \in Nat /\ DOMAIN toHost = 1 .. Len(toHost)
      /\ Len(toHost') = Len(toHost) + 1 /\ DOMAIN toHost' = 1 .. Len(toHost) + 1
      /\ \A i \in 1 .. Len(toHost) : toHost'[i] = toHost[i]
      /\ toHost'[Len(toHost) + 1] = e
    BY SayFacts DEF TypeInv
<1>2. \A i \in DOMAIN toHost' : toHost'[i] \in {e} \cup {toHost[j] : j \in DOMAIN toHost}
    BY <1>1
<1>3. Arrived'
    BY <1>2 DEF Arrived, Is
<1>4. host' + Len(toHost') <= High' + 1
  <2>1. host \in Int /\ High' \in Int
    BY DEF TypeInv, Steps, High
  <2> QED
    BY <1>1, <2>1
<1>5. ~Is("off")' /\ ~Is("crashed")' /\ ~Is("hung")'
    BY DEF Engaged, After, Is
<1> QED
    BY <1>3, <1>4, <1>5 DEF Alternate

\* The target has taken a request: the line is empty, and the host waits.
LEMMA AlternateTaken ==
    ASSUME TypeInv, Alternate, toTarget # << >>
    PROVE  /\ toHost = << >> /\ Len(toHost) = 0 /\ Len(toTarget) = 1 /\ Tail(toTarget) = << >>
           /\ Head(toTarget) = toTarget[1] /\ toTarget[1] \in Requests
           /\ host = High + 1 /\ host \in 2 .. Steps
           /\ toTarget[1] \in {Wanted, Rest} \/ (Is("bytes") /\ toTarget[1] = Spoilt)
           /\ target.at \in {"cmd", "ack", "bytes"} /\ DOMAIN toHost = {}
<1>1. /\ toHost = << >> /\ Len(toTarget) = 1 /\ host = High + 1
      /\ target.at \in {"cmd", "ack", "bytes"}
      /\ toTarget[1] \in {Wanted, Rest} \/ (Is("bytes") /\ toTarget[1] = Spoilt)
    BY DEF Alternate
<1>2. /\ Head(toTarget) = toTarget[1] /\ toTarget[1] \in Requests
      /\ Tail(toTarget) \in Seq(Requests) /\ Len(Tail(toTarget)) = 0
    BY <1>1, TailFacts DEF TypeInv
<1>3. Tail(toTarget) = << >>
    BY <1>2, EmptySeq
<1>4. host \in 2 .. Steps
  <2>1. CASE Is("cmd")
    BY <1>1, <2>1 DEF High, Steps
  <2>2. CASE ~Is("cmd")
    <3>1. target.part \in Parts
      BY <1>1, <2>2 DEF TypeInv, TargetOK, Is
    <3> QED
      BY <1>1, <2>2, <3>1 DEF High, Steps, Parts, Is
  <2> QED
    BY <2>1, <2>2
<1>5. Len(toHost) = 0 /\ DOMAIN toHost = {}
    BY <1>1
<1> QED
    BY <1>1, <1>2, <1>3, <1>4, <1>5

LEMMA AlternateGetCmd ==
    ASSUME TypeInv, Alternate, GetCmd
    PROVE  Alternate'
<1>1. toTarget # << >> /\ Is("cmd") /\ UNCHANGED <<command, host>>
    BY DEF GetCmd
<1>2. /\ toHost = << >> /\ Len(toHost) = 0 /\ Tail(toTarget) = << >>
      /\ Head(toTarget) = toTarget[1] /\ toTarget[1] \in Requests
      /\ host = High + 1 /\ host \in 2 .. Steps /\ toTarget[1] \in {Wanted, Rest}
      /\ DOMAIN toHost = {}
    BY <1>1, AlternateTaken DEF Is
<1>3. host = 2 /\ Wanted = Cmd(command)
    BY <1>1, <1>2 DEF High, Wanted
<1>4. CASE toTarget[1] = Rest
  <2>0. Head(toTarget) = Rest /\ Head(toTarget).kind # "CMD"
    BY <1>2, <1>4 DEF Rest
  <2>a. Mismatch /\ TryAgain
    BY <2>0 DEF GetCmd
  <2>1. TryAgain /\ toTarget' = << >>
    BY <1>2, <2>0, <2>a DEF Mismatch, Takes
  <2>2. host \in 2 .. Steps + 1
    BY <1>2 DEF Steps
  <2> QED
    BY <1>1, <1>2, <2>1, <2>2, AlternateTryAgain
<1>5. CASE toTarget[1] = Cmd(command)
  <2>1. command \in {"burn", "run", "erase"}
    BY LoaderAssumption DEF TypeInv
  <2>0. Head(toTarget).kind = "CMD" /\ Head(toTarget).img = command
    BY <1>2, <1>5 DEF Cmd
  <2>a. /\ Takes
        /\ CASE Head(toTarget).img = "burn" -> Become("ack", "ubl", "none") /\ Say(<<"SENDUBL">>)
             [] Head(toTarget).img = "run" -> Become("ack", "run", "none") /\ Say(<<"SENDAPP">>)
             [] Head(toTarget).img = "erase" -> Become("erase", "none", "none") /\ UNCHANGED toHost
    BY <2>0 DEF GetCmd
  <2>2. toTarget' = << >>
    BY <1>2, <2>a DEF Takes
  <2>3. CASE command = "burn"
    <3>1. Become("ack", "ubl", "none") /\ Say(<<"SENDUBL">>)
      BY <2>0, <2>a, <2>3
    <3>2. toHost' = toHost \o <<"SENDUBL">> /\ "SENDUBL" \in Answers
      BY <2>3, <3>1 DEF Say, Answers
    <3>3. /\ target'.at = "ack" /\ Engaged' /\ ~Is("cmd")' /\ Low' <= host /\ host + Len(toHost) <= High'
      BY <1>2, <1>3, <3>1 DEF Become, Engaged, Is, Low, High
    <3> QED
      BY <1>1, <1>2, <1>3, <2>2, <3>2, <3>3, AlternateSays
  <2>4. CASE command = "run"
    <3>1. Become("ack", "run", "none") /\ Say(<<"SENDAPP">>)
      BY <2>0, <2>a, <2>4
    <3>2. toHost' = toHost \o <<"SENDAPP">> /\ "SENDAPP" \in Answers
      BY <2>4, <3>1 DEF Say, Answers
    <3>3. /\ target'.at = "ack" /\ Engaged' /\ ~Is("cmd")' /\ Low' <= host /\ host + Len(toHost) <= High'
      BY <1>2, <1>3, <3>1 DEF Become, Engaged, Is, Low, High
    <3> QED
      BY <1>1, <1>2, <1>3, <2>2, <3>2, <3>3, AlternateSays
  <2>5. CASE command = "erase"
    <3>1. Become("erase", "none", "none") /\ UNCHANGED toHost
      BY <2>0, <2>a, <2>5
    <3>2. /\ target'.at = "erase" /\ toHost' = << >> /\ Low' = 2 /\ High' = 1
      BY <1>1, <1>2, <2>5, <3>1 DEF Become, Low, High, Is, After, Steps
    <3> QED
      BY <1>1, <1>2, <1>3, <2>2, <3>2 DEF Alternate, Arrived, Is
  <2> QED
    BY <2>1, <2>3, <2>4, <2>5
<1> QED
    BY <1>2, <1>3, <1>4, <1>5

LEMMA AlternateGetHeader ==
    ASSUME TypeInv, Alternate, GetHeader
    PROVE  Alternate'
<1>1. toTarget # << >> /\ Is("ack") /\ UNCHANGED <<command, host>>
    BY DEF GetHeader
<1>2. /\ toHost = << >> /\ Len(toHost) = 0 /\ Tail(toTarget) = << >>
      /\ Head(toTarget) = toTarget[1] /\ toTarget[1] \in Requests
      /\ host = High + 1 /\ host \in 2 .. Steps /\ toTarget[1] \in {Wanted, Rest}
      /\ DOMAIN toHost = {}
    BY <1>1, AlternateTaken DEF Is
<1>3. target.part \in Parts
    BY <1>1 DEF TypeInv, TargetOK, Is
<1>4. host = (IF target.part = "app" THEN 7 ELSE 3) /\ Wanted = Ack(ImageOf(target.part))
    BY <1>1, <1>2 DEF High, Wanted, Is
<1>5. CASE toTarget[1] = Rest
  <2>1. TryAgain /\ toTarget' = << >>
    BY <1>2, <1>5 DEF GetHeader, Mismatch, Takes, Rest
  <2>2. host \in 2 .. Steps + 1
    BY <1>2 DEF Steps
  <2> QED
    BY <1>1, <1>2, <2>1, <2>2, AlternateTryAgain
<1>6. CASE toTarget[1] = Wanted
  <2>1. toTarget' = << >> /\ toTarget[1].kind = "ACK"
    BY <1>2, <1>4, <1>6 DEF GetHeader, Takes, Ack
  <2>2. CASE \E img : Become("bytes", target.part, img) /\ Say(<<"BEGIN">>)
    <3>1. toHost' = toHost \o <<"BEGIN">> /\ "BEGIN" \in Answers
      BY <1>3, <2>2 DEF Say, Answers, Parts
    <3>2. /\ target'.at = "bytes" /\ Engaged' /\ ~Is("cmd")' /\ Low' <= host /\ host + Len(toHost) <= High'
      BY <1>2, <1>4, <2>2 DEF Become, Engaged, Is, Low, High
    <3> QED
      BY <1>1, <1>2, <1>4, <2>1, <3>1, <3>2, AlternateSays
  <2>3. CASE Become("crashed", "none", "none") /\ UNCHANGED toHost
    BY <1>1, <1>2, <2>1, <2>3 DEF Become, Alternate, Is, Engaged, After, Arrived, Steps
  <2> QED
    BY <1>2, <2>1, <2>2, <2>3 DEF GetHeader
<1> QED
    BY <1>2, <1>5, <1>6

LEMMA AlternateGetBytes ==
    ASSUME TypeInv, Alternate, GetBytes
    PROVE  Alternate'
<1>1. toTarget # << >> /\ Is("bytes") /\ UNCHANGED <<command, host>> /\ toTarget' = Tail(toTarget)
    BY DEF GetBytes, Takes
<1>2. /\ toHost = << >> /\ Len(toHost) = 0 /\ Tail(toTarget) = << >>
      /\ host = High + 1 /\ host \in 2 .. Steps /\ DOMAIN toHost = {}
    BY <1>1, AlternateTaken DEF Is
<1>3. target.part \in Parts
    BY <1>1 DEF TypeInv, TargetOK, Is
<1>4. host = IF target.part = "app" THEN 8 ELSE 4
    BY <1>1, <1>2 DEF High, Is
<1>5. CASE TryAgain
  <2>2. host \in 2 .. Steps + 1
    BY <1>2 DEF Steps
  <2> QED
    BY <1>1, <1>2, <1>5, <2>2, AlternateTryAgain
<1>6. CASE \E img : Become("decode", target.part, img) /\ Say(<<"DONE">>)
  <2>1. toHost' = toHost \o <<"DONE">> /\ "DONE" \in Answers
    BY <1>6 DEF Say, Answers
  <2>2. /\ target'.at = "decode" /\ target'.part = target.part
    BY <1>6 DEF Become
  <2>3. /\ Engaged' /\ ~Is("cmd")' /\ Low' <= host /\ host + Len(toHost) <= High'
    BY <1>1, <1>2, <1>3, <1>4, <2>2 DEF Engaged, Is, Low, High, Parts
  <2> QED
    BY <1>1, <1>2, <1>4, <2>1, <2>3, AlternateSays
<1> QED
    BY <1>5, <1>6 DEF GetBytes

\* Past its requests the target has only DONE on the line.
LEMMA AlternateWorking ==
    ASSUME TypeInv, Alternate, Engaged, target.at \notin {"ack", "bytes"}
    PROVE  /\ toTarget = << >> /\ \A i \in DOMAIN toHost : toHost[i] = "DONE"
           /\ Low <= host /\ host + Len(toHost) <= High + 1 /\ host \in 2 .. Steps + 1
<1>1. toTarget = << >> /\ ~Is("cmd")
    BY DEF Alternate, Engaged, After, Is
<1>2. \A i \in DOMAIN toHost : toHost[i] = "DONE"
    BY <1>1 DEF Alternate, Arrived
<1>3. Low <= host /\ host + Len(toHost) <= High + 1
    BY DEF Alternate
<1>4. Low >= 2 /\ Low \in Int /\ host \in 0 .. Steps + 1
    BY DEF Low, TypeInv
<1>5. Steps \in Nat
    BY DEF Steps
<1> QED
    BY <1>1, <1>2, <1>3, <1>4, <1>5

LEMMA AlternateDecodeImage ==
    ASSUME TypeInv, Alternate, DecodeImage
    PROVE  Alternate'
<1>1. Is("decode") /\ Engaged /\ UNCHANGED <<command, host, toTarget>>
    BY DEF DecodeImage, Engaged, Is
<1>2. /\ toTarget = << >> /\ \A i \in DOMAIN toHost : toHost[i] = "DONE"
      /\ Low <= host /\ host + Len(toHost) <= High + 1 /\ host \in 2 .. Steps + 1
    BY <1>1, AlternateWorking DEF Is
<1>3. target.part \in Parts
    BY <1>1 DEF TypeInv, TargetOK, Is
<1>4. CASE TryAgain
    BY <1>1, <1>2, <1>4, AlternateTryAgain
<1>a. CASE Become("hung", "none", "none") /\ UNCHANGED toHost
  <2>1. target'.at = "hung" /\ host > 1
    BY <1>2, <1>a DEF Become, Steps
  <2>2. High + 1 <= Steps + 1
    BY <1>1, <1>3 DEF High, Steps, Parts, Is, After
  <2>3. Len(toHost) \in Nat /\ host \in Int /\ High \in Int /\ Steps \in Int
    BY <1>2, LenProperties DEF TypeInv, Steps, High
  <2>4. host + Len(toHost) <= Steps + 1
    BY <1>2, <2>2, <2>3
  <2> QED
    BY <1>1, <1>2, <1>a, <2>1, <2>4 DEF Alternate, Arrived, Is, Engaged, After, Steps
<1>5. CASE ~TryAgain /\ ~(Become("hung", "none", "none") /\ UNCHANGED toHost)
  <2>1. /\ toHost' = toHost \o <<"DONE">> /\ "DONE" \in Answers
        /\ \/ target.part = "run" /\ target'.at = "end" /\ target'.part = "run"
           \/ target.part \in {"ubl", "app"} /\ target'.at = "burn" /\ target'.part = target.part
    BY <1>5 DEF DecodeImage, Become, Say, Answers
  <2>2. Engaged' /\ ~Is("cmd")' /\ Low' = Low /\ High' = High + 1
    BY <1>1, <1>3, <2>1 DEF Engaged, After, Is, Low, High, Parts, Steps
  <2>3. host + Len(toHost) \in Int /\ High \in Int /\ host \in Int
    <3>1. Len(toHost) \in Nat
      BY LenProperties DEF TypeInv
    <3> QED
      BY <1>2, <3>1 DEF High, Steps
  <2>4. Low' <= host /\ host + Len(toHost) <= High' /\ host \notin {0, 1}
    BY <1>2, <2>2, <2>3
  <2> QED
    BY <1>1, <1>2, <2>1, <2>2, <2>4, AlternateSays
<1> QED
    BY <1>4, <1>5, <1>a

LEMMA AlternateBurned ==
    ASSUME TypeInv, Alternate, Burned
    PROVE  Alternate'
<1>1. Is("burn") /\ Engaged /\ UNCHANGED <<command, host, toTarget>>
    BY DEF Burned, Engaged, Is
<1>2. /\ toTarget = << >> /\ \A i \in DOMAIN toHost : toHost[i] = "DONE"
      /\ Low <= host /\ host + Len(toHost) <= High + 1 /\ host \in 2 .. Steps + 1
    BY <1>1, AlternateWorking DEF Is
<1>3. target.part \in {"ubl", "app"} /\ command = "burn"
    BY <1>1, PlaceTypes
<1>4. Len(toHost) \in Nat /\ host \in Int
    BY <1>2, LenProperties DEF TypeInv, Steps
<1>5. CASE TryAgain
    BY <1>1, <1>2, <1>5, AlternateTryAgain
<1>6. CASE target.part = "ubl" /\ Become("ack", "app", "none") /\ Say(<<"SENDAPP">>)
  <2>1. toHost' = toHost \o <<"SENDAPP">> /\ "SENDAPP" \in Answers
    BY <1>3, <1>6 DEF Say, Answers
  <2>2. target'.at = "ack" /\ target'.part = "app"
    BY <1>6 DEF Become
  <2>3. Engaged' /\ ~Is("cmd")' /\ Low' = 4 /\ High' = 6 /\ Low = 4 /\ High = 5
    BY <1>1, <1>3, <1>6, <2>2 DEF Engaged, Is, Low, High
  <2>4. Low' <= host /\ host + Len(toHost) <= High' /\ host \notin {0, 1}
    BY <1>2, <1>4, <2>3
  <2> QED
    BY <1>1, <1>2, <2>1, <2>2, <2>3, <2>4, AlternateSays
<1>7. CASE target.part = "app" /\ Become("end", "burn", "none") /\ UNCHANGED toHost
  <2>1. target'.at = "end" /\ target'.part = "burn"
    BY <1>7 DEF Become
  <2>2. Low' = 8 /\ High' = 9 /\ Low = 8 /\ High = 9
    BY <1>1, <1>3, <1>7, <2>1 DEF Is, Low, High, After, Steps
  <2> QED
    BY <1>1, <1>2, <1>4, <1>7, <2>1, <2>2 DEF Alternate, Arrived, Is
<1> QED
    BY <1>5, <1>6, <1>7 DEF Burned

LEMMA AlternateEraseAll ==
    ASSUME TypeInv, Alternate, EraseAll
    PROVE  Alternate'
<1>1. Is("erase") /\ Engaged /\ UNCHANGED <<command, host, toTarget>>
    BY DEF EraseAll, Engaged, Is
<1>2. /\ toTarget = << >> /\ \A i \in DOMAIN toHost : toHost[i] = "DONE"
      /\ Low <= host /\ host + Len(toHost) <= High + 1 /\ host \in 2 .. Steps + 1
    BY <1>1, AlternateWorking DEF Is
<1>3. command = "erase"
    BY <1>1 DEF TypeInv, TargetOK, Is
<1>4. CASE TryAgain
    BY <1>1, <1>2, <1>4, AlternateTryAgain
<1>5. CASE Become("end", "erase", "none") /\ UNCHANGED toHost
  <2>1. target'.at = "end" /\ target'.part = "erase"
    BY <1>5 DEF Become
  <2>2. Low' = Low /\ High' = High
    BY <1>1, <1>3, <2>1 DEF Is, Low, High, After, Steps
  <2> QED
    BY <1>1, <1>2, <1>5, <2>1, <2>2 DEF Alternate, Arrived, Is, Steps
<1>6. CASE UNCHANGED <<target, toHost>>
    BY <1>1, <1>6, AlternateSame DEF dialogVars
<1> QED
    BY <1>4, <1>5, <1>6 DEF EraseAll

LEMMA AlternateFinish ==
    ASSUME TypeInv, Alternate, Finish
    PROVE  Alternate'
<1>1. Is("end") /\ Engaged /\ UNCHANGED <<command, host, toTarget>>
    BY DEF Finish, Engaged, Is
<1>2. /\ toTarget = << >> /\ \A i \in DOMAIN toHost : toHost[i] = "DONE"
      /\ Low <= host /\ host + Len(toHost) <= High + 1 /\ host \in 2 .. Steps + 1
    BY <1>1, AlternateWorking DEF Is
<1>3. target.part = command /\ command \in {"burn", "run", "erase"}
    BY <1>1, LoaderAssumption DEF TypeInv, TargetOK, Is
<1>4. Len(toHost) \in Nat /\ host \in Int /\ Steps \in Nat
    BY <1>2, LenProperties DEF TypeInv, Steps
<1>5. /\ toHost' = toHost \o <<"DONE">> /\ "DONE" \in Answers
      /\ target'.at \in {"running", "reset"} /\ target'.part \in {"run", "none"}
    BY DEF Finish, Become, Say, Answers
<1>6. Engaged' /\ ~Is("cmd")' /\ Low' = Low /\ High' = Steps /\ High = Steps - 1
    BY <1>1, <1>3, <1>5 DEF Engaged, After, Is, Low, High, Steps
<1>7. Low' <= host /\ host + Len(toHost) <= High' /\ host \notin {0, 1}
    BY <1>2, <1>4, <1>6
<1> QED
    BY <1>1, <1>2, <1>5, <1>6, <1>7, AlternateSays

LEMMA AlternateTimeOut ==
    ASSUME TypeInv, Alternate, TimeOut
    PROVE  Alternate'
<1>1. /\ toTarget = << >> /\ toHost = << >> /\ target.at \in {"cmd", "ack", "bytes"} /\ TryAgain
      /\ UNCHANGED <<command, host, toTarget>>
    BY DEF TimeOut, Waiting
<1>2. DOMAIN toHost = {}
    BY <1>1
<1>3. Is("cmd") \/ host \in 2 .. Steps + 1
  <2>1. CASE target.at \in {"ack", "bytes"}
    <3>1. Low <= host /\ Low >= 2 /\ Low \in Int
      BY <2>1 DEF Alternate, Engaged, Low
    <3> QED
      BY <3>1 DEF TypeInv, Steps
  <2> QED
    BY <1>1, <2>1 DEF Is
<1> QED
    BY <1>1, <1>2, <1>3, AlternateTryAgain

LEMMA AlternateStart ==
    ASSUME TypeInv, Alternate, NandBoot \/ Copied
    PROVE  Alternate'
<1>1. (Is("reset") \/ Is("copying")) /\ Engaged /\ After /\ UNCHANGED <<command, host>>
    BY DEF NandBoot, Copied, Engaged, After, Is, Alternate
<1>2. /\ toTarget = << >> /\ \A i \in DOMAIN toHost : toHost[i] = "DONE"
      /\ Low <= host /\ host + Len(toHost) <= High + 1 /\ host \in 2 .. Steps + 1
    BY <1>1, AlternateWorking DEF Is
<1>3. toTarget' = << >>
    BY <1>2 DEF NandBoot, Copied
<1>4. CASE TryAgain
    BY <1>1, <1>2, <1>3, <1>4, AlternateTryAgain
<1>a. CASE target'.at = "hung" /\ UNCHANGED toHost
  <2>1. High = Steps
    BY <1>1 DEF High, After, Is
  <2> QED
    BY <1>1, <1>2, <1>3, <1>a, <2>1 DEF Alternate, Arrived, Is, Engaged, After, Steps
<1>5. CASE target'.at \in {"copying", "running"} /\ target'.part \in {"none", "nand"} /\ UNCHANGED toHost
  <2>1. target.part = "none"
    BY <1>1 DEF TypeInv, TargetOK, Is
  <2>2. Low' = Low /\ High' = High
    BY <1>1, <1>5, <2>1 DEF Is, Low, High, After, Steps
  <2> QED
    BY <1>1, <1>2, <1>3, <1>5, <2>2 DEF Alternate, Arrived, Is, Steps
<1> QED
    BY <1>4, <1>5, <1>a DEF NandBoot, Copied, Become

LEMMA AlternateLoseRequest ==
    ASSUME TypeInv, Alternate, LoseRequest
    PROVE  Alternate'
<1>1. PICK i \in DOMAIN toTarget :
          \/ toTarget' = RemoveAt(toTarget, i)
          \/ toTarget' = [toTarget EXCEPT ![i] = Rest]
          \/ toTarget[i].kind = "bytes" /\ toTarget' = [toTarget EXCEPT ![i] = Spoilt]
    BY DEF LoseRequest
<1>2. toTarget # << >> /\ UNCHANGED <<command, host, target, toHost>>
    BY <1>1 DEF LoseRequest
<1>3. /\ toHost = << >> /\ Len(toTarget) = 1
      /\ host = High + 1
      /\ toTarget[1] \in {Wanted, Rest} \/ (Is("bytes") /\ toTarget[1] = Spoilt)
      /\ target.at \in {"cmd", "ack", "bytes"}
    BY <1>2, AlternateTaken
<1>4. i = 1
    BY <1>1, <1>3, RemoveFacts DEF TypeInv
<1>5. UNCHANGED <<Low, High, Engaged, Steps, Wanted>> /\ \A x : Is(x)' <=> Is(x)
    BY <1>2 DEF Low, High, Engaged, After, Steps, Wanted, Is, Cmd, Ack, Bytes, ImageOf
<1>6. Arrived' /\ Rest' = Rest /\ Spoilt' = Spoilt
    BY <1>2, <1>5 DEF Alternate, Arrived, Is, Rest, Spoilt
<1>7. CASE toTarget' = RemoveAt(toTarget, i)
  <2>1. toTarget' \in Seq(Requests) /\ Len(toTarget') = 0
    BY <1>3, <1>7, RemoveFacts DEF TypeInv
  <2>2. toTarget' = << >>
    BY <2>1, EmptySeq
  <2> QED
    BY <1>2, <1>5, <1>6, <2>2 DEF Alternate
<1>8. ASSUME NEW m \in {Rest, Spoilt}, toTarget' = [toTarget EXCEPT ![i] = m], m = Spoilt => Is("bytes")
      PROVE  Alternate'
  <2>1. m \in Requests
    BY <1>8 DEF Requests
  <2>2. i \in 1 .. Len(toTarget)
    BY <1>3, <1>4
  <2>3. toTarget' \in Seq(Requests) /\ Len(toTarget') = 1 /\ toTarget'[1] = m
    BY <1>3, <1>4, <1>8, <2>1, <2>2, ExceptSeq DEF TypeInv
  <2> QED
    BY <1>2, <1>3, <1>5, <1>6, <1>8, <2>3 DEF Alternate
<1>9. toTarget[1].kind = "bytes" => Is("bytes")
    BY <1>3 DEF Wanted, Cmd, Ack, Rest, Is
<1>10. Rest # Spoilt
    BY DEF Rest, Spoilt
<1>11. CASE toTarget' = [toTarget EXCEPT ![i] = Rest]
    BY <1>8, <1>10, <1>11
<1>12. CASE toTarget[i].kind = "bytes" /\ toTarget' = [toTarget EXCEPT ![i] = Spoilt]
    BY <1>4, <1>8, <1>9, <1>12
<1> QED
    BY <1>1, <1>7, <1>11, <1>12

LEMMA AlternateLoseAnswer ==
    ASSUME TypeInv, Alternate, LoseAnswer
    PROVE  Alternate'
<1>1. PICK i \in DOMAIN toHost : toHost' = RemoveAt(toHost, i)
    BY DEF LoseAnswer
<1>2. UNCHANGED <<command, host, target, toTarget>> /\ toHost # << >>
    BY <1>1 DEF LoseAnswer
<1>3. /\ Len(toHost) \in Nat \ {0} /\ DOMAIN toHost = 1 .. Len(toHost)
      /\ Len(toHost') = Len(toHost) - 1 /\ DOMAIN toHost' = 1 .. Len(toHost) - 1
      /\ \A j \in 1 .. Len(toHost) - 1 : toHost'[j] = IF j < i THEN toHost[j] ELSE toHost[j + 1]
    BY <1>1, RemoveFacts DEF TypeInv
<1>4. toTarget = << >> /\ ~Is("crashed")
    BY <1>2 DEF Alternate
<1>5. UNCHANGED <<Low, High, Engaged, Steps>> /\ \A x : Is(x)' <=> Is(x)
    BY <1>2 DEF Low, High, Engaged, After, Steps, Is
<1>6. \A j \in DOMAIN toHost' : \E k \in DOMAIN toHost :
          toHost'[j] = toHost[k] /\ (k = Len(toHost) => j = Len(toHost'))
  <2> SUFFICES ASSUME NEW j \in DOMAIN toHost'
               PROVE  \E k \in DOMAIN toHost :
                          toHost'[j] = toHost[k] /\ (k = Len(toHost) => j = Len(toHost'))
    OBVIOUS
  <2>1. CASE j < i
    BY <1>3, <2>1
  <2>2. CASE ~(j < i)
    BY <1>3, <2>2
  <2> QED
    BY <2>1, <2>2
<1>7. Arrived'
    BY <1>2, <1>6, <1>5 DEF Alternate, Arrived, Is
<1>8. host = 1 => \A j \in DOMAIN toHost' : toHost'[j] = "BOOTPSP"
    BY <1>6 DEF Alternate
<1>9. Engaged => Low <= host /\ host + Len(toHost') <= High + 1
  <2>1. host \in Int /\ High \in Int
    BY DEF TypeInv, Steps, High
  <2> QED
    BY <1>3, <2>1 DEF Alternate
<1>10. Is("hung") => host > 1 /\ host + Len(toHost') <= Steps + 1
  <2>1. host \in Int /\ Steps \in Int
    BY DEF TypeInv, Steps
  <2> QED
    BY <1>3, <2>1 DEF Alternate
<1> QED
    BY <1>2, <1>4, <1>5, <1>7, <1>8, <1>9, <1>10 DEF Alternate

LEMMA AlternateStep ==
    ASSUME TypeInv, Alternate, [Next]_vars, ~SlowHost, ~PowerCut
    PROVE  Alternate'
<1>1. CASE HostStep
    BY <1>1, AlternateAnswered, AlternateSkip, AlternateStartOver DEF HostStep
<1>2. CASE TargetStep /\ ~Burning /\ ~Wiping
    BY <1>2, AlternateGetCmd, AlternateGetHeader, AlternateGetBytes, AlternateDecodeImage,
       AlternateBurned, AlternateEraseAll, AlternateFinish, AlternateTimeOut DEF TargetStep
<1>3. CASE StartStep /\ ~Copying
    BY <1>3, AlternateStart DEF StartStep
<1>4. CASE Burning \/ Wiping \/ Copying \/ UNCHANGED vars
  <2>1. UNCHANGED dialogVars
    BY <1>4 DEF Burning, Wiping, Copying, vars, lineVars, dialogVars
  <2> QED
    BY <2>1, AlternateSame
<1>5. CASE FaultStep
    BY <1>5, AlternateLoseRequest, AlternateLoseAnswer DEF FaultStep
<1> QED
    BY <1>1, <1>2, <1>3, <1>4, <1>5 DEF Next

\* Without a slow host or a power cut the two sides take turns, whatever else
\* is lost.
THEOREM TakeTurns == Spec => [](OnTime => Alternate)
<1>1. Init => TypeInv /\ (OnTime => Alternate)
    BY InitTypes, AlternateInit
<1>2. TypeInv /\ (OnTime => Alternate) /\ [Next]_vars => TypeInv' /\ (OnTime' => Alternate')
    BY StepTypes, StillOnTime, AlternateStep
<1>3. Spec => [](TypeInv /\ (OnTime => Alternate))
    BY <1>1, <1>2, PTL DEF Spec
<1> QED
    BY <1>3, PTL

-----------------------------------------------------------------------------
(* Adjacent.                                                               *)

LEMMA AdjacentInit ==
    ASSUME Init
    PROVE  Adjacent
<1>1. toTarget = << >> /\ ~Waits
    BY DEF Init, Waits, Is
<1>2. DOMAIN toTarget = {}
    BY <1>1
<1> QED
    BY <1>1, <1>2 DEF Adjacent

LEMMA Indices ==
    ASSUME TypeInv
    PROVE  /\ Len(toTarget) \in Nat /\ DOMAIN toTarget = 1 .. Len(toTarget)
           /\ \A i \in DOMAIN toTarget : toTarget[i] \in Requests
           /\ toTarget = << >> <=> Len(toTarget) = 0
<1>1. Len(toTarget) \in Nat /\ DOMAIN toTarget = 1 .. Len(toTarget)
      /\ \A i \in 1 .. Len(toTarget) : toTarget[i] \in Requests
    BY LenProperties, ElementOfSeq DEF TypeInv
<1>2. toTarget = << >> <=> Len(toTarget) = 0
    BY EmptySeq DEF TypeInv
<1> QED
    BY <1>1, <1>2

LEMMA SameRequests ==
    ASSUME UNCHANGED command
    PROVE  /\ Cmd(command)' = Cmd(command) /\ Rest' = Rest
           /\ \A m, n : Follows(m, n)' <=> Follows(m, n)
BY DEF Cmd, Rest, Follows, Ack, Bytes

\* Only the host moves, and sends nothing; it may start over.
LEMMA AdjacentKept ==
    ASSUME TypeInv, Adjacent, UNCHANGED <<command, target, toTarget>>,
           Upcoming' \in {Upcoming, Cmd(command)}
    PROVE  Adjacent'
<1>1. /\ Cmd(command)' = Cmd(command) /\ Rest' = Rest
      /\ \A m, n : Follows(m, n)' <=> Follows(m, n)
    BY SameRequests
<1>2. (Waits' <=> Waits) /\ Wants' = Wants /\ (Is("cmd")' <=> Is("cmd"))
    BY DEF Waits, Wants, Is, Ack, Bytes, ImageOf
<1>3. \A i : Coming(i)' = Coming(i) \/ Coming(i)' = Cmd(command)
    BY DEF Coming
<1>4. \A m : Follows(m, Cmd(command))
    BY DEF Follows
<1>5. ASSUME NEW i \in DOMAIN toTarget
      PROVE  IF toTarget[i] = Rest THEN i = 1 /\ Is("cmd") ELSE Follows(toTarget[i], Coming(i + 1)')
    BY <1>3, <1>4 DEF Adjacent
<1> QED
    BY <1>1, <1>2, <1>3, <1>5 DEF Adjacent

LEMMA AdjacentAnswered ==
    ASSUME TypeInv, Adjacent, Answered
    PROVE  Adjacent'
<1>1. /\ host \in 1 .. Steps /\ host' = host + 1 /\ Upcoming \in Requests
      /\ toTarget' = IF Sending THEN toTarget \o <<Upcoming>> ELSE toTarget
      /\ UNCHANGED <<command, target>>
    BY AnsweredDoes
<1>2. command \in {"burn", "run", "erase"}
    BY LoaderAssumption DEF TypeInv
<1>3. CASE ~Sending
  <2>1. Upcoming' \in {Upcoming, Cmd(command)}
    BY <1>1, <1>2, <1>3 DEF Sending, Upcoming, Cmd, Steps, Ack
  <2> QED
    BY <1>1, <1>3, <2>1, AdjacentKept
<1>4. CASE Sending
  <2> DEFINE u == Upcoming
             n == Len(toTarget)
  <2>1. Follows(u, Upcoming') /\ u # Rest
    BY <1>1, <1>2, <1>4 DEF Sending, Upcoming, Follows, Cmd, Steps, Ack, Bytes, Rest
  <2>2. /\ n \in Nat /\ DOMAIN toTarget = 1 .. n
        /\ Len(toTarget') = n + 1 /\ DOMAIN toTarget' = 1 .. n + 1
        /\ \A i \in 1 .. n : toTarget'[i] = toTarget[i]
        /\ toTarget'[n + 1] = u
    BY <1>1, <1>4, SayFacts DEF TypeInv
  <2>3. /\ Cmd(command)' = Cmd(command) /\ Rest' = Rest
        /\ \A m, k : Follows(m, k)' <=> Follows(m, k)
    BY <1>1, SameRequests
  <2>4. (Waits' <=> Waits) /\ Wants' = Wants /\ (Is("cmd")' <=> Is("cmd"))
    BY <1>1 DEF Waits, Wants, Is, Ack, Bytes, ImageOf
  <2>5. \A i \in 1 .. n + 1 : Coming(i)' = Coming(i)
    BY <2>2 DEF Coming
  <2>c. ASSUME NEW k, k = n + 2 PROVE Coming(k)' = Upcoming'
    BY <2>2, <2>c DEF Coming
  <2> HIDE DEF u, n
  <2>6. ASSUME NEW i \in DOMAIN toTarget'
        PROVE  IF toTarget'[i] = Rest THEN i = 1 /\ Is("cmd") ELSE Follows(toTarget'[i], Coming(i + 1)')
    <3>1. CASE i \in 1 .. n
      <4>1. i + 1 \in 1 .. n + 1 /\ i \in DOMAIN toTarget /\ toTarget'[i] = toTarget[i]
        BY <2>2, <3>1
      <4> QED
        BY <2>5, <4>1 DEF Adjacent
    <3>2. CASE i = n + 1
      <4>1. i + 1 = n + 2 /\ toTarget'[i] = u
        BY <2>2, <3>2
      <4>2. Coming(i + 1)' = Upcoming'
        BY <2>c, <4>1
      <4> QED
        BY <2>1, <4>1, <4>2
    <3> QED
      BY <2>2, <3>1, <3>2
  <2>7. Waits => Coming(1)' \in {Cmd(command), Wants}
    BY <2>2, <2>5 DEF Adjacent
  <2> QED
    BY <2>3, <2>4, <2>6, <2>7 DEF Adjacent
<1> QED
    BY <1>3, <1>4

\* The target moves, and takes nothing.
LEMMA AdjacentStays ==
    ASSUME TypeInv, Adjacent, UNCHANGED <<command, host, toTarget>>,
           ~Is("cmd") \/ target'.at = "cmd",
           Waits' => Waits /\ Wants' = Wants
    PROVE  Adjacent'
<1>1. /\ Cmd(command)' = Cmd(command) /\ Rest' = Rest
      /\ \A m, n : Follows(m, n)' <=> Follows(m, n)
    BY SameRequests
<1>2. Upcoming' = Upcoming
    BY DEF Upcoming, Ack, Bytes, Cmd
<1>3. \A i : Coming(i)' = Coming(i)
    BY <1>2 DEF Coming
<1>4. ASSUME NEW i \in DOMAIN toTarget
      PROVE  IF toTarget[i] = Rest THEN i = 1 /\ Is("cmd")' ELSE Follows(toTarget[i], Coming(i + 1)')
    BY <1>3 DEF Adjacent, Is
<1> QED
    BY <1>1, <1>3, <1>4 DEF Adjacent

\* The target takes the first request.
LEMMA AdjacentTakes ==
    ASSUME TypeInv, Adjacent, UNCHANGED <<command, host>>,
           toTarget # << >>, toTarget' = Tail(toTarget),
           Waits' => /\ toTarget[1] # Rest
                     /\ \A m : Follows(toTarget[1], m) => m \in {Cmd(command), Wants'}
    PROVE  Adjacent'
<1> DEFINE n == Len(toTarget)
<1>1. /\ n \in Nat \ {0} /\ DOMAIN toTarget = 1 .. n
      /\ Len(toTarget') = n - 1 /\ DOMAIN toTarget' = 1 .. n - 1
      /\ \A i \in 1 .. n - 1 : toTarget'[i] = toTarget[i + 1]
    BY TailFacts DEF TypeInv
<1>2. /\ Cmd(command)' = Cmd(command) /\ Rest' = Rest
      /\ \A m, k : Follows(m, k)' <=> Follows(m, k)
    BY SameRequests
<1>3. Upcoming' = Upcoming
    BY DEF Upcoming, Ack, Bytes, Cmd
<1>4. \A i \in 1 .. n : Coming(i)' = Coming(i + 1)
    BY <1>1, <1>3 DEF Coming
<1> HIDE DEF n
<1>5. ASSUME NEW i \in DOMAIN toTarget'
      PROVE  IF toTarget'[i] = Rest THEN i = 1 /\ Is("cmd")' ELSE Follows(toTarget'[i], Coming(i + 1)')
  <2>1. /\ i + 1 \in DOMAIN toTarget /\ i + 1 # 1 /\ toTarget'[i] = toTarget[i + 1]
        /\ i + 1 \in 1 .. n
    BY <1>1
  <2>2. Coming(i + 1)' = Coming((i + 1) + 1)
    BY <1>4, <2>1
  <2> QED
    BY <2>1, <2>2 DEF Adjacent
<1>6. Waits' => Coming(1)' \in {Cmd(command), Wants'}
  <2>1. 1 \in DOMAIN toTarget /\ 1 \in 1 .. n
    BY <1>1
  <2>2. Coming(1)' = Coming(1 + 1)
    BY <1>4, <2>1
  <2>3. toTarget[1] # Rest => Follows(toTarget[1], Coming(1 + 1))
    BY <2>1 DEF Adjacent
  <2> QED
    BY <2>2, <2>3
<1> QED
    BY <1>2, <1>5, <1>6 DEF Adjacent

\* A request that does not match leaves its remainder.
LEMMA AdjacentRest ==
    ASSUME TypeInv, Adjacent, UNCHANGED <<command, host>>, target'.at = "cmd",
           toTarget # << >>, toTarget' = <<Rest>> \o Tail(toTarget)
    PROVE  Adjacent'
<1> DEFINE n == Len(toTarget)
<1>1. Rest \in Requests
    BY DEF Requests
<1>2. /\ DOMAIN toTarget = 1 .. n /\ n \in Nat
      /\ Len(toTarget') = n /\ DOMAIN toTarget' = 1 .. n
      /\ toTarget'[1] = Rest /\ \A i \in 2 .. n : toTarget'[i] = toTarget[i]
    BY <1>1, RestFacts, LenProperties DEF TypeInv
<1>3. /\ Cmd(command)' = Cmd(command) /\ Rest' = Rest
      /\ \A m, k : Follows(m, k)' <=> Follows(m, k)
    BY SameRequests
<1>4. Upcoming' = Upcoming
    BY DEF Upcoming, Ack, Bytes, Cmd
<1>5. \A i \in 2 .. n + 1 : Coming(i)' = Coming(i)
    BY <1>2, <1>4 DEF Coming
<1>6. Is("cmd")' /\ ~Waits'
    BY DEF Is, Waits
<1> HIDE DEF n
<1>7. ASSUME NEW i \in DOMAIN toTarget'
      PROVE  IF toTarget'[i] = Rest THEN i = 1 /\ Is("cmd")' ELSE Follows(toTarget'[i], Coming(i + 1)')
  <2>1. CASE i = 1
    BY <1>2, <1>6, <2>1
  <2>2. CASE i # 1
    <3>1. i \in DOMAIN toTarget /\ i + 1 \in 2 .. n + 1 /\ toTarget'[i] = toTarget[i]
      BY <1>2, <2>2
    <3> QED
      BY <1>5, <2>2, <3>1 DEF Adjacent
  <2> QED
    BY <2>1, <2>2
<1> QED
    BY <1>3, <1>6, <1>7 DEF Adjacent

LEMMA AdjacentMismatch ==
    ASSUME TypeInv, Adjacent, UNCHANGED <<command, host>>, toTarget # << >>, Mismatch, TryAgain
    PROVE  Adjacent'
<1>1. target'.at = "cmd"
    BY DEF TryAgain, UartBoot, Become
<1>2. ~Waits'
    BY <1>1 DEF Waits, Is
<1> QED
    BY <1>1, <1>2, AdjacentTakes, AdjacentRest DEF Mismatch, Takes

\* What the request at the head is, of a target that waits for one.
LEMMA AdjacentHead ==
    ASSUME TypeInv, Adjacent, toTarget # << >>
    PROVE  /\ Head(toTarget) = toTarget[1] /\ toTarget[1] \in Requests
           /\ Waits => toTarget[1] \in {Cmd(command), Wants}
           /\ toTarget[1] = Rest => Is("cmd")
<1>1. /\ Head(toTarget) = toTarget[1] /\ toTarget[1] \in Requests
      /\ Len(toTarget) \in Nat \ {0} /\ DOMAIN toTarget = 1 .. Len(toTarget)
    BY TailFacts DEF TypeInv
<1>2. Coming(1) = toTarget[1] /\ 1 \in DOMAIN toTarget
    BY <1>1 DEF Coming
<1> QED
    BY <1>1, <1>2 DEF Adjacent

LEMMA AdjacentGetCmd ==
    ASSUME TypeInv, Adjacent, GetCmd
    PROVE  Adjacent'
<1> DEFINE m == Head(toTarget)
<1>1. toTarget # << >> /\ Is("cmd") /\ UNCHANGED <<command, host>>
    BY DEF GetCmd
<1>2. m = toTarget[1] /\ m \in Requests
    BY <1>1, AdjacentHead
<1>3. CASE m.kind # "CMD"
    BY <1>1, <1>3, AdjacentMismatch DEF GetCmd
<1>4. CASE m.kind = "CMD"
  <2>1. /\ Takes
        /\ CASE m.img = "burn" -> Become("ack", "ubl", "none") /\ Say(<<"SENDUBL">>)
             [] m.img = "run" -> Become("ack", "run", "none") /\ Say(<<"SENDAPP">>)
             [] m.img = "erase" -> Become("erase", "none", "none") /\ UNCHANGED toHost
    BY <1>4 DEF GetCmd
  <2> HIDE DEF m
  <2>2. m = Cmd(command) /\ m.img = command /\ m # Rest
    BY <1>2, <1>4, RequestKinds
  <2>3. command \in {"burn", "run", "erase"}
    BY LoaderAssumption DEF TypeInv
  <2>4. \A k : Follows(m, k) => k \in {Cmd(command), Ack(IF command = "burn" THEN Ubl ELSE App)}
    BY <2>2 DEF Follows, Cmd, Ack, Bytes
  <2>5. Waits' => Wants' = Ack(IF command = "burn" THEN Ubl ELSE App)
    <3>1. CASE command = "burn"
      <4>1. target'.at = "ack" /\ target'.part = "ubl"
        BY <2>1, <2>2, <3>1 DEF Become
      <4> QED
        BY <3>1, <4>1 DEF Wants, Is, ImageOf, Ack
    <3>2. CASE command = "run"
      <4>1. target'.at = "ack" /\ target'.part = "run"
        BY <2>1, <2>2, <3>2 DEF Become
      <4> QED
        BY <3>2, <4>1 DEF Wants, Is, ImageOf, Ack
    <3>3. CASE command = "erase"
      <4>1. target'.at = "erase" /\ target'.part = "none"
        BY <2>1, <2>2, <3>3 DEF Become
      <4> QED
        BY <4>1 DEF Waits, Is
    <3> QED
      BY <2>3, <3>1, <3>2, <3>3
  <2> QED
    BY <1>1, <1>2, <2>1, <2>2, <2>4, <2>5, AdjacentTakes DEF Takes
<1> QED
    BY <1>3, <1>4

LEMMA AdjacentGetHeader ==
    ASSUME TypeInv, Adjacent, GetHeader
    PROVE  Adjacent'
<1> DEFINE m == Head(toTarget)
<1>1. toTarget # << >> /\ Is("ack") /\ UNCHANGED <<command, host>>
    BY DEF GetHeader
<1>2. m = toTarget[1] /\ m \in Requests /\ m \in {Cmd(command), Ack(ImageOf(target.part))}
    BY <1>1, AdjacentHead DEF Waits, Wants
<1>3. CASE m.kind # "ACK"
    BY <1>1, <1>3, AdjacentMismatch DEF GetHeader
<1>4. CASE m.kind = "ACK"
  <2>1. /\ Takes
        /\ target' \in {[at |-> "bytes", part |-> target.part, img |-> m.img],
                        [at |-> "crashed", part |-> "none", img |-> "none"]}
    BY <1>4 DEF GetHeader, Become
  <2> HIDE DEF m
  <2>2. m = Ack(ImageOf(target.part)) /\ m # Rest
    BY <1>2, <1>4 DEF Cmd, Ack, Rest
  <2>3. \A k : Follows(m, k) => k \in {Cmd(command), Bytes(ImageOf(target.part))}
    BY <2>2, ApartAssumption DEF Follows, Cmd, Ack, Bytes, ImageOf
  <2>4. Waits' => Wants' = Bytes(ImageOf(target.part))
    BY <2>1 DEF Waits, Wants, Is, ImageOf, Bytes
  <2> QED
    BY <1>1, <1>2, <2>1, <2>2, <2>3, <2>4, AdjacentTakes DEF Takes
<1> QED
    BY <1>3, <1>4

LEMMA AdjacentGetBytes ==
    ASSUME TypeInv, Adjacent, GetBytes
    PROVE  Adjacent'
<1> DEFINE m == Head(toTarget)
<1>1. toTarget # << >> /\ Is("bytes") /\ UNCHANGED <<command, host>> /\ toTarget' = Tail(toTarget)
    BY DEF GetBytes, Takes
<1>2. m = toTarget[1] /\ m \in Requests /\ m \in {Cmd(command), Bytes(ImageOf(target.part))}
    BY <1>1, AdjacentHead DEF Waits, Wants, Is
<1>3. m.kind # "bytes" => target'.at = "cmd" \/ target'.img = "spoilt"
    BY DEF GetBytes, Become, TryAgain, UartBoot
<1>4. m.kind = "bytes" => target'.part = target.part
    BY DEF GetBytes, Become
<1>5. target'.at \in {"cmd", "decode"}
    BY DEF GetBytes, Become, TryAgain, UartBoot
<1> HIDE DEF m
<1>6. ASSUME Waits'
      PROVE  m # Rest /\ \A k : Follows(m, k) => k \in {Cmd(command), Wants'}
  <2>1. m.kind = "bytes" /\ target'.part = "ubl"
    BY <1>3, <1>4, <1>5, <1>6 DEF Waits, Is
  <2>2. m = Bytes(Ubl)
    BY <1>2, <1>4, <2>1 DEF Cmd, ImageOf
  <2>3. Wants' = Ack(App)
    BY <1>5 DEF Wants, Is, Ack
  <2> QED
    BY <2>2, <2>3, ApartAssumption DEF Follows, Cmd, Ack, Bytes, Rest
<1> QED
    BY <1>1, <1>2, <1>6, AdjacentTakes

LEMMA AdjacentOthers ==
    ASSUME TypeInv, Adjacent,
           DecodeImage \/ Burned \/ EraseAll \/ Finish \/ TimeOut \/ SlowHost \/ Copied
    PROVE  Adjacent'
<1>1. UNCHANGED <<command, host, toTarget>>
    BY DEF DecodeImage, Burned, EraseAll, Finish, TimeOut, SlowHost, Copied
<1>2. CASE target'.at = "cmd"
    BY <1>1, <1>2, AdjacentStays DEF Waits, Is
<1>3. CASE target'.at # "cmd"
  <2>1. DecodeImage \/ Burned \/ EraseAll \/ Finish \/ Copied
    BY <1>3 DEF TimeOut, SlowHost, TryAgain, UartBoot, Become
  <2>2. ~Is("cmd")
    BY <2>1 DEF DecodeImage, Burned, EraseAll, Finish, Copied, Is
  <2>3. Waits' => Waits /\ Wants' = Wants
    <3>1. CASE DecodeImage
      BY <1>3, <3>1 DEF DecodeImage, TryAgain, UartBoot, Become, Waits, Wants, Is, Ack
    <3>2. CASE Burned
      BY <1>3, <3>2 DEF Burned, TryAgain, UartBoot, Become, Waits, Wants, Is, Ack, ImageOf
    <3>3. CASE EraseAll \/ Finish \/ Copied
      BY <1>3, <3>3 DEF EraseAll, Finish, Copied, TryAgain, UartBoot, Become, Waits, Is
    <3> QED
      BY <2>1, <3>1, <3>2, <3>3
  <2> QED
    BY <1>1, <2>2, <2>3, AdjacentStays
<1> QED
    BY <1>2, <1>3

LEMMA AdjacentEmpties ==
    ASSUME NandBoot \/ PowerCut
    PROVE  Adjacent'
<1>1. toTarget' = << >> /\ target'.at \in {"copying", "off"}
    BY DEF NandBoot, PowerCut, Become
<1>2. DOMAIN toTarget' = {} /\ ~Waits'
    BY <1>1 DEF Waits, Is
<1> QED
    BY <1>2 DEF Adjacent

LEMMA AdjacentStep ==
    ASSUME TypeInv, Adjacent, [Next]_vars, ~LoseRequest
    PROVE  Adjacent'
<1>1. CASE HostStep
  <2>1. CASE Skip
    BY <2>1, AdjacentKept DEF Skip, Upcoming, Ack, Bytes, Cmd
  <2>2. CASE StartOver
    <3>1. Upcoming' = Cmd(command)
      BY <2>2 DEF StartOver, GaveUp, Upcoming, Cmd
    <3> QED
      BY <2>2, <3>1, AdjacentKept DEF StartOver
  <2> QED
    BY <1>1, <2>1, <2>2, AdjacentAnswered DEF HostStep
<1>2. CASE UNCHANGED <<command, host, target, toTarget>>
    BY <1>2, AdjacentKept DEF Upcoming, Ack, Bytes, Cmd
<1>3. CASE TargetStep
    BY <1>2, <1>3, AdjacentGetCmd, AdjacentGetHeader, AdjacentGetBytes, AdjacentOthers
       DEF TargetStep, Burning, Wiping, lineVars
<1>4. CASE StartStep
    BY <1>2, <1>4, AdjacentEmpties, AdjacentOthers DEF StartStep, Copying, lineVars
<1>5. CASE FaultStep
    BY <1>2, <1>5, AdjacentEmpties, AdjacentOthers DEF FaultStep, LoseAnswer
<1>6. CASE UNCHANGED vars
    BY <1>2, <1>6 DEF vars, lineVars
<1> QED
    BY <1>1, <1>3, <1>4, <1>5, <1>6 DEF Next

\* While no request is lost, what is under way to the target is a stretch of the
\* dialog: however late, lost or repeated the answers were.
THEOREM StaysAdjacent == Spec => [](NoneLost => Adjacent)
<1>1. Init => TypeInv /\ (NoneLost => Adjacent)
    BY InitTypes, AdjacentInit
<1>2. TypeInv /\ (NoneLost => Adjacent) /\ [Next]_vars
          => TypeInv' /\ (NoneLost' => Adjacent')
    BY StepTypes, StillNoneLost, AdjacentStep
<1>3. Spec => [](TypeInv /\ (NoneLost => Adjacent))
    BY <1>1, <1>2, PTL DEF Spec
<1> QED
    BY <1>3, PTL

-----------------------------------------------------------------------------
(* Right: what is decoded, burned and run is the image of the part.        *)

\* The image that is taken, if one is, is the one that belongs there.
Fitting ==
    Is("bytes") /\ toTarget # << >> /\ Head(toTarget).kind = "bytes"
        => Head(toTarget).img \in {"spoilt", ImageOf(target.part)}

LEMMA AlternateFits ==
    ASSUME TypeInv, Alternate
    PROVE  Fitting
<1> SUFFICES ASSUME Is("bytes"), toTarget # << >>, Head(toTarget).kind = "bytes"
             PROVE  Head(toTarget).img \in {"spoilt", ImageOf(target.part)}
    BY DEF Fitting
<1>1. Head(toTarget) \in {Wanted, Rest, Spoilt}
    BY AlternateTaken
<1>2. Wanted = Bytes(ImageOf(target.part))
    BY DEF Wanted, Is
<1> QED
    BY <1>1, <1>2 DEF Bytes, Spoilt, Rest

LEMMA AdjacentFits ==
    ASSUME TypeInv, Adjacent
    PROVE  Fitting
<1> SUFFICES ASSUME Is("bytes"), toTarget # << >>, Head(toTarget).kind = "bytes"
             PROVE  Head(toTarget).img \in {"spoilt", ImageOf(target.part)}
    BY DEF Fitting
<1>1. Head(toTarget) \in {Cmd(command), Wants}
    BY AdjacentHead DEF Waits
<1>2. Wants = Bytes(ImageOf(target.part))
    BY DEF Wants, Is
<1> QED
    BY <1>1, <1>2 DEF Bytes, Cmd

LEMMA RightInit ==
    ASSUME Init
    PROVE  Right
BY DEF Init, Right, Is

LEMMA RightStep ==
    ASSUME TypeInv, Right, Fitting, [Next]_vars
    PROVE  Right'
<1>1. CASE UNCHANGED <<target>>
    BY <1>1 DEF Right, Is, ImageOf
<1>2. CASE target'.at \in {"cmd", "ack", "bytes", "erase", "reset", "crashed", "hung", "copying", "off"}
    BY <1>2 DEF Right, Is
<1>3. CASE HostStep
    BY <1>1, <1>3 DEF HostStep, Answered, Skip, StartOver
<1>4. CASE GetCmd
  <2> DEFINE m == Head(toTarget)
  <2>1. m \in Requests
    BY <1>4, TailFacts DEF GetCmd, TypeInv
  <2> HIDE DEF m
  <2>2. m.kind = "CMD" => m.img \in {"burn", "run", "erase"}
    BY <2>1, RequestKinds, LoaderAssumption DEF TypeInv
  <2>3. target'.at \in {"cmd", "ack", "erase"}
    <3>1. CASE m.kind = "CMD" /\ m.img = "burn"
      <4>1. Become("ack", "ubl", "none")
        BY <1>4, <3>1 DEF GetCmd, m
      <4> QED
        BY <4>1 DEF Become
    <3>2. CASE m.kind = "CMD" /\ m.img = "run"
      <4>1. Become("ack", "run", "none")
        BY <1>4, <3>2 DEF GetCmd, m
      <4> QED
        BY <4>1 DEF Become
    <3>3. CASE m.kind = "CMD" /\ m.img = "erase"
      <4>1. Become("erase", "none", "none")
        BY <1>4, <3>3 DEF GetCmd, m
      <4> QED
        BY <4>1 DEF Become
    <3>4. CASE m.kind # "CMD"
      <4>1. Become("cmd", "none", "none")
        BY <1>4, <3>4 DEF GetCmd, TryAgain, UartBoot, m
      <4> QED
        BY <4>1 DEF Become
    <3> QED
      BY <2>2, <3>1, <3>2, <3>3, <3>4
  <2> QED
    BY <1>2, <2>3
<1>5. CASE GetHeader
    BY <1>2, <1>5 DEF GetHeader, TryAgain, UartBoot, Become
<1>6. CASE GetBytes
  <2>1. Is("bytes") /\ toTarget # << >>
    BY <1>6 DEF GetBytes
  <2>2. CASE target'.at = "decode"
    <3>1. target'.part = target.part /\ target'.img \in {"spoilt", ImageOf(target.part)}
      <4>1. CASE Head(toTarget).kind = "bytes"
        BY <1>6, <2>1, <4>1 DEF GetBytes, Become, Fitting
      <4>2. CASE Head(toTarget).kind # "bytes"
        BY <1>6, <2>2, <4>2 DEF GetBytes, TryAgain, UartBoot, Become
      <4> QED
        BY <4>1, <4>2
    <3> QED
      BY <2>2, <3>1 DEF Right, Is, ImageOf
  <2> QED
    BY <1>2, <1>6, <2>2 DEF GetBytes, TryAgain, UartBoot, Become
<1>7. CASE DecodeImage
  <2>1. target.img \in {"spoilt", ImageOf(target.part)}
    BY <1>7 DEF DecodeImage, Right
  <2>2. CASE target.img = "spoilt"
    BY <1>2, <1>7, <2>2 DEF DecodeImage, TryAgain, UartBoot, Become
  <2>3. CASE target.img # "spoilt"
    <3>1. /\ target' \in [at : {"end", "burn"}, part : {target.part}, img : {ImageOf(target.part)}]
          /\ target'.at = "end" => target.part = "run"
      BY <1>7, <2>1, <2>3 DEF DecodeImage, Become
    <3> QED
      BY <3>1 DEF Right, Is, ImageOf
  <2> QED
    BY <2>2, <2>3
<1>8. CASE Burned
  <2>1. target'.at \in {"cmd", "ack"} \/ (target'.at = "end" /\ target'.part = "burn")
    BY <1>8 DEF Burned, TryAgain, UartBoot, Become
  <2> QED
    BY <1>2, <2>1 DEF Right, Is
<1>9. CASE EraseAll
  <2>1. UNCHANGED target \/ target'.at = "cmd" \/ (target'.at = "end" /\ target'.part = "erase")
    BY <1>9 DEF EraseAll, TryAgain, UartBoot, Become
  <2> QED
    BY <1>1, <1>2, <2>1 DEF Right, Is
<1>10. CASE Finish
  <2>1. Is("end")
    BY <1>10 DEF Finish
  <2>2. CASE target.part = "run"
    BY <1>10, <2>1, <2>2 DEF Finish, Become, Right, Is
  <2>3. CASE target.part # "run"
    BY <1>2, <1>10, <2>3 DEF Finish, Become
  <2> QED
    BY <2>2, <2>3
<1>11. CASE TimeOut
    BY <1>2, <1>11 DEF TimeOut, TryAgain, UartBoot, Become
<1>12. CASE Burning \/ Wiping
    BY <1>1, <1>12 DEF Burning, Wiping
<1>13. CASE StartStep
  <2>1. UNCHANGED target \/ target'.at \in {"cmd", "hung", "copying"}
        \/ (target'.at = "running" /\ target'.part = "nand")
    BY <1>13 DEF StartStep, NandBoot, Copying, Copied, TryAgain, UartBoot, Become
  <2> QED
    BY <1>1, <1>2, <2>1 DEF Right, Is
<1>14. CASE FaultStep
  <2>1. UNCHANGED target \/ target'.at \in {"cmd", "off"}
    BY <1>14 DEF FaultStep, LoseRequest, LoseAnswer, SlowHost, PowerCut, TryAgain, UartBoot, Become
  <2> QED
    BY <1>1, <1>2, <2>1
<1>15. CASE UNCHANGED vars
    BY <1>1, <1>15 DEF vars
<1> QED
    BY <1>3, <1>4, <1>5, <1>6, <1>7, <1>8, <1>9, <1>10, <1>11, <1>12, <1>13, <1>14, <1>15
       DEF Next, TargetStep

\* The images reach the places of the dialog they are meant for, as long as
\* either no request is lost, or the host is on time and the power stays on.
THEOREM RightImages == Spec => [](InStep => Right)
<1>1. TypeInv /\ (OnTime => Alternate) /\ (NoneLost => Adjacent) => (InStep => Fitting)
    BY AlternateFits, AdjacentFits DEF InStep
<1>2. Spec => [](TypeInv /\ (InStep => Fitting))
    BY <1>1, Types, TakeTurns, StaysAdjacent, PTL
<1>3. Init => Right
    BY RightInit
<1>4. /\ TypeInv /\ (InStep => Fitting) /\ (InStep => Right) /\ [Next]_vars
      => (InStep' => Right')
    BY StillInStep, RightStep
<1> QED
    BY <1>2, <1>3, <1>4, PTL DEF Spec

-----------------------------------------------------------------------------
(* What becomes of the flash.                                              *)

LEMMA FirstPage == 0 \in Pages /\ PagesPerBlock \in Nat \ {0}
BY DeviceAssumption DEF Pages

\* Nothing is written: a page is as it was, or erased, or half done.
Wipes == \A b \in Blocks, p \in Pages : flash'[b][p] \in {flash[b][p], Erased, Half}

HeaderWritten ==
    /\ Is("burn") /\ WriterAt("header")
    /\ flash' = [flash EXCEPT ![writer.block][0] = Header(target.img, writer.block)]
PageWritten ==
    /\ Is("burn") /\ WriterAt("data")
    /\ LET q == At(writer.block, writer.n)
       IN  flash' = [flash EXCEPT ![q[1]][q[2]] = Data(target.img, writer.n)]

LEMMA Erases ==
    ASSUME TypeInv, NEW k \in Blocks, Erase(k) \/ EraseTimesOut(k)
    PROVE  /\ Wipes
           /\ \A b \in Blocks : b # k => flash'[b] = flash[b]
           /\ flash'[k] = Blank \/ Fault("unseen") \/ Fault("erase")
<1>1. \E left \in Left(k) : flash' = [flash EXCEPT ![k] = left]
    BY DEF Erase, EraseTimesOut, Left
<1>2. PICK left \in Left(k) : flash' = [flash EXCEPT ![k] = left]
    BY <1>1
<1>3. \A p \in Pages : left[p] \in {flash[k][p], Erased, Half}
    BY DEF Left, HalfErased, Blank
<1>4. /\ flash'[k] = left
      /\ \A b \in Blocks : b # k => flash'[b] = flash[b]
    BY <1>2 DEF TypeInv
<1>5. Wipes
    BY <1>3, <1>4 DEF Wipes
<1>6. flash'[k] = Blank \/ Fault("unseen") \/ Fault("erase")
    BY DEF Erase, EraseTimesOut, TypeInv
<1> QED
    BY <1>4, <1>5, <1>6

LEMMA ProgramDoes ==
    ASSUME TypeInv, NEW b, NEW p, NEW c, NEW next, Program(b, p, c, next)
    PROVE  /\ UNCHANGED copy /\ writer' \in {next, [at |-> "failed"]}
           /\ \/ flash' = [flash EXCEPT ![b][p] = c]
              \/ Wipes /\ writer' = [at |-> "failed"]
<1>1. CASE flash' = [flash EXCEPT ![b][p] = c]
    BY <1>1 DEF Program, Failed
<1>2. ASSUME NEW left \in {flash[b][p], Half}, flash' = [flash EXCEPT ![b][p] = left]
      PROVE  Wipes
    BY <1>2 DEF TypeInv, Wipes
<1>3. /\ UNCHANGED copy /\ writer' \in {next, [at |-> "failed"]}
      /\ \/ flash' = [flash EXCEPT ![b][p] = c]
         \/ /\ \E left \in {flash[b][p], Half} : flash' = [flash EXCEPT ![b][p] = left]
            /\ writer' = [at |-> "failed"]
    BY DEF Program, Failed
<1> QED
    BY <1>1, <1>2, <1>3

LEMMA BurningWrites ==
    ASSUME TypeInv, Burning
    PROVE  /\ UNCHANGED copy
           /\ \/ Wipes
              \/ HeaderWritten \/ PageWritten
<1>1. /\ Is("burn") /\ UNCHANGED target
      /\ flash \in [Blocks -> [Pages -> Contents]]
    BY DEF Burning, TypeInv
<1>2. CASE Unprotect
    BY <1>1, <1>2 DEF Unprotect, Wipes
<1>3. CASE EraseBlock
  <2>1. writer.block + writer.n \in Blocks
    <3>1. /\ writer.block \in Blocks /\ writer.n \in Nat /\ writer.n < NumBlks(target.img)
          /\ writer.block + NumBlks(target.img) <= NumBlocks
      BY <1>1, <1>3, WriterIs DEF EraseBlock, WriterAt
    <3> QED
      BY <1>1, <3>1, PlaceTypes DEF Blocks
  <2> DEFINE k == writer.block + writer.n
  <2>2. Erase(k) \/ EraseTimesOut(k)
    BY <1>3 DEF EraseBlock
  <2> HIDE DEF k
  <2>3. Wipes
    BY <2>1, <2>2, Erases DEF k
  <2> QED
    BY <1>3, <2>3 DEF EraseBlock
<1>4. CASE WriteHeader
  <2> DEFINE next == [writer EXCEPT !.at = "data", !.n = 1]
             c == Header(target.img, writer.block)
  <2>1. writer.img = target.img
    BY <1>1, <1>4, WriterIs DEF WriteHeader, WriterAt
  <2>2. Program(writer.block, 0, c, next)
    BY <1>4, <2>1 DEF WriteHeader
  <2>3. UNCHANGED copy /\ (flash' = [flash EXCEPT ![writer.block][0] = c] \/ Wipes)
    <3> HIDE DEF c, next
    <3> QED
      BY <2>2, ProgramDoes
  <2> QED
    BY <1>1, <1>4, <2>3 DEF WriteHeader, HeaderWritten
<1>5. CASE WriteData
  <2> DEFINE q == At(writer.block, writer.n)
             c == Data(target.img, writer.n)
             next == IF writer.n < NumPage[target.img] THEN [writer EXCEPT !.n = @ + 1]
                     ELSE [at |-> "passed"]
  <2>1. writer.img = target.img
    BY <1>1, <1>5, WriterIs DEF WriteData, WriterAt
  <2>2. Program(q[1], q[2], c, next)
    BY <1>5, <2>1 DEF WriteData, DataPage
  <2>3. UNCHANGED copy /\ (flash' = [flash EXCEPT ![q[1]][q[2]] = c] \/ Wipes)
    <3> HIDE DEF q, c, next
    <3> QED
      BY <2>2, ProgramDoes
  <2> QED
    BY <1>1, <1>5, <2>3 DEF WriteData, PageWritten
<1> QED
    BY <1>2, <1>3, <1>4, <1>5 DEF Burning, Writing, Unprotect

LEMMA WipingWipes ==
    ASSUME TypeInv, Wiping
    PROVE  Wipes /\ UNCHANGED <<copy, target>>
<1>1. Is("erase") /\ WriterAt("wiping") /\ UNCHANGED <<copy, target>>
    BY DEF Wiping, WipeBlock
<1> DEFINE k == writer.block
<1>2. k \in Blocks
    BY <1>1, WiperIs
<1>3. Erase(k) \/ EraseTimesOut(k)
    BY DEF Wiping, WipeBlock
<1> HIDE DEF k
<1> QED
    BY <1>1, <1>2, <1>3, Erases

\* The steps that leave the flash as it is.
LEMMA FlashKept ==
    ASSUME [Next]_vars
    PROVE  UNCHANGED flash \/ Burning \/ Wiping \/ PowerCut
<1>1. CASE HostStep
    BY <1>1 DEF HostStep, Answered, Skip, StartOver, flashVars
<1>2. CASE GetCmd \/ GetHeader \/ GetBytes \/ DecodeImage \/ Burned \/ EraseAll \/ Finish \/ TimeOut
    BY <1>2 DEF GetCmd, GetHeader, GetBytes, DecodeImage, Burned, EraseAll, Finish, TimeOut, flashVars
<1>3. CASE StartStep
    BY <1>3 DEF StartStep, NandBoot, Copying, Booting, FindHeader, CopyPage, Decode, Copied
<1>4. CASE LoseRequest \/ LoseAnswer \/ SlowHost
    BY <1>4 DEF LoseRequest, LoseAnswer, SlowHost, flashVars
<1>5. CASE UNCHANGED vars
    BY <1>5 DEF vars, flashVars
<1> QED
    BY <1>1, <1>2, <1>3, <1>4, <1>5 DEF Next, TargetStep, FaultStep

LEMMA FlashChanges ==
    ASSUME TypeInv, [Next]_vars
    PROVE  Wipes \/ HeaderWritten \/ PageWritten
<1>1. CASE UNCHANGED flash
    BY <1>1 DEF Wipes
<1>2. CASE PowerCut
    BY <1>2, InterruptedIs DEF PowerCut, Wipes
<1> QED
    BY <1>1, <1>2, FlashKept, BurningWrites, WipingWipes

\* Where the writer writes is in its area.
LEMMA Places ==
    ASSUME TypeInv, Is("burn"), writer.at \in {"header", "data"}
    PROVE  /\ target.img \in Images /\ target.part \in {"ubl", "app"}
           /\ target.img = writer.img
           /\ writer.block \in FirstOf(target.part) .. LastOf(target.part)
           /\ writer.block \in Blocks /\ writer.block + NumBlks(target.img) <= NumBlocks
           /\ WriterAt("data") =>
                  LET q == At(writer.block, writer.n) IN
                  /\ q[1] \in Blocks /\ q[2] \in Pages
                  /\ q[1] \in writer.block .. writer.block + NumBlks(target.img) - 1
                  /\ q[1] = writer.block => q[2] # 0
<1>1. /\ target.img \in Images /\ target.part \in {"ubl", "app"}
      /\ FirstOf(target.part) \in Blocks /\ LastOf(target.part) \in Blocks
      /\ NumBlks(target.img) \in Nat \ {0} /\ NumBlocks \in Nat
    BY PlaceTypes
<1>2. /\ writer.block \in Blocks /\ writer.block >= FirstOf(target.part)
      /\ writer.block <= LastOf(target.part)
      /\ writer.img = target.img /\ writer.block + NumBlks(target.img) <= NumBlocks
      /\ WriterAt("data") => writer.n \in 1 .. NumPage[target.img]
    BY WriterIs
<1>3. writer.block \in FirstOf(target.part) .. LastOf(target.part) /\ writer.block \in Nat \ {0}
    BY <1>1, <1>2 DEF Blocks
<1>4. ASSUME WriterAt("data")
      PROVE  LET q == At(writer.block, writer.n) IN
                  /\ q[1] \in Blocks /\ q[2] \in Pages
                  /\ q[1] \in writer.block .. writer.block + NumBlks(target.img) - 1
                  /\ q[1] = writer.block => q[2] # 0
  <2> DEFINE q == At(writer.block, writer.n)
  <2>1. /\ q[1] \in writer.block .. writer.block + NumBlks(target.img) - 1 /\ q[2] \in Pages
        /\ q[1] = writer.block => q[2] # 0
    BY <1>1, <1>2, <1>3, <1>4, AtFacts
  <2> HIDE DEF q
  <2>2. q[1] \in Blocks
    BY <1>1, <1>2, <1>3, <2>1 DEF Blocks
  <2> QED
    BY <2>1, <2>2 DEF q
<1> QED
    BY <1>1, <1>2, <1>3, <1>4

-----------------------------------------------------------------------------
(* Near: how far the writer has moved.                                     *)

LEMMA NearElsewhere ==
    ASSUME target'.at # "burn" \/ writer'.at \notin {"erase", "erasing", "header", "data"}
    PROVE  Near'
BY DEF Near, Is

LEMMA NearKept ==
    ASSUME TypeInv, [Next]_vars, Near, UNCHANGED <<writer, target>>
    PROVE  Near'
<1>1. faults'["erase"] >= faults["erase"] /\ faults'["erase"] \in Nat /\ faults["erase"] \in Nat
    BY FaultsGrow, StepTypes DEF FaultKinds, TypeInv
<1> SUFFICES ASSUME Is("burn"), writer.at \in {"erase", "erasing", "header", "data"},
                    writer.block + NumBlks(writer.img) <= NumBlocks
             PROVE  writer.block <= FirstOf(target.part) + faults'["erase"]
    BY DEF Near, Is, FirstOf, NumBlks
<1>2. writer.block <= FirstOf(target.part) + faults["erase"]
    BY DEF Near
<1>3. writer.block \in Nat /\ FirstOf(target.part) \in Nat
    BY WriterIs, PlaceTypes DEF Blocks
<1> QED
    BY <1>1, <1>2, <1>3

LEMMA NearBurning ==
    ASSUME TypeInv, Near, Burning
    PROVE  Near'
<1> DEFINE b == writer.block
           N == NumBlks(target.img)
           first == FirstOf(target.part)
           e == faults["erase"]
<1>1. Is("burn") /\ UNCHANGED target /\ e \in Nat /\ first \in Nat /\ N \in Nat \ {0} /\ NumBlocks \in Nat
    BY PlaceTypes DEF Burning, Blocks, TypeInv, FaultKinds
<1>2. /\ writer.at \in {"erase", "erasing", "header", "data"} =>
             /\ writer.img = target.img /\ b \in Nat
             /\ writer = [at |-> writer.at, img |-> target.img, block |-> b,
                          last |-> LastOf(target.part), n |-> writer.n]
      /\ writer.at \in {"erase", "erasing", "header", "data"} /\ b + N <= NumBlocks => b <= first + e
      /\ writer.at \in {"erasing", "header", "data"} => b + N <= NumBlocks
    BY <1>1, WriterIs DEF Near
<1>3. ASSUME NEW at, writer'.at = at, NEW c \in Nat, writer'.block = c, writer'.img = target.img,
             faults'["erase"] \in Nat,
             at \in {"erase", "erasing", "header", "data"} /\ c + N <= NumBlocks
                 => c <= first + faults'["erase"]
      PROVE  Near'
    BY <1>1, <1>3 DEF Near, Is, FirstOf, NumBlks
<1>4. CASE Unprotect
  <2>1. UNCHANGED faults /\ WriterAt("erase")
    BY <1>4 DEF Unprotect, NoFault
  <2>2. CASE Failed
    BY <2>2, NearElsewhere DEF Failed
  <2>3. CASE /\ writer.block + NumBlks(writer.img) - 1 < NumBlocks
             /\ writer' = [writer EXCEPT !.at = "erasing"]
    <3>1. writer'.at = "erasing" /\ writer'.block = b /\ writer'.img = target.img
      BY <1>2, <2>1, <2>3 DEF WriterAt
    <3>2. b + N <= NumBlocks /\ b \in Nat
      BY <1>1, <1>2, <2>1, <2>3 DEF WriterAt
    <3> HIDE DEF b, N, first
    <3> QED
      BY <1>1, <1>2, <1>3, <2>1, <3>1, <3>2 DEF WriterAt
  <2>4. CASE /\ ~(writer.block + NumBlks(writer.img) - 1 < NumBlocks)
             /\ writer' = [writer EXCEPT !.block = @ + 1]
    <3>1. writer'.at = "erase" /\ writer'.block = b + 1 /\ writer'.img = target.img
      BY <1>2, <2>1, <2>4 DEF WriterAt
    <3>2. ~(b + 1 + N <= NumBlocks) /\ b + 1 \in Nat
      BY <1>1, <1>2, <2>1, <2>4 DEF WriterAt
    <3> HIDE DEF b, N, first
    <3> QED
      BY <1>1, <1>2, <1>3, <2>1, <3>1, <3>2 DEF WriterAt
  <2> QED
    BY <1>4, <2>2, <2>3, <2>4 DEF Unprotect
<1>5. CASE EraseBlock
  <2>1. WriterAt("erasing") /\ b \in Nat /\ b + N <= NumBlocks /\ b <= first + e
    BY <1>2, <1>5 DEF EraseBlock, WriterAt
  <2>2. CASE /\ Erase(writer.block + writer.n)
             /\ writer' = IF writer.n + 1 < NumBlks(writer.img) THEN [writer EXCEPT !.n = @ + 1]
                          ELSE [writer EXCEPT !.at = "header", !.n = 0]
    <3>1. writer'.block = b /\ writer'.img = target.img
      BY <1>2, <2>1, <2>2 DEF WriterAt
    <3>2. faults'["erase"] = e
      <4>1. UNCHANGED faults \/ Fault("unseen")
        BY <2>2 DEF Erase, NoFault
      <4> QED
        BY <4>1, FaultTypes DEF FaultKinds
    <3> HIDE DEF b, N, first
    <3> QED
      BY <1>1, <1>3, <2>1, <3>1, <3>2
  <2>3. CASE /\ EraseTimesOut(writer.block + writer.n)
             /\ writer' = [writer EXCEPT !.at = "erase", !.block = @ + 1, !.n = 0]
    <3>1. writer'.block = b + 1 /\ writer'.img = target.img
      BY <1>2, <2>1, <2>3 DEF WriterAt
    <3>2. faults'["erase"] = e + 1
      BY <2>3, FaultTypes DEF EraseTimesOut, FaultKinds
    <3> HIDE DEF b, N, first
    <3> QED
      BY <1>1, <1>3, <2>1, <3>1, <3>2
  <2> QED
    BY <1>5, <2>2, <2>3 DEF EraseBlock
<1>6. ASSUME writer.at \in {"header", "data"}, NEW k, NEW p, NEW c, NEW next, Program(k, p, c, next),
             next.at \in {"data", "passed"},
             next.at = "data" => next.block = b /\ next.img = target.img
      PROVE  Near'
  <2>1. b \in Nat /\ b <= first + e
    BY <1>2, <1>6
  <2>2. writer' \in {next, [at |-> "failed"]}
    BY <1>6, ProgramDoes
  <2>3. CASE writer'.at = "data"
    <3>1. writer'.block = b /\ writer'.img = target.img
      BY <1>6, <2>2, <2>3
    <3>2. faults'["erase"] = e
      <4>1. UNCHANGED faults \/ Fault("write")
        BY <1>6 DEF Program, NoFault
      <4> QED
        BY <4>1, FaultTypes DEF FaultKinds
    <3> HIDE DEF b, N, first
    <3> QED
      BY <1>1, <1>3, <2>1, <3>1, <3>2
  <2> QED
    BY <1>6, <2>2, <2>3, NearElsewhere
<1>7. CASE WriteHeader
  <2> DEFINE next == [writer EXCEPT !.at = "data", !.n = 1]
  <2>1. next.at = "data" /\ next.block = b /\ next.img = target.img /\ writer.at \in {"header", "data"}
    BY <1>2, <1>7 DEF WriteHeader, WriterAt
  <2>2. Program(writer.block, 0, Header(writer.img, writer.block), next)
    BY <1>7 DEF WriteHeader
  <2> HIDE DEF next, b
  <2> QED
    BY <1>6, <2>1, <2>2
<1>8. CASE WriteData
  <2> DEFINE next == IF writer.n < NumPage[writer.img] THEN [writer EXCEPT !.n = @ + 1]
                     ELSE [at |-> "passed"]
             q == At(writer.block, writer.n)
  <2>1. /\ next.at \in {"data", "passed"} /\ writer.at \in {"header", "data"}
        /\ next.at = "data" => next.block = b /\ next.img = target.img
    BY <1>2, <1>8 DEF WriteData, WriterAt
  <2>2. Program(q[1], q[2], Data(writer.img, writer.n), next)
    BY <1>8 DEF WriteData, DataPage
  <2> HIDE DEF next, b, q
  <2> QED
    BY <1>6, <2>1, <2>2
<1> QED
    BY <1>4, <1>5, <1>7, <1>8 DEF Burning, Writing

LEMMA NearStep ==
    ASSUME TypeInv, Near, [Next]_vars
    PROVE  Near'
<1>1. CASE UNCHANGED <<writer, target>>
    BY <1>1, NearKept
<1>2. CASE target'.at # "burn"
    BY <1>2, NearElsewhere
<1>3. CASE DecodeImage
  <2>1. CASE /\ target.part \in {"ubl", "app"} /\ target' = [at |-> "burn", part |-> target.part, img |-> target.img]
             /\ StartWrite(target.img, FirstOf(target.part), LastOf(target.part))
    <3>1. faults'["erase"] \in Nat /\ FirstOf(target.part) \in Nat
      BY <1>3, DeviceAssumption DEF DecodeImage, TypeInv, FaultKinds, FirstOf
    <3>2. writer'.block = FirstOf(target.part) /\ target'.part = target.part
      BY <2>1 DEF StartWrite
    <3> QED
      BY <3>1, <3>2 DEF Near, FirstOf
  <2> QED
    BY <1>2, <1>3, <2>1 DEF DecodeImage, TryAgain, UartBoot, Become, FirstOf, LastOf
<1>4. CASE HostStep
    BY <1>1, <1>4 DEF HostStep, Answered, Skip, StartOver, flashVars
<1>5. CASE GetCmd \/ GetHeader \/ GetBytes \/ Burned \/ EraseAll \/ Finish \/ TimeOut
  <2>1. GetCmd => writer'.at = "none"
    BY DEF GetCmd, flashVars, TypeInv, WriterOK, Is, NoWriter
  <2>2. GetHeader \/ GetBytes \/ Finish \/ TimeOut => target'.at # "burn"
    BY DEF GetHeader, GetBytes, Finish, TimeOut, TryAgain, UartBoot, Become
  <2>3. Burned => target'.at # "burn"
    BY DEF Burned, TryAgain, UartBoot, Become
  <2>4. EraseAll => target'.at # "burn"
    BY DEF EraseAll, TryAgain, UartBoot, Become, Is
  <2> QED
    BY <1>2, <1>5, <2>1, <2>2, <2>3, <2>4, NearElsewhere
<1>6. CASE Burning
    BY <1>6, NearBurning
<1>7. CASE Wiping
    BY <1>2, <1>7 DEF Wiping, Is
<1>8. CASE StartStep
    BY <1>2, <1>8 DEF StartStep, NandBoot, Copying, Copied, Become, TryAgain, UartBoot, Is
<1>9. CASE FaultStep
  <2>1. LoseRequest \/ LoseAnswer => UNCHANGED <<writer, target>>
    BY DEF LoseRequest, LoseAnswer, flashVars
  <2>2. SlowHost \/ PowerCut => target'.at # "burn"
    BY DEF SlowHost, PowerCut, TryAgain, UartBoot, Become
  <2> QED
    BY <1>1, <1>2, <1>9, <2>1, <2>2 DEF FaultStep
<1>10. CASE UNCHANGED vars
    BY <1>1, <1>10 DEF vars, flashVars
<1> QED
    BY <1>3, <1>4, <1>5, <1>6, <1>7, <1>8, <1>9, <1>10 DEF Next, TargetStep

LEMMA StaysNear == Spec => []Near
<1>1. Init => Near
    BY NearElsewhere DEF Init, Near, Is
<1> QED
    BY <1>1, NearStep, Types, PTL DEF Spec

-----------------------------------------------------------------------------
(* AreasApart.                                                             *)

LEMMA ReachGrows ==
    ASSUME TypeInv, [Next]_vars
    PROVE  /\ Reach(Ubl, FirstUbl, LastUbl) \in Nat
           /\ Reach(Ubl, FirstUbl, LastUbl) <= Reach(Ubl, FirstUbl, LastUbl)'
<1>1. /\ faults'["erase"] >= faults["erase"] /\ faults["erase"] \in Nat /\ faults'["erase"] \in Nat
    BY FaultsGrow, StepTypes DEF FaultKinds, TypeInv
<1>2. /\ FirstUbl \in Nat /\ LastUbl \in Nat /\ NumBlks(Ubl) \in Nat \ {0}
      /\ NumBlks(Ubl)' = NumBlks(Ubl)
    BY DeviceAssumption, LoaderAssumption, NumBlksType DEF NumBlks
<1> QED
    BY <1>1, <1>2 DEF Reach

LEMMA InitiallyApart ==
    ASSUME Init
    PROVE  AreasApart
<1> SUFFICES ASSUME NEW b \in Blocks, NEW p \in Pages, flash[b][p] \notin {Erased, Half}
             PROVE  flash[b][p].img # Ubl /\ b >= FirstApp
    BY DEF AreasApart
<1> DEFINE n == (b - OldAt) * PagesPerBlock + p
<1>1. flash[b][p] = IF b = OldAt /\ p = 0 THEN Header(Old, b)
                    ELSE IF n \in 1 .. NumPage[Old] THEN Data(Old, n) ELSE Erased
    BY DEF Init
<1>2. flash[b][p].img = Old /\ Old # Ubl
    BY <1>1, ApartAssumption DEF Header, Data
<1>3. /\ OldAt \in Nat /\ FirstApp <= OldAt /\ FirstApp \in Nat
      /\ b \in Nat /\ p \in Nat /\ p < PagesPerBlock /\ PagesPerBlock \in Nat \ {0}
    BY DeviceAssumption, LoaderAssumption DEF Blocks, Pages
<1>4. b >= OldAt
  <2>1. SUFFICES ASSUME b < OldAt PROVE n \notin 1 .. NumPage[Old]
    BY <1>1, <1>3, <2>1
  <2>2. b - OldAt \in Int /\ b - OldAt < 0 /\ PagesPerBlock * 0 = 0
    BY <1>3, <2>1
  <2>3. PagesPerBlock * (b - OldAt) + PagesPerBlock <= PagesPerBlock * 0
        /\ PagesPerBlock * (b - OldAt) \in Int
    BY <1>3, <2>2, Products
  <2>4. PagesPerBlock * (b - OldAt) = (b - OldAt) * PagesPerBlock
    BY <1>3, <2>2
  <2> QED
    BY <1>3, <2>2, <2>3, <2>4
<1> QED
    BY <1>2, <1>3, <1>4

\* Where a page may be.
Place(b, img) ==
    IF img = Ubl THEN b \in FirstUbl .. Reach(Ubl, FirstUbl, LastUbl) ELSE b >= FirstApp

LEMMA PlaceKept ==
    ASSUME TypeInv, [Next]_vars, NEW b \in Blocks, NEW img, Place(b, img)
    PROVE  Place(b, img)'
<1>1. FirstUbl \in Nat /\ b \in Nat
    BY DeviceAssumption DEF Blocks
<1>2. /\ Reach(Ubl, FirstUbl, LastUbl) \in Nat
      /\ Reach(Ubl, FirstUbl, LastUbl)' \in Nat
      /\ Reach(Ubl, FirstUbl, LastUbl) <= Reach(Ubl, FirstUbl, LastUbl)'
  <2>1. Reach(Ubl, FirstUbl, LastUbl)' \in Nat
    <3>1. /\ faults'["erase"] \in Nat
          /\ FirstUbl \in Nat /\ LastUbl \in Nat /\ NumBlks(Ubl) \in Nat \ {0}
          /\ NumBlks(Ubl)' = NumBlks(Ubl)
      <4>1. faults' \in [FaultKinds -> Nat]
        BY StepTypes DEF TypeInv
      <4> QED
        BY <4>1, DeviceAssumption, LoaderAssumption, NumBlksType DEF NumBlks, FaultKinds
    <3> QED
      BY <3>1 DEF Reach
  <2> QED
    BY <2>1, ReachGrows
<1> QED
    BY <1>1, <1>2 DEF Place

LEMMA WipesApart ==
    ASSUME TypeInv, [Next]_vars, AreasApart, Wipes
    PROVE  AreasApart'
<1> SUFFICES ASSUME NEW b \in Blocks, NEW p \in Pages, flash'[b][p] \notin {Erased, Half}
             PROVE  Place(b, flash[b][p].img)' /\ flash'[b][p] = flash[b][p]
    BY DEF AreasApart, Place
<1>1. flash'[b][p] = flash[b][p]
    BY DEF Wipes
<1>2. Place(b, flash[b][p].img)
    BY <1>1 DEF AreasApart, Place
<1> DEFINE img == flash[b][p].img
<1>3. img' = img
    BY <1>1
<1> HIDE DEF img
<1>4. Place(b, img)'
    BY <1>2, <1>3, PlaceKept DEF img, Place
<1> QED
    BY <1>1, <1>4 DEF img

LEMMA WriteApart ==
    ASSUME TypeInv, [Next]_vars, AreasApart, NEW k \in Blocks, NEW q \in Pages, NEW c,
           flash' = [flash EXCEPT ![k][q] = c], Place(k, c.img)
    PROVE  AreasApart'
<1> SUFFICES ASSUME NEW b \in Blocks, NEW p \in Pages, flash'[b][p] \notin {Erased, Half}
             PROVE  \/ Place(b, flash[b][p].img)' /\ flash'[b][p] = flash[b][p]
                    \/ Place(b, c.img)' /\ flash'[b][p] = c
    BY DEF AreasApart, Place
<1>1. CASE b = k /\ p = q
  <2>1. flash'[b][p] = c
    BY <1>1 DEF TypeInv
  <2> QED
    BY <1>1, <2>1, PlaceKept
<1>2. CASE ~(b = k /\ p = q)
  <2>1. flash'[b][p] = flash[b][p]
    BY <1>2 DEF TypeInv
  <2>2. Place(b, flash[b][p].img)
    BY <2>1 DEF AreasApart, Place
  <2> DEFINE img == flash[b][p].img
  <2>3. img' = img
    BY <2>1
  <2> HIDE DEF img
  <2>4. Place(b, img)'
    BY <2>2, <2>3, PlaceKept DEF img, Place
  <2> QED
    BY <2>1, <2>4 DEF img
<1> QED
    BY <1>1, <1>2

LEMMA WritesApart ==
    ASSUME TypeInv, [Next]_vars, Near, Right, AreasApart, HeaderWritten \/ PageWritten
    PROVE  AreasApart'
<1>1. Is("burn") /\ writer.at \in {"header", "data"}
    BY DEF HeaderWritten, PageWritten, WriterAt
<1>2. /\ target.part \in {"ubl", "app"} /\ target.img = ImageOf(target.part) /\ target.img = writer.img
      /\ writer.block \in FirstOf(target.part) .. LastOf(target.part) /\ writer.block \in Blocks
      /\ writer.block + NumBlks(target.img) <= NumBlocks
      /\ NumBlks(target.img) \in Nat \ {0}
    BY <1>1, Places, PlaceTypes DEF Right
<1>3. writer.block <= FirstOf(target.part) + faults["erase"]
    BY <1>1, <1>2 DEF Near
<1>4. ASSUME NEW k \in writer.block .. writer.block + NumBlks(target.img) - 1
      PROVE  Place(k, target.img)
  <2>1. CASE target.part = "ubl"
    <3>1. target.img = Ubl /\ FirstOf(target.part) = FirstUbl /\ LastOf(target.part) = LastUbl
      BY <1>2, <2>1 DEF ImageOf, FirstOf, LastOf
    <3>2. /\ writer.block \in Nat /\ FirstUbl \in Nat /\ LastUbl \in Nat
          /\ faults["erase"] \in Nat
      <4>1. faults["erase"] \in Nat
        BY DEF TypeInv, FaultKinds
      <4> QED
        BY <1>2, <4>1, DeviceAssumption DEF Blocks
    <3>3. k \in FirstUbl .. Reach(Ubl, FirstUbl, LastUbl)
      BY <1>2, <1>3, <3>1, <3>2 DEF Reach
    <3> QED
      BY <3>1, <3>3 DEF Place
  <2>2. CASE target.part = "app"
    <3>1. target.img # Ubl /\ writer.block >= FirstApp /\ FirstApp \in Nat /\ writer.block \in Nat
      BY <1>2, <2>2, ApartAssumption, DeviceAssumption DEF ImageOf, FirstOf, LastOf, Blocks
    <3> QED
      BY <1>2, <3>1 DEF Place
  <2> QED
    BY <1>2, <2>1, <2>2
<1>5. CASE HeaderWritten
  <2> DEFINE k == writer.block
             c == Header(target.img, k)
  <2>1. c.img = target.img
    BY DEF Header
  <2>2. flash' = [flash EXCEPT ![k][0] = c] /\ k \in Blocks
    BY <1>2, <1>5 DEF HeaderWritten, Blocks
  <2>3. Place(k, target.img)
    BY <1>2, <1>4 DEF Blocks
  <2> HIDE DEF c, k
  <2> QED
    BY <2>1, <2>2, <2>3, FirstPage, WriteApart
<1>6. CASE PageWritten
  <2> DEFINE k == At(writer.block, writer.n)[1]
             q == At(writer.block, writer.n)[2]
             c == Data(target.img, writer.n)
  <2>1. c.img = target.img
    BY DEF Data
  <2>2. flash' = [flash EXCEPT ![k][q] = c]
    BY <1>6 DEF PageWritten
  <2>3. k \in Blocks /\ q \in Pages /\ Place(k, target.img)
    BY <1>1, <1>4, <1>6, Places DEF PageWritten
  <2> HIDE DEF c, k, q
  <2> QED
    BY <2>1, <2>2, <2>3, WriteApart
<1> QED
    BY <1>5, <1>6

\* An application's page is never before the blocks where an application may
\* start, whatever fails and however often, and the boot loader's pages are in
\* the blocks from where it may start up to where the erases that timed out can
\* have moved it.  Without InStep this is false: a lost request and late
\* answers can have the one image burned in the place of the other.
THEOREM StayApart == Spec => [](InStep => AreasApart)
<1>1. Init => AreasApart
    BY InitiallyApart
<1>2. TypeInv /\ Near /\ Right /\ AreasApart /\ [Next]_vars => AreasApart'
    BY FlashChanges, WipesApart, WritesApart
<1>3. /\ TypeInv /\ Near /\ (InStep => Right) /\ (InStep => AreasApart) /\ [Next]_vars
      => (InStep' => AreasApart')
    BY <1>2, StillInStep
<1> QED
    BY <1>1, <1>3, Types, StaysNear, RightImages, PTL DEF Spec

-----------------------------------------------------------------------------
(* Written: what passed is there, and what was wiped is blank.             *)

LEMMA WrittenIdle ==
    ASSUME writer'.at \in {"none", "failed", "erase", "erasing", "header"}
    PROVE  Written'
BY DEF Written, WriterAt

\* The same of any contents of the flash, and any number of time-outs.
WholeIn(f, img, b) ==
    /\ b \in Blocks /\ f[b][0] = Header(img, b)
    /\ \A n \in 1 .. NumPage[img] :
           At(b, n)[1] \in Blocks /\ f[At(b, n)[1]][At(b, n)[2]] = Data(img, n)
BurntIn(f, e, img, first, last) == \E b \in first .. last : b <= first + e /\ WholeIn(f, img, b)

LEMMA WholeIs == \A img, b : WholeAt(img, b) <=> WholeIn(flash, img, b)
BY DEF WholeAt, WholeIn

LEMMA BurntIs ==
    \A img, first, last : Burnt(img, first, last) <=> BurntIn(flash, faults["erase"], img, first, last)
BY WholeIs DEF Burnt, BurntIn

LEMMA BurntMore ==
    ASSUME NEW f, NEW d \in Nat, NEW e \in Nat, d <= e,
           NEW img, NEW first \in Nat, NEW last \in Nat, BurntIn(f, d, img, first, last)
    PROVE  BurntIn(f, e, img, first, last)
BY DEF BurntIn

LEMMA TimeOutsGrow ==
    ASSUME TypeInv, [Next]_vars
    PROVE  faults["erase"] \in Nat /\ faults'["erase"] \in Nat /\ faults["erase"] <= faults'["erase"]
<1>1. faults' \in [FaultKinds -> Nat]
    BY StepTypes DEF TypeInv
<1> QED
    BY <1>1, FaultsGrow DEF FaultKinds, TypeInv

LEMMA BurntGrows ==
    ASSUME TypeInv, [Next]_vars, UNCHANGED flash,
           NEW img, NEW first \in Nat, NEW last \in Nat, Burnt(img, first, last)
    PROVE  Burnt(img, first, last)'
<1>1. BurntIn(flash, faults["erase"], img, first, last)
    BY BurntIs
<1>2. BurntIn(flash', faults'["erase"], img, first, last)
    BY <1>1, TimeOutsGrow, BurntMore
<1> QED
    BY <1>2 DEF Burnt, WholeAt, BurntIn, WholeIn, At, Header, Data

LEMMA WrittenKept ==
    ASSUME TypeInv, [Next]_vars, Written, UNCHANGED <<flash, writer, target>>
    PROVE  Written'
<1>1. ASSUME WriterAt("passed"), Is("burn")
      PROVE  Burnt(target.img, FirstOf(target.part), LastOf(target.part))'
  <2>1. ASSUME NEW img, NEW first \in Nat, NEW last \in Nat, Burnt(img, first, last)
        PROVE  BurntIn(flash', faults'["erase"], img, first, last)
    <3>1. BurntIn(flash, faults["erase"], img, first, last)
      BY <2>1, BurntIs
    <3> QED
      BY <2>1, <3>1, TimeOutsGrow, BurntMore
  <2>2. /\ Burnt(target.img, FirstOf(target.part), LastOf(target.part))
        /\ FirstOf(target.part) \in Nat /\ LastOf(target.part) \in Nat
    BY <1>1, PlaceTypes DEF Written, Blocks
  <2>3. BurntIn(flash', faults'["erase"], target.img, FirstOf(target.part), LastOf(target.part))
    BY <2>1, <2>2
  <2> QED
    BY <2>3 DEF Burnt, WholeAt, BurntIn, WholeIn, At, Header, Data, FirstOf, LastOf
<1>2. faults'["unseen"] = 0 => faults["unseen"] = 0
    BY FaultsGrow DEF FaultKinds, TypeInv
<1> QED
    BY <1>1, <1>2 DEF Written, WriterAt, Is, At, Header, Data, Blank

\* Each page written is one more of the image that is there.
LEMMA WrittenMore ==
    ASSUME TypeInv, [Next]_vars, Near, Written, Burning, WriteData
    PROVE  Written'
<1> DEFINE b == writer.block
           n == writer.n
           img == target.img
           q == At(b, n)
           c == Data(img, n)
           next == IF n < NumPage[img] THEN [writer EXCEPT !.n = @ + 1] ELSE [at |-> "passed"]
<1>1. Is("burn") /\ WriterAt("data") /\ UNCHANGED target
    BY DEF Burning, WriteData
<1>2. /\ writer = [at |-> "data", img |-> img, block |-> b, last |-> LastOf(target.part), n |-> n]
      /\ writer.img = img /\ b \in Nat /\ b \in Blocks
      /\ n \in 1 .. NumPage[img] /\ img \in Images /\ NumPage[img] \in Nat \ {0}
      /\ b \in FirstOf(target.part) .. LastOf(target.part)
      /\ b + NumBlks(img) <= NumBlocks
    BY <1>1, WriterIs, Places, PlaceTypes DEF WriterAt
<1>3. q[1] \in Blocks /\ q[2] \in Pages /\ (q[1] = b => q[2] # 0)
    BY <1>1, Places DEF WriterAt
<1>4. Program(q[1], q[2], c, next)
    BY <1>2 DEF WriteData, DataPage
<1>5. \/ writer' = [at |-> "failed"]
      \/ writer' = next /\ flash' = [flash EXCEPT ![q[1]][q[2]] = c]
  <2> HIDE DEF q, c, next
  <2> QED
    BY <1>4, ProgramDoes
<1>6. CASE writer' = [at |-> "failed"]
    BY <1>6, WrittenIdle
<1>7. CASE writer' = next /\ flash' = [flash EXCEPT ![q[1]][q[2]] = c]
  <2>1. flash'[b][0] = Header(img, b)
    <3>1. flash[b][0] = Header(img, b)
      BY <1>1, <1>2 DEF Written
    <3> HIDE DEF q, c
    <3>2. flash'[b][0] = flash[b][0]
      BY <1>2, <1>3, <1>7, FirstPage DEF TypeInv
    <3> QED
      BY <3>1, <3>2
  <2>2. ASSUME NEW m \in 1 .. n
        PROVE  At(b, m)[1] \in Blocks /\ flash'[At(b, m)[1]][At(b, m)[2]] = Data(img, m)
    <3>0. n \in Nat /\ m \in Nat /\ b \in Int /\ m \in 1 .. NumPage[img]
      BY <1>2
    <3>1. At(b, m)[2] \in Pages /\ At(b, m)[1] \in Blocks
      <4>1. /\ At(b, m)[2] \in Pages /\ At(b, m)[1] \in b .. b + NumBlks(img) - 1
            /\ NumBlks(img) \in Nat
        BY <1>2, <3>0, AtFacts
      <4> QED
        BY <1>2, <4>1, DeviceAssumption DEF Blocks
    <3>2. CASE m = n
      <4> HIDE DEF c
      <4>1. flash'[q[1]][q[2]] = c
        BY <1>3, <1>7 DEF TypeInv
      <4> QED
        BY <3>1, <3>2, <4>1 DEF c
    <3>3. CASE m # n
      <4>1. At(b, m) # q
        BY <1>2, <3>0, <3>3, AtInjective
      <4>2. ~(At(b, m)[1] = q[1] /\ At(b, m)[2] = q[2])
        BY <4>1 DEF At
      <4>3. flash[At(b, m)[1]][At(b, m)[2]] = Data(img, m)
        <5>1. m \in 1 .. writer.n - 1
          BY <3>0, <3>3
        <5> QED
          BY <1>1, <1>2, <5>1 DEF Written
      <4> DEFINE r == At(b, m)
      <4> HIDE DEF q, c, r
      <4>4. flash'[r[1]][r[2]] = flash[r[1]][r[2]]
        BY <1>3, <1>7, <3>1, <4>2 DEF TypeInv, r
      <4> QED
        BY <3>1, <4>3, <4>4 DEF r
    <3> QED
      BY <3>2, <3>3
  <2>3. CASE n < NumPage[img]
    <3>1. /\ writer'.at = "data" /\ writer'.block = b /\ writer'.img = img /\ writer'.n = n + 1
      BY <1>2, <1>7, <2>3
    <3>2. 1 .. (n + 1) - 1 = 1 .. n
      BY <1>2
    <3> HIDE DEF b, n, img, next
    <3>3. /\ flash'[b][0] = Header(img, b)
          /\ \A m \in 1 .. (n + 1) - 1 : flash'[At(b, m)[1]][At(b, m)[2]] = Data(img, m)
      BY <2>1, <2>2, <3>2
    <3>4. WriterAt("data")' /\ ~WriterAt("passed")' /\ ~WriterAt("wiping")'
      BY <3>1 DEF WriterAt
    <3> QED
      BY <3>1, <3>3, <3>4 DEF Written, At, Header, Data
  <2>4. CASE ~(n < NumPage[img])
    <3>1. writer' = [at |-> "passed"] /\ n = NumPage[img]
      BY <1>2, <1>7, <2>4
    <3>2. WholeIn(flash', img, b)
      <4> HIDE DEF b, n, img
      <4> QED
        BY <1>2, <2>1, <2>2, <3>1 DEF WholeIn
    <3>3. b <= FirstOf(target.part) + faults'["erase"]
      <4>1. b <= FirstOf(target.part) + faults["erase"]
        BY <1>1, <1>2 DEF Near, WriterAt
      <4>2. FirstOf(target.part) \in Nat
        BY <1>1, PlaceTypes DEF Blocks
      <4> QED
        BY <1>2, <4>1, <4>2, TimeOutsGrow
    <3>4. BurntIn(flash', faults'["erase"], img, FirstOf(target.part), LastOf(target.part))
      <4> HIDE DEF b, img
      <4> QED
        BY <1>2, <3>2, <3>3 DEF BurntIn
    <3>6. Burnt(target.img, FirstOf(target.part), LastOf(target.part))'
      BY <1>1, <3>4 DEF Burnt, WholeAt, BurntIn, WholeIn, At, Header, Data, FirstOf, LastOf
    <3>5. Is("burn")' /\ ~WriterAt("data")' /\ ~WriterAt("wiping")' /\ ~Is("erase")'
      BY <1>1, <3>1 DEF WriterAt, Is
    <3> QED
      BY <3>5, <3>6 DEF Written
  <2> QED
    BY <2>3, <2>4
<1> QED
    BY <1>5, <1>6, <1>7

LEMMA WrittenHeader ==
    ASSUME TypeInv, Burning, WriteHeader
    PROVE  Written'
<1> DEFINE b == writer.block
           img == target.img
           c == Header(img, b)
           next == [writer EXCEPT !.at = "data", !.n = 1]
<1>1. /\ Is("burn") /\ WriterAt("header")
      /\ writer = [at |-> "header", img |-> img, block |-> b, last |-> LastOf(target.part), n |-> writer.n]
      /\ writer.img = img /\ b \in Blocks
    BY WriterIs DEF Burning, WriteHeader, WriterAt
<1>2. Program(b, 0, c, next)
    BY <1>1 DEF WriteHeader
<1>3. writer' = [at |-> "failed"] \/ (writer' = next /\ flash' = [flash EXCEPT ![b][0] = c])
  <2> HIDE DEF b, c, next
  <2> QED
    BY <1>2, ProgramDoes
<1>4. CASE writer' = next /\ flash' = [flash EXCEPT ![b][0] = c]
  <2>1. writer'.at = "data" /\ writer'.block = b /\ writer'.img = img /\ writer'.n = 1
    BY <1>1, <1>4
  <2>2. flash'[b][0] = Header(img, b)
    <3> HIDE DEF c, b
    <3>1. flash'[b][0] = c
      BY <1>1, <1>4, FirstPage DEF TypeInv
    <3> QED
      BY <3>1 DEF c
  <2>3. WriterAt("data")' /\ ~WriterAt("passed")' /\ ~WriterAt("wiping")'
    BY <2>1 DEF WriterAt
  <2> HIDE DEF b, img, next
  <2>4. 1 .. 1 - 1 = {}
    OBVIOUS
  <2> QED
    BY <2>1, <2>2, <2>3, <2>4 DEF Written, Header
<1> QED
    BY <1>3, <1>4, WrittenIdle

\* Each block wiped is one more that is blank.
LEMMA WrittenWiping ==
    ASSUME TypeInv, Written, Wiping
    PROVE  Written'
<1> DEFINE k == writer.block
<1>1. /\ Is("erase") /\ WriterAt("wiping") /\ UNCHANGED target /\ k \in Blocks /\ k \in Nat
      /\ NumBlocks \in Nat
    BY WiperIs DEF Wiping, WipeBlock, Blocks
<1>2. CASE Failed
    BY <1>2, WrittenIdle DEF Failed
<1>3. CASE /\ Erase(k)
           /\ writer' = IF k + 1 < NumBlocks THEN [at |-> "wiping", block |-> k + 1] ELSE [at |-> "passed"]
  <2>1. ~Is("burn")' /\ ~WriterAt("data")'
    BY <1>1, <1>3 DEF Is, WriterAt
  <2>2. ASSUME faults'["unseen"] = 0
        PROVE  \A i \in 1 .. k : flash'[i] = Blank
    <3>1. faults["unseen"] \in Nat /\ (Fault("unseen") => faults'["unseen"] = faults["unseen"] + 1)
      <4>1. faults["unseen"] \in Nat
        BY DEF TypeInv, FaultKinds
      <4> QED
        BY <4>1, FaultTypes DEF FaultKinds
    <3>2. UNCHANGED faults /\ flash' = [flash EXCEPT ![k] = Blank]
      BY <1>3, <2>2, <3>1 DEF Erase, NoFault
    <3>3. \A i \in 1 .. k - 1 : flash[i] = Blank
      BY <1>1, <2>2, <3>2 DEF Written
    <3>4. \A i \in 1 .. k : i \in Blocks
      BY <1>1 DEF Blocks
    <3> HIDE DEF k
    <3>5. \A i \in 1 .. k : i = k \/ i \in 1 .. k - 1
      BY <1>1
    <3> QED
      BY <1>1, <3>2, <3>3, <3>4, <3>5 DEF TypeInv
  <2>3. CASE k + 1 < NumBlocks
    <3>1. writer'.at = "wiping" /\ writer'.block = k + 1 /\ (k + 1) - 1 = k
      BY <1>1, <1>3, <2>3
    <3>2. ~WriterAt("passed")'
      BY <3>1 DEF WriterAt
    <3> HIDE DEF k
    <3> QED
      BY <2>1, <2>2, <3>1, <3>2 DEF Written, Blank
  <2>4. CASE ~(k + 1 < NumBlocks)
    <3>1. writer'.at = "passed" /\ Blocks \subseteq 1 .. k
      BY <1>1, <1>3, <2>4 DEF Blocks
    <3>2. ~WriterAt("wiping")'
      BY <3>1 DEF WriterAt
    <3> HIDE DEF k
    <3> QED
      BY <2>1, <2>2, <3>1, <3>2 DEF Written, Blank
  <2> QED
    BY <2>3, <2>4
<1> QED
    BY <1>2, <1>3 DEF Wiping, WipeBlock

\* What the writer is after a step that neither burns nor wipes.
LEMMA WriterAfter ==
    ASSUME TypeInv, [Next]_vars, ~Burning, ~Wiping
    PROVE  \/ UNCHANGED <<flash, writer, target>>
           \/ UNCHANGED flash /\ writer'.at = "none"
           \/ EraseAll /\ StartWipe /\ UNCHANGED flash
           \/ DecodeImage /\ UNCHANGED flash
           \/ PowerCut /\ writer'.at = "none"
<1>1. CASE HostStep \/ LoseRequest \/ LoseAnswer \/ UNCHANGED vars
    BY <1>1 DEF HostStep, Answered, Skip, StartOver, LoseRequest, LoseAnswer, vars, flashVars
<1>2. CASE UNCHANGED <<flash, writer>> /\ ~Is("burn") /\ ~Is("erase")
    BY <1>2 DEF TypeInv, WriterOK, NoWriter
<1>3. CASE GetCmd \/ GetHeader \/ GetBytes \/ Finish \/ TimeOut \/ SlowHost
    BY <1>2, <1>3 DEF GetCmd, GetHeader, GetBytes, Finish, TimeOut, SlowHost, Waiting, flashVars, Is
<1>4. CASE DecodeImage
    BY <1>4 DEF DecodeImage
<1>5. CASE Burned
    BY <1>5 DEF Burned, NoWriter
<1>6. CASE EraseAll
    BY <1>6 DEF EraseAll, NoWriter
<1>7. CASE StartStep
    BY <1>2, <1>7 DEF StartStep, NandBoot, Copying, Booting, FindHeader, CopyPage, Decode, Copied, Is
<1>8. CASE PowerCut
    BY <1>8 DEF PowerCut, NoWriter
<1> QED
    BY <1>1, <1>3, <1>4, <1>5, <1>6, <1>7, <1>8 DEF Next, TargetStep, FaultStep

LEMMA WrittenStep ==
    ASSUME TypeInv, [Next]_vars, Near, Written
    PROVE  Written'
<1>1. CASE Burning
  <2>1. CASE Unprotect \/ EraseBlock
    <3>1. writer'.at \in {"failed", "erase", "erasing", "header"}
      <4>1. /\ writer.at \in {"erase", "erasing"}
            /\ writer = [at |-> writer.at, img |-> target.img, block |-> writer.block,
                         last |-> LastOf(target.part), n |-> writer.n]
        BY <1>1, <2>1, WriterIs DEF Burning, Unprotect, EraseBlock, WriterAt
      <4>3. PICK a, i, k, l, n : writer = [at |-> a, img |-> i, block |-> k, last |-> l, n |-> n]
        BY <4>1
      <4>4. a \in {"erase", "erasing"}
        BY <4>1, <4>3
      <4>5. /\ [writer EXCEPT !.at = "erasing"].at = "erasing"
            /\ [writer EXCEPT !.block = @ + 1].at = a /\ [writer EXCEPT !.n = @ + 1].at = a
            /\ [writer EXCEPT !.at = "header", !.n = 0].at = "header"
            /\ [writer EXCEPT !.at = "erase", !.block = @ + 1, !.n = 0].at = "erase"
        BY <4>3
      <4>6. CASE Unprotect
        <5>1. \/ writer' = [at |-> "failed"] \/ writer' = [writer EXCEPT !.at = "erasing"]
              \/ writer' = [writer EXCEPT !.block = @ + 1]
          BY <4>6 DEF Unprotect, Failed
        <5>2. CASE writer' = [at |-> "failed"]
          BY <5>2
        <5>3. CASE writer' = [writer EXCEPT !.at = "erasing"]
          BY <4>5, <5>3
        <5>4. CASE writer' = [writer EXCEPT !.block = @ + 1]
          BY <4>4, <4>5, <5>4
        <5> QED
          BY <5>1, <5>2, <5>3, <5>4
      <4>7. CASE EraseBlock
        <5>1. \/ writer' = [writer EXCEPT !.n = @ + 1]
              \/ writer' = [writer EXCEPT !.at = "header", !.n = 0]
              \/ writer' = [writer EXCEPT !.at = "erase", !.block = @ + 1, !.n = 0]
          BY <4>7 DEF EraseBlock
        <5> QED
          BY <4>4, <4>5, <5>1
      <4> QED
        BY <2>1, <4>6, <4>7
    <3> QED
      BY <3>1, WrittenIdle
  <2> QED
    BY <1>1, <2>1, WrittenHeader, WrittenMore DEF Burning, Writing
<1>2. CASE Wiping
    BY <1>2, WrittenWiping
<1>3. CASE EraseAll /\ StartWipe
  <2>1. writer' = [at |-> "wiping", block |-> 1] /\ 1 .. 1 - 1 = {}
    BY <1>3 DEF StartWipe
  <2> QED
    BY <2>1 DEF Written, WriterAt
<1>4. CASE DecodeImage
  <2>1. writer'.at \in {"none", "erase"}
    BY <1>4 DEF DecodeImage, StartWrite, TypeInv, WriterOK, NoWriter, Is
  <2> QED
    BY <2>1, WrittenIdle
<1> QED
    BY <1>1, <1>2, <1>3, <1>4, WriterAfter, WrittenIdle, WrittenKept

LEMMA StaysWritten == Spec => [](Near /\ Written)
<1>1. Init => Written
    BY DEF Init, Written, WriterAt, NoWriter
<1> QED
    BY <1>1, WrittenStep, Types, StaysNear, PTL DEF Spec

-----------------------------------------------------------------------------
(* Intact, Clean and CopiedSoFar: a burning leaves nothing half done where *)
(* booting looks, as long as no change to the flash fails.                 *)

FlashOK == Intact /\ Clean /\ CopiedSoFar

LEMMA StillUnharmed ==
    ASSUME TypeInv, [Next]_vars, Unharmed'
    PROVE  Unharmed /\ ~Fault("erase") /\ ~Fault("unseen") /\ ~Fault("write") /\ ~Fault("torn")
<1> DEFINE K == {"erase", "unseen", "write", "torn"}
<1>1. \A k \in K : faults[k] \in Nat /\ faults'[k] >= faults[k] /\ faults'[k] = 0
    BY FaultsGrow DEF Unharmed, TypeInv, FaultKinds
<1>2. ASSUME NEW k \in K PROVE ~Fault(k)
  <2>1. Fault(k) => faults'[k] = faults[k] + 1
    BY FaultTypes DEF FaultKinds
  <2> QED
    BY <1>1, <2>1
<1>3. \A k \in K : faults[k] = 0
    BY <1>1
<1> QED
    BY <1>2, <1>3 DEF Unharmed

LEMMA BlankHasNoHeader ==
    ASSUME NEW f, NEW b, f[b] = Blank
    PROVE  f[b][0] = Erased /\ \A img \in Images, n \in Blocks : f[b][0] # Header(img, n)
BY FirstPage, PageAssumption DEF Blank

\* An image that starts behind all that is changed stays whole.
LEMMA WholeBeyond ==
    ASSUME NEW r \in Nat, \A k \in Blocks : k > r => flash'[k] = flash[k],
           NEW img \in Images, NEW b \in Blocks, b > r, WholeIn(flash, img, b)
    PROVE  WholeIn(flash', img, b)
<1>1. b \in Nat
    BY DEF Blocks
<1>2. flash'[b][0] = Header(img, b)
    BY DEF WholeIn
<1>3. ASSUME NEW n \in 1 .. NumPage[img]
      PROVE  At(b, n)[1] \in Blocks /\ flash'[At(b, n)[1]][At(b, n)[2]] = Data(img, n)
  <2> DEFINE k == At(b, n)[1]
  <2>1. k \in Blocks /\ flash[k][At(b, n)[2]] = Data(img, n)
    BY DEF WholeIn
  <2>2. k \in b .. b + NumBlks(img) - 1 /\ NumBlks(img) \in Nat
    BY <1>1, AtFacts
  <2> HIDE DEF k
  <2>3. flash'[k] = flash[k]
    BY <1>1, <2>1, <2>2
  <2> QED
    BY <2>1, <2>3 DEF k
<1> QED
    BY <1>2, <1>3 DEF WholeIn

\* Intact after a step that changes blocks up to r.
LEMMA IntactAfter ==
    ASSUME TypeInv, Intact, NEW r \in Nat, \A k \in Blocks : k > r => flash'[k] = flash[k],
           WriterAt("data") => writer.block <= r,
           \A k \in Blocks : flash'[k][0] # Half,
           \A k \in Blocks : k >= FirstApp /\ k <= r =>
               \/ \A img \in Images, n \in Blocks : flash'[k][0] # Header(img, n)
               \/ WholeIn(flash', flash'[k][0].img, k)
               \/ WriterAt("data")' /\ k = writer'.block
    PROVE  Intact'
<1> SUFFICES ASSUME NEW k \in Blocks, HeaderAt(k)', k >= FirstApp
             PROVE  WholeIn(flash', flash'[k][0].img, k) \/ (WriterAt("data")' /\ k = writer'.block)
    BY DEF Intact, Blocks, WholeAt, WholeIn, At, Header, Data
<1>0. k \in Nat
    BY DEF Blocks
<1>1. CASE k <= r
    BY <1>1 DEF HeaderAt, Header, Blocks
<1>2. CASE k > r
  <2>1. flash'[k] = flash[k]
    BY <1>2
  <2>2. HeaderAt(k)
    BY <2>1 DEF HeaderAt, Header, Blocks
  <2>3. flash[k][0].img \in Images
    BY <2>2, HeaderIs
  <2>4. WholeIn(flash, flash[k][0].img, k)
    BY <1>0, <1>2, <2>2, WholeIs DEF Intact
  <2> QED
    BY <1>2, <2>1, <2>3, <2>4, WholeBeyond
<1> QED
    BY <1>0, <1>1, <1>2

\* Nothing has moved the writer from where it should begin.
LEMMA BeginsFirst ==
    ASSUME TypeInv, Near, Unharmed, Is("burn"), writer.at \in {"erasing", "header", "data"}
    PROVE  /\ writer.block = FirstOf(target.part) /\ writer.block <= FirstApp
           /\ writer.block \in Nat /\ FirstApp \in Nat /\ FirstOf(target.part) \in Nat
<1>1. /\ writer.block >= FirstOf(target.part) /\ writer.block \in Nat /\ writer.img = target.img
      /\ writer.block + NumBlks(target.img) <= NumBlocks
    BY WriterIs
<1>2. writer.block <= FirstOf(target.part) + 0
    BY <1>1 DEF Near, Unharmed
<1>3. FirstOf(target.part) \in Nat /\ FirstOf(target.part) <= FirstApp /\ FirstApp \in Nat
    BY DeviceAssumption DEF FirstOf
<1> QED
    BY <1>1, <1>2, <1>3

LEMMA CleanIdle ==
    ASSUME writer'.at \notin {"erasing", "header", "data"}
    PROVE  Clean'
BY DEF Clean, WriterAt

LEMMA NotCopying ==
    ASSUME TypeInv, ~Is("copying"), ~Is("running"), UNCHANGED copy
    PROVE  CopiedSoFar'
BY DEF TypeInv, CopyOK, CopiedSoFar, NoCopy

LEMMA FlashKeeps ==
    ASSUME TypeInv, FlashOK, UNCHANGED <<flash, writer, copy>>
    PROVE  FlashOK'
<1>1. Intact'
    BY DEF FlashOK, Intact, HeaderAt, WholeAt, At, NumBlks, Header, Data, Blocks, WriterAt
<1>2. Clean'
    BY DEF FlashOK, Clean, NoHeaderIn, HeaderAt, At, NumBlks, Header, Blocks, Blank, WriterAt
<1>3. CopiedSoFar'
    BY DEF FlashOK, CopiedSoFar, WholeAt, At, Header, Data, Blocks
<1> QED
    BY <1>1, <1>2, <1>3 DEF FlashOK

LEMMA IntactKeeps ==
    ASSUME TypeInv, Intact, UNCHANGED flash, ~WriterAt("data")
    PROVE  Intact'
BY DEF Intact, HeaderAt, WholeAt, At, NumBlks, Header, Data, Blocks, WriterAt

LEMMA UnprotectKeeps ==
    ASSUME TypeInv, FlashOK, Is("burn"), Unprotect
    PROVE  Intact' /\ Clean'
<1>1. WriterAt("erase") /\ UNCHANGED flash
    BY DEF Unprotect
<1>2. Intact'
    BY <1>1, IntactKeeps DEF FlashOK, WriterAt
<1>3. /\ writer = [at |-> "erase", img |-> writer.img, block |-> writer.block, last |-> writer.last, n |-> 0]
      /\ writer.block \in Nat
    BY <1>1, WriterIs DEF WriterAt
<1>4. CASE writer' = [writer EXCEPT !.at = "erasing"]
  <2>1. writer'.at = "erasing" /\ writer'.block = writer.block /\ writer'.n = 0
    BY <1>3, <1>4
  <2>2. writer.block .. writer.block + 0 - 1 = {}
    BY <1>3
  <2> QED
    BY <1>2, <2>1, <2>2 DEF Clean, WriterAt
<1>5. CASE writer' = [writer EXCEPT !.block = @ + 1]
  <2>1. writer'.at = "erase"
    BY <1>3, <1>5
  <2> QED
    BY <1>2, <2>1, CleanIdle
<1>6. CASE writer' = [at |-> "failed"]
    BY <1>2, <1>6, CleanIdle
<1>7. writer' \in {[at |-> "failed"], [writer EXCEPT !.at = "erasing"], [writer EXCEPT !.block = @ + 1]}
    BY DEF Unprotect, Failed
<1> QED
    BY <1>2, <1>4, <1>5, <1>6, <1>7

LEMMA EraseBlockKeeps ==
    ASSUME TypeInv, [Next]_vars, Near, FlashOK, Unharmed', Is("burn"), EraseBlock
    PROVE  Intact' /\ Clean'
<1> DEFINE b == writer.block
           n == writer.n
           N == NumBlks(writer.img)
<1>1. /\ WriterAt("erasing") /\ b \in Blocks /\ n \in Nat /\ n < N /\ b + N <= NumBlocks
      /\ writer = [at |-> "erasing", img |-> writer.img, block |-> b, last |-> writer.last, n |-> n]
      /\ N \in Nat /\ NumBlocks \in Nat
    BY WriterIs, PlaceTypes DEF EraseBlock, WriterAt
<1>2. b \in Nat /\ b <= FirstApp /\ FirstApp \in Nat
    BY <1>1, StillUnharmed, BeginsFirst DEF WriterAt
<1>3. /\ flash' = [flash EXCEPT ![b + n] = Blank]
      /\ writer' = IF n + 1 < N THEN [writer EXCEPT !.n = @ + 1]
                   ELSE [writer EXCEPT !.at = "header", !.n = 0]
    BY StillUnharmed DEF EraseBlock, Erase, EraseTimesOut, NoFault
<1>4. \A k \in b .. b + n - 1 : flash[k] = Blank
    BY <1>1 DEF FlashOK, Clean
<1> HIDE DEF b, n, N
<1>5. b + n \in Blocks /\ b + n \in Nat
    BY <1>1, <1>2 DEF Blocks
<1>6. ASSUME NEW k \in b .. b + n PROVE flash'[k] = Blank
  <2>1. k \in Blocks /\ (k = b + n \/ k \in b .. b + n - 1)
    BY <1>1, <1>2, <1>5 DEF Blocks
  <2> QED
    BY <1>3, <1>4, <2>1 DEF TypeInv
<1>7. \A k \in Blocks : k # b + n => flash'[k] = flash[k]
    BY <1>3 DEF TypeInv
<1>8. Intact'
  <2>1. \A k \in Blocks : k > b + n => flash'[k] = flash[k]
    BY <1>7, <1>5 DEF Blocks
  <2>2. \A k \in Blocks : flash'[k][0] # Half
    <3>1. flash'[b + n][0] # Half
      <4>1. flash'[b + n] = Blank
        BY <1>1, <1>2, <1>6
      <4> QED
        BY <4>1, BlankHasNoHeader, PageAssumption
    <3> QED
      BY <1>7, <3>1 DEF FlashOK, Intact
  <2>3. ASSUME NEW k \in Blocks, k >= FirstApp, k <= b + n
        PROVE  \A img \in Images, i \in Blocks : flash'[k][0] # Header(img, i)
    <3>1. k \in b .. b + n
      BY <1>1, <1>2, <2>3 DEF Blocks
    <3> QED
      BY <1>6, <3>1, BlankHasNoHeader
  <2> QED
    BY <1>1, <1>5, <2>1, <2>2, <2>3, IntactAfter DEF WriterAt, FlashOK
<1>9. CASE n + 1 < N
  <2>1. writer'.at = "erasing" /\ writer'.block = b /\ writer'.n = n + 1
    BY <1>1, <1>3, <1>9
  <2>2. b .. b + (n + 1) - 1 = b .. b + n
    BY <1>1, <1>2
  <2> QED
    BY <1>6, <1>8, <2>1, <2>2 DEF Clean, WriterAt, Blank
<1>10. CASE ~(n + 1 < N)
  <2>1. writer'.at = "header" /\ writer'.block = b /\ NumBlks(writer'.img) = N
    BY <1>1, <1>3, <1>10 DEF N
  <2>2. b .. b + N - 1 = b .. b + n
    BY <1>1, <1>2, <1>10
  <2> QED
    BY <1>6, <1>8, <2>1, <2>2 DEF Clean, WriterAt, Blank, NumBlks
<1> QED
    BY <1>8, <1>9, <1>10

\* What a page is written over was blank, so nothing fails.
LEMMA HeaderKeeps ==
    ASSUME TypeInv, [Next]_vars, Near, FlashOK, Unharmed', Is("burn"), WriteHeader
    PROVE  Intact' /\ Clean'
<1> DEFINE b == writer.block
           img == writer.img
           N == NumBlks(img)
           c == Header(img, b)
           next == [writer EXCEPT !.at = "data", !.n = 1]
<1>1. /\ WriterAt("header") /\ b \in Blocks /\ b + N <= NumBlocks /\ img \in Images
      /\ writer = [at |-> "header", img |-> img, block |-> b, last |-> writer.last, n |-> writer.n]
      /\ N \in Nat \ {0} /\ NumBlocks \in Nat
    BY WriterIs, PlaceTypes DEF WriteHeader, WriterAt
<1>2. b \in Nat /\ b <= FirstApp /\ FirstApp \in Nat
    BY <1>1, StillUnharmed, BeginsFirst DEF WriterAt
<1>3. \A k \in b .. b + N - 1 : flash[k] = Blank
    BY <1>1 DEF FlashOK, Clean
<1>4. flash' = [flash EXCEPT ![b][0] = c] /\ writer' = next
  <2>1. flash[b][0] = Erased
    BY <1>1, <1>2, <1>3, BlankHasNoHeader
  <2>2. Program(b, 0, c, next)
    BY DEF WriteHeader
  <2>3. ~Fault("write")
    BY StillUnharmed
  <2> HIDE DEF b, c, next
  <2> QED
    BY <2>1, <2>2, <2>3 DEF Program
<1>5. /\ writer'.at = "data" /\ writer'.block = b /\ writer'.img = img /\ writer'.n = 1
    BY <1>1, <1>4
<1>6. /\ flash'[b][0] = c /\ c \notin {Half, Erased}
      /\ \A p \in Pages : p # 0 => flash'[b][p] = flash[b][p]
      /\ \A k \in Blocks : k # b => flash'[k] = flash[k]
  <2>1. c \notin {Half, Erased}
    BY <1>1, PageAssumption
  <2> HIDE DEF b, c
  <2> QED
    BY <1>1, <1>4, <2>1, FirstPage DEF TypeInv
<1> HIDE DEF b, N, c, next
<1>7. \A k \in b + 1 .. b + N - 1 : k \in Blocks /\ flash'[k] = Blank
  <2>1. \A k \in b + 1 .. b + N - 1 : k \in Blocks /\ k # b /\ k \in b .. b + N - 1
    BY <1>1, <1>2 DEF Blocks
  <2> QED
    BY <1>3, <1>6, <2>1
<1>8. Intact'
  <2> DEFINE r == b + N - 1
  <2>1. r \in Nat /\ b <= r
    BY <1>1, <1>2
  <2>2. \A k \in Blocks : k > r => flash'[k] = flash[k]
    BY <1>2, <1>6, <2>1 DEF Blocks
  <2>3. \A k \in Blocks : flash'[k][0] # Half
    BY <1>6 DEF FlashOK, Intact
  <2>4. ASSUME NEW k \in Blocks, k >= FirstApp, k <= r
        PROVE  \/ \A i \in Images, j \in Blocks : flash'[k][0] # Header(i, j)
               \/ WriterAt("data")' /\ k = writer'.block
    <3>1. k = b \/ k \in b + 1 .. r
      BY <1>1, <1>2, <2>1, <2>4 DEF Blocks
    <3> QED
      BY <1>5, <1>7, <3>1, BlankHasNoHeader DEF WriterAt
  <2> HIDE DEF r
  <2> QED
    BY <1>1, <2>1, <2>2, <2>3, <2>4, IntactAfter DEF WriterAt, FlashOK
<1>9. NoHeaderIn((b .. b + N - 1) \ {b})'
  <2>1. \A k \in (b .. b + N - 1) \ {b} : k \in b + 1 .. b + N - 1
    BY <1>1, <1>2
  <2>2. \A k \in (b .. b + N - 1) \ {b} : \A i \in Images, j \in Blocks : flash'[k][0] # Header(i, j)
    BY <1>7, <2>1, BlankHasNoHeader
  <2>3. b' = b /\ N' = N
    BY <1>5 DEF b, N, img, NumBlks
  <2> QED
    BY <2>2, <2>3 DEF NoHeaderIn, HeaderAt, Header, Blocks
<1>10. ASSUME NEW m \in 1 .. NumPage[img]
       PROVE  flash'[At(b, m)[1]][At(b, m)[2]] = Erased
  <2> DEFINE q == At(b, m)
  <2>1. q[1] \in b .. b + N - 1 /\ q[2] \in Pages /\ (q[1] = b => q[2] # 0)
    BY <1>1, <1>2, AtFacts DEF N
  <2> HIDE DEF q
  <2>2. flash[q[1]][q[2]] = Erased /\ q[1] \in Blocks
    BY <1>1, <1>2, <1>3, <2>1 DEF Blank, Blocks
  <2>3. flash'[q[1]][q[2]] = flash[q[1]][q[2]]
    BY <1>6, <2>1, <2>2
  <2> QED
    BY <2>2, <2>3 DEF q
<1>11. Clean'
  <2>1. ~WriterAt("erasing")' /\ ~WriterAt("header")' /\ WriterAt("data")'
    BY <1>5 DEF WriterAt
  <2>2. NumBlks(writer'.img) = N
    BY <1>5 DEF N
  <2>3. NoHeaderIn((writer.block .. writer.block + NumBlks(writer.img) - 1) \ {writer.block})'
    BY <1>9 DEF b, N, img
  <2>4. \A m \in writer'.n .. NumPage[writer'.img] :
            flash'[At(writer'.block, m)[1]][At(writer'.block, m)[2]] = Erased
    BY <1>5, <1>10
  <2> QED
    BY <2>1, <2>3, <2>4 DEF Clean, At
<1> QED
    BY <1>8, <1>11

LEMMA DataKeeps ==
    ASSUME TypeInv, [Next]_vars, Near, Written', FlashOK, Unharmed', Is("burn"), UNCHANGED target, WriteData
    PROVE  Intact' /\ Clean'
<1> DEFINE b == writer.block
           n == writer.n
           img == writer.img
           N == NumBlks(img)
           q == At(b, n)
           c == Data(img, n)
           next == IF n < NumPage[img] THEN [writer EXCEPT !.n = @ + 1] ELSE [at |-> "passed"]
<1>1. /\ WriterAt("data") /\ b \in Blocks /\ b + N <= NumBlocks /\ img \in Images /\ target.img = img
      /\ writer = [at |-> "data", img |-> img, block |-> b, last |-> writer.last, n |-> n]
      /\ N \in Nat \ {0} /\ NumBlocks \in Nat /\ NumPage[img] \in Nat \ {0}
      /\ n \in 1 .. NumPage[img]
    BY WriterIs, PlaceTypes DEF WriteData, WriterAt
<1>2. b \in Nat /\ b <= FirstApp /\ FirstApp \in Nat /\ b = FirstOf(target.part)
    BY <1>1, StillUnharmed, BeginsFirst DEF WriterAt
<1>3. q[1] \in Blocks /\ q[2] \in Pages /\ q[1] \in b .. b + N - 1 /\ (q[1] = b => q[2] # 0)
    BY <1>1, Places DEF WriterAt
<1>4. flash' = [flash EXCEPT ![q[1]][q[2]] = c] /\ writer' = next
  <2>1. flash[q[1]][q[2]] = Erased
    BY <1>1 DEF FlashOK, Clean
  <2>2. Program(q[1], q[2], c, next)
    BY DEF WriteData, DataPage
  <2>3. ~Fault("write")
    BY StillUnharmed
  <2> HIDE DEF q, c, next
  <2> QED
    BY <2>1, <2>2, <2>3 DEF Program
<1>5. /\ flash'[q[1]][q[2]] = c
      /\ \A k \in Blocks, p \in Pages : ~(k = q[1] /\ p = q[2]) => flash'[k][p] = flash[k][p]
      /\ \A k \in Blocks : k # q[1] => flash'[k] = flash[k]
  <2> HIDE DEF q, c
  <2> QED
    BY <1>3, <1>4 DEF TypeInv
<1>6. c \notin {Half, Erased} /\ \A i \in Images, j \in Blocks : c # Header(i, j)
    BY <1>1, PageAssumption DEF Header, Data
<1>7. NoHeaderIn((b .. b + N - 1) \ {b})
    BY <1>1 DEF FlashOK, Clean
<1>8. /\ n < NumPage[img] =>
             writer'.at = "data" /\ writer'.block = b /\ writer'.img = img /\ writer'.n = n + 1
      /\ ~(n < NumPage[img]) => writer' = [at |-> "passed"]
    BY <1>1, <1>4
<1>9. n < NumPage[img] \/ ~(n < NumPage[img])
    OBVIOUS
<1> HIDE DEF b, n, N, q, c, next
<1>10. ASSUME NEW k \in b + 1 .. b + N - 1
       PROVE  \A i \in Images, j \in Blocks : flash'[k][0] # Header(i, j)
  <2>1. k \in Blocks /\ k \in (b .. b + N - 1) \ {b}
    BY <1>1, <1>2 DEF Blocks
  <2>2. \A i \in Images, j \in Blocks : flash[k][0] # Header(i, j)
    BY <1>7, <2>1 DEF NoHeaderIn, HeaderAt
  <2> QED
    BY <1>5, <1>6, <2>1, <2>2, FirstPage
<1>11. Intact'
  <2> DEFINE r == b + N - 1
  <2>1. r \in Nat /\ b <= r /\ q[1] <= r
    BY <1>1, <1>2, <1>3
  <2>2. \A k \in Blocks : k > r => flash'[k] = flash[k]
    BY <1>3, <1>5, <2>1 DEF Blocks
  <2>3. \A k \in Blocks : flash'[k][0] # Half
    BY <1>5, <1>6, FirstPage DEF FlashOK, Intact
  <2>4. ~(n < NumPage[img]) => WholeIn(flash', flash'[b][0].img, b)
    <3> SUFFICES ASSUME ~(n < NumPage[img]) PROVE WholeIn(flash', flash'[b][0].img, b)
      OBVIOUS
    <3>1. WriterAt("passed")' /\ Is("burn")'
      BY <1>8 DEF WriterAt, Is
    <3>2. BurntIn(flash', faults'["erase"], target.img, FirstOf(target.part), LastOf(target.part))
      BY <3>1 DEF Written, Burnt, WholeAt, BurntIn, WholeIn, At, Header, Data, FirstOf, LastOf
    <3>3. faults'["erase"] = 0
      BY DEF Unharmed
    <3>4. LastOf(target.part) \in Nat
      BY PlaceTypes DEF Blocks
    <3>5. WholeIn(flash', img, b)
      BY <1>1, <1>2, <3>2, <3>3, <3>4 DEF BurntIn
    <3>6. flash'[b][0].img = img
      BY <3>5 DEF WholeIn, Header
    <3> QED
      BY <3>5, <3>6
  <2>5. ASSUME NEW k \in Blocks, k >= FirstApp, k <= r
        PROVE  \/ \A i \in Images, j \in Blocks : flash'[k][0] # Header(i, j)
               \/ WholeIn(flash', flash'[k][0].img, k)
               \/ WriterAt("data")' /\ k = writer'.block
    <3>1. k = b \/ k \in b + 1 .. b + N - 1
      BY <1>1, <1>2, <2>1, <2>5 DEF Blocks
    <3> QED
      BY <1>8, <1>9, <1>10, <2>4, <3>1 DEF WriterAt
  <2>6. WriterAt("data") => writer.block <= r
    BY <2>1 DEF b
  <2> HIDE DEF r
  <2> QED
    BY <2>1, <2>2, <2>3, <2>5, <2>6, IntactAfter DEF FlashOK
<1>12. CASE ~(n < NumPage[img])
  <2>1. writer'.at = "passed"
    BY <1>8, <1>12
  <2> QED
    BY <1>11, <2>1, CleanIdle
<1>13. CASE n < NumPage[img]
  <2>1. \A k \in (b .. b + N - 1) \ {b} : k \in b + 1 .. b + N - 1
    BY <1>1, <1>2
  <2>2. \A k \in (b .. b + N - 1) \ {b} : \A i \in Images, j \in Blocks : flash'[k][0] # Header(i, j)
    BY <1>10, <2>1
  <2>3. b' = b /\ N' = N
    BY <1>8, <1>13 DEF b, N, img, NumBlks
  <2>4. NoHeaderIn((b .. b + N - 1) \ {b})'
    BY <2>2, <2>3 DEF NoHeaderIn, HeaderAt, Header, Blocks
  <2>5. NoHeaderIn((writer.block .. writer.block + NumBlks(writer.img) - 1) \ {writer.block})'
    BY <2>4 DEF b, N, img
  <2>6. ASSUME NEW m \in n + 1 .. NumPage[img]
        PROVE  flash'[At(b, m)[1]][At(b, m)[2]] = Erased
    <3>1. m \in 1 .. NumPage[img] /\ m \in Nat /\ n \in Nat /\ m # n /\ m \in n .. NumPage[img] /\ b \in Int
      BY <1>1, <1>2
    <3>2. flash[At(b, m)[1]][At(b, m)[2]] = Erased
      BY <1>1, <3>1 DEF FlashOK, Clean, b, n, img
    <3>3. At(b, m)[2] \in Pages /\ At(b, m)[1] \in Blocks
      <4>1. At(b, m)[2] \in Pages /\ At(b, m)[1] \in b .. b + N - 1
        BY <1>1, <3>1, AtFacts DEF N
      <4> QED
        BY <1>1, <1>2, <4>1 DEF Blocks
    <3>4. ~(At(b, m)[1] = q[1] /\ At(b, m)[2] = q[2])
      <4>1. At(b, m) # At(b, n)
        BY <3>1, AtInjective
      <4> QED
        BY <4>1 DEF At, q
    <3> QED
      BY <1>5, <3>2, <3>3, <3>4
  <2>7. \A m \in writer'.n .. NumPage[writer'.img] :
            flash'[At(writer'.block, m)[1]][At(writer'.block, m)[2]] = Erased
    BY <1>8, <1>13, <2>6
  <2>8. ~WriterAt("erasing")' /\ ~WriterAt("header")' /\ WriterAt("data")'
    BY <1>8, <1>13 DEF WriterAt
  <2>9. Clean'
    BY <2>5, <2>7, <2>8 DEF Clean, At
  <2> QED
    BY <1>11, <2>9
<1> QED
    BY <1>12, <1>13

LEMMA WipingKeeps ==
    ASSUME TypeInv, [Next]_vars, Written, FlashOK, Unharmed', Wiping
    PROVE  FlashOK'
<1> DEFINE k == writer.block
<1>1. /\ Is("erase") /\ WriterAt("wiping") /\ UNCHANGED <<target, copy>> /\ k \in Blocks /\ k \in Nat
    BY WiperIs DEF Wiping, WipeBlock, Blocks
<1>2. flash' = [flash EXCEPT ![k] = Blank] /\ writer'.at \in {"wiping", "passed"}
    BY StillUnharmed DEF Wiping, WipeBlock, Erase, EraseTimesOut, NoFault
<1>3. \A i \in 1 .. k - 1 : flash[i] = Blank
    BY <1>1, StillUnharmed DEF Written, Unharmed
<1>4. flash'[k] = Blank /\ \A i \in Blocks : i # k => flash'[i] = flash[i]
  <2> HIDE DEF k
  <2> QED
    BY <1>1, <1>2 DEF TypeInv
<1>5. ASSUME NEW i \in Blocks, i <= k PROVE flash'[i] = Blank
  <2>1. i = k \/ i \in 1 .. k - 1
    BY <1>1, <1>5 DEF Blocks
  <2>2. i \in 1 .. k - 1 => i # k
    BY <1>1
  <2> QED
    BY <1>3, <1>4, <2>1, <2>2
<1>6. Intact'
  <2>1. \A i \in Blocks : i > k => flash'[i] = flash[i]
    BY <1>1, <1>4 DEF Blocks
  <2>2. \A i \in Blocks : flash'[i][0] # Half
    BY <1>4, BlankHasNoHeader, PageAssumption DEF FlashOK, Intact
  <2>3. \A i \in Blocks : i <= k => \A img \in Images, j \in Blocks : flash'[i][0] # Header(img, j)
    BY <1>5, BlankHasNoHeader
  <2> HIDE DEF k
  <2> QED
    BY <1>1, <2>1, <2>2, <2>3, IntactAfter DEF WriterAt, FlashOK
<1>7. Clean'
    BY <1>2, CleanIdle
<1>8. CopiedSoFar'
    BY <1>1, NotCopying DEF Is
<1> QED
    BY <1>6, <1>7, <1>8 DEF FlashOK

LEMMA BurningKeeps ==
    ASSUME TypeInv, [Next]_vars, Near, Written, FlashOK, Unharmed', Burning
    PROVE  FlashOK'
<1>1. Is("burn") /\ UNCHANGED <<target, copy>>
    BY BurningWrites DEF Burning
<1>2. CopiedSoFar'
    BY <1>1, NotCopying DEF Is
<1>3. Intact' /\ Clean'
    BY <1>1, UnprotectKeeps, EraseBlockKeeps, HeaderKeeps, DataKeeps, WrittenStep DEF Burning, Writing
<1> QED
    BY <1>2, <1>3 DEF FlashOK

LEMMA WholeFound ==
    ASSUME TypeInv, Intact, Is("copying"), NEW b \in Blocks, b >= FirstApp,
           NEW img \in Images, flash[b][0] = Header(img, b)
    PROVE  WholeAt(img, b)
<1>1. writer = NoWriter
    BY DEF TypeInv, WriterOK, Is
<1>2. HeaderAt(b) /\ flash[b][0].img = img
    BY DEF HeaderAt, Header
<1> QED
    BY <1>1, <1>2 DEF Intact, WriterAt, NoWriter

LEMMA CopyingKeeps ==
    ASSUME TypeInv, Intact, CopiedSoFar, Copying
    PROVE  CopiedSoFar'
<1>1. UNCHANGED flash /\ Is("copying")
    BY DEF Copying, Booting, FindHeader, CopyPage, Decode
<1>2. \A img, b : WholeAt(img, b)' <=> WholeAt(img, b)
    BY <1>1 DEF WholeAt, At, Header, Data
<1>3. CASE FindHeader
  <2> DEFINE b == copy.block
  <2>1. copy.at = "find" /\ copy = [at |-> "find", block |-> b, twice |-> copy.twice]
        /\ b \in Nat /\ b >= FirstApp
    BY <1>3 DEF FindHeader, TypeInv, CopyOK, NoCopy
  <2>2. ASSUME b <= LastApp, NEW h \in HeadersSeen(b),
               copy' = [at |-> "read", block |-> b, twice |-> copy.twice,
                        img |-> h.img, from |-> h.n, n |-> 1, whole |-> flash[b][0] = h]
        PROVE  CopiedSoFar'
    <3>1. b \in Blocks
      BY <2>1, <2>2, DeviceAssumption DEF Blocks
    <3> HIDE DEF b
    <3>2. flash[b][0] = h /\ h = Header(h.img, b) /\ h.img \in Images
      BY <2>2, <3>1, SeenIs DEF Intact
    <3>3. WholeAt(h.img, b) /\ h.n = b
      BY <1>1, <2>1, <3>1, <3>2, WholeFound DEF Header
    <3>4. /\ copy'.at = "read" /\ copy'.block = b /\ copy'.from = b /\ copy'.img = h.img
          /\ copy'.whole = (flash[b][0] = h)
      BY <2>2, <3>3
    <3>5. copy'.whole
      BY <3>2, <3>4
    <3>6. WholeAt(copy.img, copy.block)'
      <4>1. WholeIn(flash', copy'.img, copy'.block)
        BY <1>1, <3>3, <3>4, WholeIs
      <4> QED
        BY <4>1 DEF WholeAt, WholeIn, At, Header, Data
    <3> QED
      BY <3>4, <3>5, <3>6 DEF CopiedSoFar
  <2>3. CASE copy' = [copy EXCEPT !.block = @ + 1]
    <3>1. copy'.at = "find"
      BY <2>1, <2>3
    <3> QED
      BY <3>1 DEF CopiedSoFar
  <2>4. CASE NotFound
    BY <2>4 DEF NotFound, CopiedSoFar
  <2> QED
    BY <1>3, <2>2, <2>3, <2>4 DEF FindHeader
<1>4. CASE CopyPage
  <2> DEFINE b == copy.block
             n == copy.n
             img == copy.img
             q == At(b, n)
             right == q[1] \in Blocks /\ flash[q[1]][q[2]] = Data(img, n)
  <2>1. /\ copy = [at |-> "read", block |-> b, twice |-> copy.twice, img |-> img,
                   from |-> copy.from, n |-> n, whole |-> copy.whole]
        /\ img \in Images /\ n \in Nat \ {0} /\ copy.whole \in BOOLEAN
    BY <1>4 DEF CopyPage, TypeInv, CopyOK, NoCopy
  <2>2. copy.from = b /\ copy.whole /\ WholeAt(img, b)
    BY <1>4 DEF CopyPage, CopiedSoFar
  <2>3. n \in 1 .. NumPage[img]
    BY <1>4, <2>1, NumBlksType DEF CopyPage
  <2>4. WholeIn(flash, img, b)
    BY <2>2, WholeIs
  <2>5. right /\ flash[b][0] = Header(img, b)
    BY <2>3, <2>4 DEF WholeIn
  <2>6. \/ copy' = [copy EXCEPT !.n = @ + 1, !.whole = @ /\ right]
        \/ copy' = [at |-> "find", block |-> copy.block + 1, twice |-> TRUE]
        \/ copy' = [copy EXCEPT !.twice = TRUE, !.n = 1, !.whole = flash[b][0] = Header(img, copy.from)]
    BY <1>4, <2>2 DEF CopyPage, ReadFailed
  <2> HIDE DEF right
  <2>7. ASSUME copy'.at = "read", copy'.from = b, copy'.block = b, copy'.img = img, copy'.whole
        PROVE  CopiedSoFar'
    <3>1. WholeIn(flash', copy'.img, copy'.block)
      BY <1>1, <2>4, <2>7
    <3>2. WholeAt(copy.img, copy.block)'
      BY <3>1 DEF WholeAt, WholeIn, At, Header, Data
    <3> QED
      BY <2>7, <3>2 DEF CopiedSoFar
  <2>8. CASE copy' = [copy EXCEPT !.n = @ + 1, !.whole = @ /\ right]
    <3>1. copy'.at = "read" /\ copy'.from = b /\ copy'.block = b /\ copy'.img = img
          /\ copy'.whole = (copy.whole /\ right)
      BY <2>1, <2>2, <2>8
    <3>2. copy'.whole
      BY <2>2, <2>5, <3>1
    <3> QED
      BY <2>7, <3>1, <3>2
  <2>9. CASE copy' = [copy EXCEPT !.twice = TRUE, !.n = 1, !.whole = flash[b][0] = Header(img, copy.from)]
    <3>1. copy'.at = "read" /\ copy'.from = b /\ copy'.block = b /\ copy'.img = img
          /\ copy'.whole = (flash[b][0] = Header(img, copy.from))
      BY <2>1, <2>2, <2>9
    <3>2. copy'.whole
      BY <2>2, <2>5, <3>1
    <3> QED
      BY <2>7, <3>1, <3>2
  <2>10. CASE copy' = [at |-> "find", block |-> copy.block + 1, twice |-> TRUE]
    BY <2>10 DEF CopiedSoFar
  <2> QED
    BY <2>6, <2>8, <2>9, <2>10
<1>5. CASE Decode
  <2>1. copy.whole
    BY <1>5 DEF Decode, CopiedSoFar
  <2>2. copy'.at \in {"failed", "hung"} \/ (copy'.at = "booted" /\ copy'.whole)
    BY <1>5, <2>1 DEF Decode
  <2> QED
    BY <2>2 DEF CopiedSoFar
<1> QED
    BY <1>3, <1>4, <1>5 DEF Copying, Booting

LEMMA FlashInit ==
    ASSUME Init
    PROVE  FlashOK
<1>1. Clean /\ CopiedSoFar
    BY DEF Init, Clean, CopiedSoFar, NoWriter, NoCopy, WriterAt
<1>2. /\ OldAt \in Nat /\ OldAt \in Blocks /\ PagesPerBlock \in Nat \ {0} /\ 0 \in Pages
      /\ Old \in Images /\ NumPage[Old] \in Nat \ {0}
      /\ OldAt + NumBlks(Old) <= NumBlocks /\ NumBlks(Old) \in Nat \ {0} /\ NumBlocks \in Nat
    BY DeviceAssumption, LoaderAssumption, FirstPage, NumBlksType DEF Blocks
<1>3. \A b \in Blocks, p \in Pages :
          flash[b][p] = IF b = OldAt /\ p = 0 THEN Header(Old, b)
                        ELSE IF (b - OldAt) * PagesPerBlock + p \in 1 .. NumPage[Old]
                             THEN Data(Old, (b - OldAt) * PagesPerBlock + p) ELSE Erased
    BY DEF Init
<1>4. ASSUME NEW b \in Blocks
      PROVE  flash[b][0] # Half /\ (HeaderAt(b) => b = OldAt)
  <2> DEFINE n == (b - OldAt) * PagesPerBlock + 0
  <2>1. flash[b][0] = IF b = OldAt /\ 0 = 0 THEN Header(Old, b)
                      ELSE IF n \in 1 .. NumPage[Old] THEN Data(Old, n) ELSE Erased
    BY <1>2, <1>3
  <2>2. \A j, img, i : Data(Old, j) # Header(img, i)
    BY DEF Data, Header
  <2> HIDE DEF n
  <2>3. /\ Header(Old, b) # Half /\ Erased # Half
        /\ \A j \in 1 .. NumPage[Old] : Data(Old, j) # Half
        /\ \A img \in Images, i \in Blocks : Erased # Header(img, i)
    BY <1>2, PageAssumption
  <2> QED
    BY <2>1, <2>2, <2>3 DEF HeaderAt
<1>5. ASSUME NEW m \in 1 .. NumPage[Old]
      PROVE  At(OldAt, m)[1] \in Blocks /\ flash[At(OldAt, m)[1]][At(OldAt, m)[2]] = Data(Old, m)
  <2> DEFINE d == m \div PagesPerBlock
             e == m % PagesPerBlock
  <2>1. /\ d \in Nat /\ e \in Nat /\ m = PagesPerBlock * d + e /\ m \in Nat \ {0}
    <3>1. m \in Nat \ {0} /\ m \in Nat /\ PagesPerBlock \in Nat \ {0}
      BY <1>2
    <3>2. d \in Nat /\ e \in 0 .. PagesPerBlock - 1 /\ m = PagesPerBlock * d + e
      <4>1. \A x \in Nat, y \in Nat \ {0} :
                x \div y \in Nat /\ x % y \in 0 .. y - 1 /\ x = y * (x \div y) + (x % y)
        BY DivMod
      <4> QED
        BY <3>1, <4>1
    <3> HIDE DEF d, e
    <3> QED
      BY <3>1, <3>2
  <2>2. /\ At(OldAt, m) = <<OldAt + d, e>> /\ e \in Pages
        /\ At(OldAt, m)[1] = OldAt + d /\ At(OldAt, m)[2] = e
        /\ OldAt + d \in OldAt .. OldAt + NumBlks(Old) - 1
    <3>1. At(OldAt, m)[2] \in Pages /\ At(OldAt, m)[1] \in OldAt .. OldAt + NumBlks(Old) - 1
      BY <1>2, AtFacts
    <3> QED
      BY <3>1 DEF At
  <2>3. d = 0 => PagesPerBlock * d = 0
    BY <1>2
  <2> HIDE DEF d, e
  <2> DEFINE k == OldAt + d
             j == k - OldAt
             n == j * PagesPerBlock + e
  <2>4. j = d /\ d * PagesPerBlock = PagesPerBlock * d
    BY <1>2, <2>1
  <2>5. k \in Blocks
    BY <1>2, <2>1, <2>2 DEF Blocks
  <2> HIDE DEF j
  <2>6. n = m
    BY <2>1, <2>4
  <2>7. ~(k = OldAt /\ e = 0)
    BY <1>2, <2>1, <2>3
  <2>8. flash[k][e] = IF k = OldAt /\ e = 0 THEN Header(Old, k)
                      ELSE IF n \in 1 .. NumPage[Old] THEN Data(Old, n) ELSE Erased
    BY <1>3, <2>2, <2>5 DEF j
  <2> HIDE DEF n, k
  <2>9. flash[k][e] = Data(Old, m)
    BY <2>6, <2>7, <2>8
  <2> QED
    BY <2>2, <2>5, <2>9 DEF k
<1>6. flash[OldAt][0] = Header(Old, OldAt) /\ flash[OldAt][0].img = Old
    BY <1>2, <1>3 DEF Header
<1>7. WholeAt(flash[OldAt][0].img, OldAt)
    BY <1>2, <1>5, <1>6 DEF WholeAt
<1>8. Intact
    BY <1>4, <1>7 DEF Intact
<1> QED
    BY <1>1, <1>8 DEF FlashOK

LEMMA FlashStep ==
    ASSUME TypeInv, [Next]_vars, Near, Written, FlashOK, Unharmed'
    PROVE  FlashOK'
<1>1. CASE UNCHANGED <<flash, writer, copy>>
    BY <1>1, FlashKeeps
<1>2. ASSUME UNCHANGED flash, ~WriterAt("data"), writer'.at \notin {"erasing", "header", "data"},
             CopiedSoFar'
      PROVE  FlashOK'
    BY <1>2, IntactKeeps, CleanIdle DEF FlashOK
<1>3. ~Is("burn") => ~WriterAt("data") /\ writer.at \notin {"erasing", "header", "data"}
    BY DEF TypeInv, WriterOK, NoWriter, WriterAt
<1>4. UNCHANGED <<flash, copy>> => CopiedSoFar'
    BY DEF FlashOK, CopiedSoFar, WholeAt, At, Header, Data
<1>5. CASE HostStep \/ LoseRequest \/ LoseAnswer \/ UNCHANGED vars
    BY <1>1, <1>5 DEF HostStep, Answered, Skip, StartOver, LoseRequest, LoseAnswer, vars, flashVars
<1>6. CASE GetCmd \/ GetHeader \/ GetBytes \/ Finish \/ TimeOut \/ SlowHost
    BY <1>1, <1>6 DEF GetCmd, GetHeader, GetBytes, Finish, TimeOut, SlowHost, flashVars
<1>7. CASE DecodeImage
  <2>1. UNCHANGED <<flash, copy>> /\ ~Is("burn")
    BY <1>7 DEF DecodeImage, Is
  <2>2. UNCHANGED writer \/ writer'.at = "erase"
    BY <1>7 DEF DecodeImage, StartWrite
  <2> QED
    BY <1>2, <1>3, <1>4, <2>1, <2>2
<1>8. CASE Burned
    BY <1>2, <1>4, <1>8 DEF Burned, NoWriter, WriterAt
<1>9. CASE EraseAll
  <2>1. UNCHANGED <<flash, copy>> /\ ~Is("burn") /\ writer'.at \in {"none", "wiping"}
    BY <1>9 DEF EraseAll, NoWriter, StartWipe, Is
  <2> QED
    BY <1>2, <1>3, <1>4, <2>1
<1>10. CASE Burning
    BY <1>10, BurningKeeps
<1>11. CASE Wiping
    BY <1>11, WipingKeeps
<1>12. CASE NandBoot
    BY <1>2, <1>3, <1>12 DEF NandBoot, StartCopy, CopiedSoFar, Is
<1>13. CASE Copying
  <2>1. /\ UNCHANGED <<flash, writer>> /\ ~Is("burn")
    BY <1>13 DEF Copying, Booting, FindHeader, CopyPage, Decode, Is
  <2> QED
    BY <1>2, <1>3, <1>13, <2>1, CopyingKeeps DEF FlashOK
<1>14. CASE Copied
  <2>1. /\ UNCHANGED <<flash, writer>> /\ ~Is("burn") /\ (UNCHANGED copy \/ copy' = NoCopy)
    BY <1>14 DEF Copied, Is
  <2> QED
    BY <1>2, <1>3, <1>4, <2>1 DEF CopiedSoFar, NoCopy
<1>15. CASE PowerCut
  <2>1. ~Is("burn") /\ ~Is("erase")
    BY <1>15, StillUnharmed DEF PowerCut
  <2>2. UNCHANGED flash /\ writer' = NoWriter /\ copy' = NoCopy
    BY <1>15, <2>1, InterruptedIs DEF PowerCut
  <2> QED
    BY <1>2, <1>3, <2>1, <2>2 DEF CopiedSoFar, NoCopy, NoWriter
<1> QED
    BY <1>5, <1>6, <1>7, <1>8, <1>9, <1>10, <1>11, <1>12, <1>13, <1>14, <1>15
       DEF Next, TargetStep, StartStep, FaultStep

\* An image is started from the flash only if it is there as a whole, whatever was
\* lost on the line, wherever the power went while the flash was not being
\* changed, and whatever could not be read, as long as no erase and no write has
\* failed or was cut short: in whichever order dialogs, restarts and boots come.
THEOREM StartsWhole == Spec => []BootsWhole
<1>1. Init => (Unharmed => FlashOK)
    BY FlashInit
<1>2. TypeInv /\ Near /\ Written /\ (Unharmed => FlashOK) /\ [Next]_vars => (Unharmed' => FlashOK')
    BY FlashStep, StillUnharmed
<1>3. TypeInv /\ (Unharmed => FlashOK) => BootsWhole
    BY DEF FlashOK, CopiedSoFar, BootsWhole, TypeInv, CopyOK, Is, NoCopy
<1> QED
    BY <1>1, <1>2, <1>3, Types, StaysWritten, PTL DEF Spec

-----------------------------------------------------------------------------
(* Progress: how far the host can be, and what has been done by then.      *)

LEMMA DueBounds ==
    ASSUME NEW S, NEW h \in Int, NEW s \in Seq(S)
    PROVE  /\ Len(s) \in Nat
           /\ DueOf(h, s) \in {h + Len(s), h + Len(s) - 1}
           /\ s = << >> => DueOf(h, s) = h
           /\ s # << >> /\ s[Len(s)] = "BOOTPSP" => DueOf(h, s) = h + Len(s) - 1
           /\ ~(s # << >> /\ s[Len(s)] = "BOOTPSP") => DueOf(h, s) = h + Len(s)
           /\ h <= DueOf(h, s)
<1> DEFINE n == Len(s)
<1>1. n \in Nat /\ (s = << >> => n = 0) /\ (s # << >> => n > 0)
    BY LenProperties, EmptySeq
<1>2. DueOf(h, s) = h + n - (IF s # << >> /\ s[n] = "BOOTPSP" THEN 1 ELSE 0)
    BY DEF DueOf
<1> HIDE DEF n
<1>3. /\ DueOf(h, s) \in {h + n, h + n - 1}
      /\ s = << >> => DueOf(h, s) = h
      /\ s # << >> /\ s[n] = "BOOTPSP" => DueOf(h, s) = h + n - 1
      /\ ~(s # << >> /\ s[n] = "BOOTPSP") => DueOf(h, s) = h + n
      /\ h <= DueOf(h, s)
    BY <1>1, <1>2
<1> QED
    BY <1>1, <1>3 DEF n

\* Before the target says its last DONE, the host cannot have heard it.
LEMMA NotYet ==
    ASSUME TypeInv, Alternate, target.at \in {"ack", "bytes", "decode", "burn", "erase"}
    PROVE  host + Len(toHost) <= Steps
<1>1. host + Len(toHost) <= High + 1
    BY DEF Alternate, Engaged
<1>2. Len(toHost) \in Nat /\ host \in Nat
    BY LenProperties DEF TypeInv, Steps
<1> DEFINE n == host + Len(toHost)
<1>3. n \in Nat /\ n <= High + 1
    BY <1>1, <1>2
<1> HIDE DEF n
<1>4. High + 1 <= Steps /\ High \in Nat
  <2>1. command \in {"burn", "run", "erase"} /\ TargetOK
    BY LoaderAssumption DEF TypeInv
  <2>2. CASE Is("erase")
    BY <2>1, <2>2 DEF High, Steps, Is, After
  <2>3. CASE ~Is("erase")
    <3>1. target.part \in Parts /\ (Is("burn") => target.part # "run")
      BY <2>1, <2>3 DEF TargetOK, Is
    <3> QED
      BY <2>1, <2>3, <3>1 DEF High, Steps, Is, Parts
  <2> QED
    BY <2>2, <2>3
<1>5. Steps \in Nat
    BY DEF Steps
<1>6. n <= Steps
    BY <1>3, <1>4, <1>5
<1> QED
    BY <1>6 DEF n

\* The boot loader stays whole while the blocks from the application's on are changed.
LEMMA UblKeeps ==
    ASSUME TypeInv, [Next]_vars, UblWhole,
           \A k \in Blocks : k < FirstApp => flash'[k] = flash[k]
    PROVE  UblWhole'
<1> DEFINE r == Reach(Ubl, FirstUbl, LastUbl)
           e == faults["erase"]
           N == NumBlks(Ubl)
<1>1. /\ r \in Nat /\ r <= r' /\ FirstApp \in Nat /\ FirstUbl \in Nat /\ LastUbl \in Nat
      /\ Ubl \in Images /\ e \in Nat /\ N \in Nat \ {0}
    BY ReachGrows, TimeOutsGrow, LoaderAssumption, DeviceAssumption, NumBlksType
<1>2. r' \in Nat
    BY <1>1, TimeOutsGrow DEF Reach, NumBlks
<1>3. ASSUME r' < FirstApp PROVE Burnt(Ubl, FirstUbl, LastUbl)'
  <2>1. r < FirstApp
    <3> HIDE DEF r
    <3> QED
      BY <1>1, <1>2, <1>3
  <2>2. BurntIn(flash, e, Ubl, FirstUbl, LastUbl)
    BY <2>1, BurntIs DEF UblWhole
  <2>3. PICK b \in FirstUbl .. LastUbl : b <= FirstUbl + e /\ WholeIn(flash, Ubl, b)
    BY <2>2 DEF BurntIn
  <2>4. b \in Nat /\ b \in Blocks /\ b + N - 1 < FirstApp
    <3>1. b \in Nat /\ b + N - 1 <= r
      BY <1>1, <2>3 DEF Reach
    <3> HIDE DEF r, N
    <3> QED
      BY <1>1, <2>1, <2>3, <3>1 DEF WholeIn
  <2>5. flash'[b][0] = Header(Ubl, b)
    BY <1>1, <2>3, <2>4 DEF WholeIn
  <2>6. ASSUME NEW n \in 1 .. NumPage[Ubl]
        PROVE  At(b, n)[1] \in Blocks /\ flash'[At(b, n)[1]][At(b, n)[2]] = Data(Ubl, n)
    <3> DEFINE k == At(b, n)[1]
    <3>1. k \in b .. b + N - 1
      BY <1>1, <2>4, <2>6, AtFacts
    <3>2. k \in Blocks /\ flash[k][At(b, n)[2]] = Data(Ubl, n)
      BY <2>3 DEF WholeIn
    <3> HIDE DEF k, N
    <3>3. k < FirstApp
      BY <1>1, <2>4, <3>1
    <3> QED
      BY <3>2, <3>3 DEF k
  <2>7. WholeIn(flash', Ubl, b)
    BY <2>4, <2>5, <2>6 DEF WholeIn
  <2>8. BurntIn(flash', faults'["erase"], Ubl, FirstUbl, LastUbl)
    BY <1>1, <2>3, <2>4, <2>7, TimeOutsGrow DEF BurntIn
  <2> QED
    BY <2>8 DEF Burnt, WholeAt, BurntIn, WholeIn, At, Header, Data
<1> QED
    BY <1>3 DEF UblWhole

LEMMA DoneKept ==
    ASSUME TypeInv, [Next]_vars, UNCHANGED <<flash, command>>
    PROVE  Done => Done'
<1> SUFFICES ASSUME Done PROVE Done'
    OBVIOUS
<1>1. FirstApp \in Nat /\ LastApp \in Nat
    BY DeviceAssumption
<1>2. command = "burn" => Burnt(App, FirstApp, LastApp)' /\ UblWhole'
    BY <1>1, BurntGrows, UblKeeps DEF Done
<1>3. faults'["unseen"] = 0 => faults["unseen"] = 0
    BY FaultsGrow DEF FaultKinds, TypeInv
<1> QED
    BY <1>2, <1>3 DEF Done, Blank

LEMMA ProgressKept ==
    ASSUME TypeInv, [Next]_vars, Progress, UNCHANGED <<flash, command, target>>,
           Is("cmd") => Due' <= Due \/ Due' <= 2, Due' \in Int,
           host' \in Int, Len(toHost') \in Nat,
           Is("hung") => host' + Len(toHost') <= host + Len(toHost)
    PROVE  Progress'
<1>1. (Done => Done') /\ (UblWhole => UblWhole')
    BY DoneKept, UblKeeps
<1>2. Steps' = Steps /\ Steps \in Nat /\ Steps >= 2
    BY DEF Steps
<1>3. host \in Int /\ toHost \in Seq(Answers) /\ Len(toHost) \in Nat
    BY LenProperties DEF TypeInv, Steps
<1>4. Due \in Int
    BY <1>3, DueBounds DEF Due
<1>5. /\ Is("cmd")' <=> Is("cmd")
      /\ Is("end")' <=> Is("end")
      /\ Is("hung")' <=> Is("hung")
      /\ Is("running")' <=> Is("running")
      /\ After' <=> After
    BY DEF Is, After
<1>6. Is("cmd") => Done \/ Due' <= Steps
    BY <1>2, <1>4 DEF Progress
<1>7. Is("hung") => Done \/ host' + Len(toHost') <= Steps
  <2>1. Is("hung") => Done \/ host + Len(toHost) <= Steps
    BY DEF Progress
  <2> DEFINE n == host + Len(toHost)
             m == host' + Len(toHost')
  <2>2. n \in Int /\ m \in Int /\ (Is("hung") => m <= n)
    BY <1>3
  <2> HIDE DEF n, m
  <2>3. Is("hung") => Done \/ n <= Steps
    BY <2>1 DEF n
  <2>4. Is("hung") => Done \/ m <= Steps
    BY <1>2, <2>2, <2>3
  <2> QED
    BY <2>4 DEF m
<1> QED
    BY <1>1, <1>2, <1>5, <1>6, <1>7 DEF Progress

\* The target starts over.
LEMMA ProgressTryAgain ==
    ASSUME TypeInv, [Next]_vars, Progress, TryAgain, UNCHANGED <<command, host>>,
           host + Len(toHost) <= Steps \/ (Done /\ UNCHANGED flash)
    PROVE  Progress'
<1>1. target' = [at |-> "cmd", part |-> "none", img |-> "none"]
      /\ toHost' = toHost \o <<"BOOTPSP">>
    BY DEF TryAgain, UartBoot, Become, Say
<1>2. host \in Int /\ toHost \in Seq(Answers) /\ "BOOTPSP" \in Answers
    BY DEF TypeInv, Steps, Answers
<1> DEFINE t == toHost \o <<"BOOTPSP">>
           n == Len(toHost)
<1>3. /\ n \in Nat /\ t \in Seq(Answers) /\ t # << >> /\ Len(t) = n + 1 /\ t[n + 1] = "BOOTPSP"
    BY <1>2, SayFacts
<1>4. toHost' = t
    BY <1>1
<1> HIDE DEF t
<1>5. Due' = DueOf(host, t)
    BY <1>4 DEF Due, DueOf
<1>6. DueOf(host, t) = host + Len(t) - 1
    BY <1>2, <1>3, DueBounds
<1>7. host + n <= Steps \/ (Done /\ UNCHANGED flash)
    OBVIOUS
<1> HIDE DEF n
<1>8. Due' = host + n
    BY <1>2, <1>3, <1>5, <1>6
<1>9. Steps' = Steps
    BY DEF Steps
<1>10. Done' \/ Due' <= Steps'
    BY <1>7, <1>8, <1>9, DoneKept
<1>11. Is("cmd")' /\ ~Is("end")' /\ ~Is("hung")' /\ ~After' /\ (target.part)' # "app"
    BY <1>1 DEF Is, After
<1> QED
    BY <1>10, <1>11 DEF Progress

\* Steps at which nothing has to have been done.
LEMMA ProgressOn ==
    ASSUME TypeInv, [Next]_vars, Progress, UNCHANGED flash,
           target'.at \in {"ack", "bytes", "decode", "burn", "erase", "crashed"},
           target'.part = "app" => target.part = "app" \/ UblWhole
    PROVE  Progress'
<1>1. UblWhole => UblWhole'
    BY UblKeeps
<1>2. ~Is("cmd")' /\ ~Is("end")' /\ ~Is("hung")' /\ ~After'
    BY DEF Is, After
<1> QED
    BY <1>1, <1>2 DEF Progress

LEMMA ProgressInit ==
    ASSUME Init
    PROVE  Progress
<1>1. host = 1 /\ toHost = <<"BOOTPSP">> /\ target.at = "cmd" /\ target.part = "none"
    BY DEF Init
<1>2. Len(toHost) = 1 /\ toHost # << >> /\ toHost[1] = "BOOTPSP"
    BY <1>1
<1>3. Due = 1
    BY <1>1, <1>2 DEF Due, DueOf
<1> QED
    BY <1>1, <1>3 DEF Progress, Is, After, Steps

LEMMA ProgressHost ==
    ASSUME TypeInv, [Next]_vars, Alternate, Progress, HostStep \/ LoseRequest \/ LoseAnswer
    PROVE  Progress'
<1>1. /\ host \in Int /\ toHost \in Seq(Answers) /\ UNCHANGED <<flash, command, target>>
      /\ DueOf(host, toHost) = Due
    BY DEF TypeInv, Steps, HostStep, Answered, Skip, StartOver, LoseRequest, LoseAnswer, flashVars, Due
<1> DEFINE n == Len(toHost)
<1>2. n \in Nat /\ Due \in {host + n, host + n - 1}
      /\ (toHost # << >> /\ toHost[n] = "BOOTPSP" => Due = host + n - 1)
      /\ (~(toHost # << >> /\ toHost[n] = "BOOTPSP") => Due = host + n)
    BY <1>1, DueBounds
<1>3. ASSUME NEW h \in Int, NEW t \in Seq(Answers), host' = h, toHost' = t,
             Is("cmd") => DueOf(h, t) <= Due \/ DueOf(h, t) <= 2,
             Is("hung") => h + Len(t) <= host + n
      PROVE  Progress'
  <2>1. Due' = DueOf(h, t)
    BY <1>3 DEF Due, DueOf
  <2>2. DueOf(h, t) \in Int /\ Len(t) \in Nat
    BY DueBounds
  <2>3. host' \in Int /\ Len(toHost') \in Nat
        /\ (Is("hung") => host' + Len(toHost') <= host + Len(toHost))
    BY <1>3, <2>2
  <2> QED
    BY <1>1, <1>3, <2>1, <2>2, <2>3, ProgressKept
<1>4. CASE Answered
  <2> DEFINE t == Tail(toHost)
  <2>1. /\ toHost # << >> /\ host' = host + 1 /\ toHost' = t
        /\ toHost[1] = "BOOTPSP" => host = 1
    BY <1>4, AnsweredDoes
  <2>2. /\ n \in Nat \ {0} /\ t \in Seq(Answers) /\ Len(t) = n - 1
        /\ \A i \in 1 .. n - 1 : t[i] = toHost[i + 1]
    BY <1>1, <2>1, TailFacts
  <2> HIDE DEF t, n
  <2> DEFINE h == host + 1
  <2>a. h \in Int
    BY <1>1
  <2>b. h = host + 1
    OBVIOUS
  <2> HIDE DEF h
  <2> DEFINE d == DueOf(h, t)
  <2>3. /\ d \in {h + Len(t), h + Len(t) - 1}
        /\ t # << >> /\ t[Len(t)] = "BOOTPSP" => d = h + Len(t) - 1
    BY <2>2, <2>a, DueBounds
  <2>4. d <= Due \/ d <= 2
    <3> HIDE DEF d
    <3>1. CASE Due = host + n
      BY <1>1, <2>2, <2>3, <2>b, <3>1
    <3>2. CASE Due # host + n
      <4>1. toHost[n] = "BOOTPSP"
        BY <1>2, <3>2 DEF n
      <4>2. CASE n = 1
        BY <1>1, <2>1, <2>2, <2>3, <2>b, <4>1, <4>2
      <4>3. CASE n # 1
        <5>1. n - 1 \in 1 .. n - 1 /\ (n - 1) + 1 = n
          BY <2>2, <4>3
        <5>2. t[n - 1] = "BOOTPSP"
          BY <2>2, <4>1, <5>1
        <5>3. t # << >>
          BY <2>2, <4>3, EmptySeq
        <5>4. t[Len(t)] = "BOOTPSP"
          BY <2>2, <5>2
        <5>5. d = h + Len(t) - 1
          BY <2>3, <5>3, <5>4
        <5> QED
          BY <1>1, <1>2, <2>2, <2>b, <3>2, <5>5 DEF n
      <4> QED
        BY <4>2, <4>3
    <3> QED
      BY <3>1, <3>2
  <2>5. host' = h
    BY <2>1, <2>b
  <2>6. h + Len(t) <= host + n
    BY <1>1, <2>2, <2>b
  <2> QED
    BY <1>3, <2>1, <2>2, <2>4, <2>5, <2>6, <2>a
<1>5. CASE Skip \/ LoseAnswer
  <2>1. \E t \in Seq(Answers) : toHost' = t /\ Len(t) = n - 1
    <3>1. CASE Skip
      <4>1. toHost # << >> /\ toHost' = Tail(toHost)
        BY <3>1 DEF Skip
      <4> QED
        BY <1>1, <4>1, TailFacts
    <3>2. CASE LoseAnswer
      BY <1>1, <3>2, RemoveFacts DEF LoseAnswer
    <3> QED
      BY <1>5, <3>1, <3>2
  <2>2. PICK t \in Seq(Answers) : toHost' = t /\ Len(t) = n - 1
    BY <2>1
  <2> HIDE DEF n
  <2> DEFINE d == DueOf(host, t)
  <2>3. d \in {host + Len(t), host + Len(t) - 1}
    BY <1>1, DueBounds
  <2> HIDE DEF d
  <2>4. d <= Due
    BY <1>1, <1>2, <2>2, <2>3 DEF n
  <2>5. host' = host
    BY <1>5 DEF Skip, LoseAnswer
  <2>6. host + Len(t) <= host + n
    BY <1>1, <1>2, <2>2 DEF n
  <2> QED
    BY <1>1, <1>3, <2>2, <2>4, <2>5, <2>6 DEF d
<1>6. CASE StartOver
  <2>1. /\ toHost # << >> /\ toHost[1] = "BOOTPSP" /\ Len(toHost) \in Nat
        /\ host' \in {0, 1} /\ (toHost' = Tail(toHost) \/ toHost' = << >> \/ Len(toHost) > 1)
    BY <1>1, <1>6, TailFacts DEF StartOver, GaveUp
  <2>2. 1 \in DOMAIN toHost
    <3>1. Len(toHost) \in Nat \ {0} /\ DOMAIN toHost = 1 .. Len(toHost)
      BY <1>1, <2>1, TailFacts
    <3> QED
      BY <3>1
  <2>3. Is("cmd") /\ 1 = Len(toHost)
    BY <2>1, <2>2 DEF Alternate, Arrived
  <2>4. Tail(toHost) \in Seq(Answers) /\ Len(Tail(toHost)) = 0
    BY <1>1, <2>1, <2>3, TailFacts
  <2>5. Tail(toHost) = << >>
    BY <2>4, EmptySeq
  <2>6. toHost' = << >>
    <3>1. ~(Len(toHost) > 1)
      BY <2>1, <2>3
    <3> QED
      BY <2>1, <2>5, <3>1, Zenon
  <2>7. << >> \in Seq(Answers)
    BY EmptySeq
  <2>8. \A h \in {0, 1} : DueOf(h, << >>) <= 2
    <3>1. \A h \in Int : DueOf(h, << >>) = h
      BY <2>7, DueBounds
    <3> QED
      BY <3>1
  <2>9. PICK h \in Int : host' = h /\ DueOf(h, << >>) <= 2
    BY <2>1, <2>8
  <2>10. ~Is("hung")
    BY <2>3 DEF Is
  <2> QED
    BY <1>3, <2>6, <2>7, <2>9, <2>10
<1>7. CASE LoseRequest
  <2>1. host' = host /\ toHost' = toHost
    BY <1>7 DEF LoseRequest
  <2>2. Due <= Due /\ host + n <= host + n
    BY <1>1, <1>2
  <2> QED
    BY <1>1, <1>3, <2>1, <2>2
<1> QED
    BY <1>4, <1>5, <1>6, <1>7 DEF HostStep

\* The blocks before the writer stay as they are.
LEMMA BurningLocal ==
    ASSUME TypeInv, Burning
    PROVE  \A k \in Blocks : k < writer.block => flash'[k] = flash[k]
<1> SUFFICES ASSUME NEW k \in Blocks, k < writer.block PROVE flash'[k] = flash[k]
    OBVIOUS
<1>1. /\ Is("burn") /\ flash \in [Blocks -> [Pages -> Contents]] /\ k \in Nat
    BY DEF Burning, TypeInv, Blocks
<1>2. \A j, f : j # k /\ flash' = [flash EXCEPT ![j] = f] => flash'[k] = flash[k]
    BY <1>1
<1>3. \A j, p, c : j # k /\ flash' = [flash EXCEPT ![j][p] = c] => flash'[k] = flash[k]
    BY <1>1
<1>4. writer.block \in Nat /\ writer.n \in Nat /\ target.img \in Images
    BY <1>1, WriterIs, PlaceTypes
       DEF Burning, Writing, Unprotect, EraseBlock, WriteHeader, WriteData, WriterAt
<1>5. CASE Unprotect
    BY <1>5 DEF Unprotect
<1>6. CASE EraseBlock
  <2>1. writer.block + writer.n # k
    BY <1>1, <1>4
  <2>2. \E f : flash' = [flash EXCEPT ![writer.block + writer.n] = f]
    BY <1>6 DEF EraseBlock, Erase, EraseTimesOut
  <2> QED
    BY <1>2, <2>1, <2>2
<1>7. ASSUME NEW j, NEW p, NEW c, NEW next, Program(j, p, c, next), j # k
      PROVE  flash'[k] = flash[k]
  <2>1. \E there : flash' = [flash EXCEPT ![j][p] = there]
    BY <1>7 DEF Program
  <2> QED
    BY <1>3, <1>7, <2>1
<1>8. CASE WriteHeader
  <2>1. writer.block # k
    BY <1>1, <1>4
  <2> QED
    BY <1>7, <1>8, <2>1 DEF WriteHeader
<1>9. CASE WriteData
  <2> DEFINE q == At(writer.block, writer.n)
             c == Data(writer.img, writer.n)
             next == IF writer.n < NumPage[writer.img] THEN [writer EXCEPT !.n = @ + 1]
                     ELSE [at |-> "passed"]
  <2>1. Program(q[1], q[2], c, next)
    BY <1>9 DEF WriteData, DataPage
  <2>2. writer.n \in 1 .. NumPage[target.img]
    BY <1>1, <1>9, WriterIs DEF WriteData, WriterAt
  <2>3. q[1] \in writer.block .. writer.block + NumBlks(target.img) - 1 /\ writer.block \in Int
    BY <1>1, <1>4, <2>2, AtFacts, PlaceTypes
  <2> HIDE DEF q, c, next
  <2>4. q[1] # k
    BY <1>1, <1>4, <2>3
  <2> QED
    BY <1>7, <2>1, <2>4
<1> QED
    BY <1>5, <1>6, <1>8, <1>9 DEF Burning, Writing

LEMMA ProgressGetCmd ==
    ASSUME TypeInv, [Next]_vars, Alternate, Progress, GetCmd
    PROVE  Progress'
<1> DEFINE m == Head(toTarget)
<1>1. /\ toTarget # << >> /\ Is("cmd") /\ UNCHANGED <<flash, command, host>>
    BY DEF GetCmd, flashVars
<1>2. m \in Requests /\ (m.kind = "CMD" => m.img \in {"burn", "run", "erase"})
  <2>1. m \in Requests
    BY <1>1, TailFacts DEF TypeInv
  <2> HIDE DEF m
  <2> QED
    BY <2>1, RequestKinds, LoaderAssumption DEF TypeInv
<1>3. host = 2 /\ Len(toHost) = 0
    BY <1>1, AlternateTaken DEF High
<1> HIDE DEF m
<1>4. CASE m.kind = "CMD" /\ m.img = "burn"
  <2>1. Become("ack", "ubl", "none")
    BY <1>4 DEF GetCmd, m
  <2> QED
    BY <1>1, <2>1, ProgressOn DEF Become
<1>5. CASE m.kind = "CMD" /\ m.img = "run"
  <2>1. Become("ack", "run", "none")
    BY <1>5 DEF GetCmd, m
  <2> QED
    BY <1>1, <2>1, ProgressOn DEF Become
<1>6. CASE m.kind = "CMD" /\ m.img = "erase"
  <2>1. Become("erase", "none", "none")
    BY <1>6 DEF GetCmd, m
  <2> QED
    BY <1>1, <2>1, ProgressOn DEF Become
<1>7. CASE m.kind # "CMD"
  <2>1. TryAgain
    BY <1>7 DEF GetCmd, m
  <2>2. host + Len(toHost) <= Steps
    BY <1>3 DEF Steps
  <2> QED
    BY <1>1, <2>1, <2>2, ProgressTryAgain
<1> QED
    BY <1>2, <1>4, <1>5, <1>6, <1>7

LEMMA ProgressReceives ==
    ASSUME TypeInv, [Next]_vars, Alternate, Progress, GetHeader \/ GetBytes
    PROVE  Progress'
<1>1. UNCHANGED <<flash, command, host>> /\ target.at \in {"ack", "bytes"}
    BY DEF GetHeader, GetBytes, flashVars, Is
<1>2. \/ TryAgain
      \/ \E img : Become("bytes", target.part, img) \/ Become("decode", target.part, img)
      \/ Become("crashed", "none", "none")
    BY DEF GetHeader, GetBytes
<1>3. CASE TryAgain
    BY <1>1, <1>3, NotYet, ProgressTryAgain
<1>4. CASE \E img : Become("bytes", target.part, img) \/ Become("decode", target.part, img)
  <2>1. target'.at \in {"bytes", "decode"} /\ target'.part = target.part
    BY <1>4 DEF Become
  <2> QED
    BY <1>1, <2>1, ProgressOn
<1>5. CASE Become("crashed", "none", "none")
  <2>1. target'.at = "crashed" /\ target'.part = "none"
    BY <1>5 DEF Become
  <2> QED
    BY <1>1, <2>1, ProgressOn
<1> QED
    BY <1>2, <1>3, <1>4, <1>5

LEMMA ProgressDecodeImage ==
    ASSUME TypeInv, [Next]_vars, Alternate, Progress, DecodeImage
    PROVE  Progress'
<1>1. UNCHANGED <<flash, command, host>> /\ target.at = "decode" /\ Is("decode")
    BY DEF DecodeImage, Is
<1>2. CASE target.img = "spoilt" /\ TryAgain
    BY <1>1, <1>2, NotYet, ProgressTryAgain
<1>3. CASE target.img # "spoilt" /\ target.part = "run"
  <2>1. target'.at = "end" /\ target'.part = "run"
    BY <1>3 DEF DecodeImage, Become
  <2>2. command = "run"
    BY <1>1, <1>3 DEF TypeInv, TargetOK, Parts, Is
  <2> QED
    BY <1>1, <2>1, <2>2 DEF Progress, Is, After
<1>4. CASE target.img # "spoilt" /\ target.part # "run"
  <2>1. target'.at = "burn" /\ target'.part = target.part
    BY <1>4 DEF DecodeImage, Become
  <2> QED
    BY <1>1, <2>1, ProgressOn
<1>5. CASE target.img = "spoilt" /\ Become("hung", "none", "none") /\ UNCHANGED toHost
  <2>1. target'.at = "hung" /\ target'.part = "none"
    BY <1>5 DEF Become
  <2>2. host' + Len(toHost') <= Steps'
    BY <1>1, <1>5, NotYet DEF Steps
  <2> QED
    BY <2>1, <2>2 DEF Progress, Is, After
<1> QED
    BY <1>2, <1>3, <1>4, <1>5 DEF DecodeImage

LEMMA ProgressBurned ==
    ASSUME TypeInv, [Next]_vars, Alternate, Right, Written, Progress, Burned
    PROVE  Progress'
<1>1. UNCHANGED <<flash, command, host>> /\ target.at = "burn" /\ Is("burn")
    BY DEF Burned, Is
<1>2. target.part \in {"ubl", "app"} /\ command = "burn" /\ target.img = ImageOf(target.part)
    BY <1>1, PlaceTypes DEF Right
<1>3. CASE TryAgain
    BY <1>1, <1>3, NotYet, ProgressTryAgain
<1>4. CASE WriterAt("passed") /\ target.part = "ubl" /\ Become("ack", "app", "none")
  <2>1. UblWhole
    <3>1. Burnt(target.img, FirstOf(target.part), LastOf(target.part))
      BY <1>1, <1>4 DEF Written
    <3>2. target.img = Ubl /\ FirstOf(target.part) = FirstUbl /\ LastOf(target.part) = LastUbl
      BY <1>2, <1>4 DEF ImageOf, FirstOf, LastOf
    <3> QED
      BY <3>1, <3>2 DEF UblWhole
  <2>2. target'.at = "ack"
    BY <1>4 DEF Become
  <2> QED
    BY <1>1, <2>1, <2>2, ProgressOn
<1>5. CASE WriterAt("passed") /\ target.part = "app" /\ Become("end", "burn", "none")
  <2>1. Burnt(App, FirstApp, LastApp)
    <3>1. Burnt(target.img, FirstOf(target.part), LastOf(target.part))
      BY <1>1, <1>5 DEF Written
    <3>2. target.img = App /\ FirstOf(target.part) = FirstApp /\ LastOf(target.part) = LastApp
      BY <1>2, <1>5 DEF ImageOf, FirstOf, LastOf
    <3> QED
      BY <3>1, <3>2
  <2>2. Done'
    <3>1. Done
      BY <1>2, <1>5, <2>1 DEF Done, Progress
    <3> QED
      BY <1>1, <3>1, DoneKept
  <2>3. target'.at = "end" /\ target'.part = "burn"
    BY <1>5 DEF Become
  <2> QED
    BY <2>2, <2>3 DEF Progress, Is, After
<1> QED
    BY <1>3, <1>4, <1>5 DEF Burned

LEMMA ProgressEraseAll ==
    ASSUME TypeInv, [Next]_vars, Alternate, Written, Progress, EraseAll
    PROVE  Progress'
<1>1. UNCHANGED <<flash, faults, command, host>> /\ target.at = "erase" /\ Is("erase")
    BY DEF EraseAll, Is
<1>2. CASE TryAgain
    BY <1>1, <1>2, NotYet, ProgressTryAgain
<1>3. CASE UNCHANGED target
    BY <1>1, <1>3, ProgressOn
<1>4. CASE WriterAt("passed") /\ Become("end", "erase", "none")
  <2>1. command = "erase"
    BY <1>1 DEF TypeInv, TargetOK, Is
  <2>2. faults["unseen"] = 0 => \A b \in Blocks : flash[b] = Blank
    BY <1>1, <1>4 DEF Written
  <2>3. Done'
    BY <1>1, <2>1, <2>2 DEF Done, Blank
  <2>4. target'.at = "end" /\ target'.part = "erase"
    BY <1>4 DEF Become
  <2> QED
    BY <2>3, <2>4 DEF Progress, Is, After
<1> QED
    BY <1>2, <1>3, <1>4 DEF EraseAll

LEMMA ProgressFinish ==
    ASSUME TypeInv, [Next]_vars, Alternate, Progress, Finish
    PROVE  Progress'
<1>1. UNCHANGED <<flash, command, host>> /\ Is("end") /\ target.part = command
    BY DEF Finish, TypeInv, TargetOK, Is, flashVars
<1>2. CASE command = "run"
  <2>1. target'.at = "running" /\ target'.part = "run"
    BY <1>1, <1>2 DEF Finish, Become
  <2> QED
    BY <1>1, <1>2, <2>1 DEF Progress, Is, After
<1>3. CASE command # "run"
  <2>1. target'.at = "reset" /\ target'.part = "none"
    BY <1>1, <1>3 DEF Finish, Become
  <2>2. Done'
    BY <1>1, <1>3, DoneKept DEF Progress
  <2> QED
    BY <2>1, <2>2 DEF Progress, Is, After
<1> QED
    BY <1>2, <1>3

LEMMA ProgressTimeOut ==
    ASSUME TypeInv, [Next]_vars, Alternate, Progress, TimeOut
    PROVE  Progress'
<1>1. /\ UNCHANGED <<flash, command, host>> /\ TryAgain /\ toHost = << >>
      /\ target.at \in {"cmd", "ack", "bytes"}
    BY DEF TimeOut, Waiting, flashVars
<1>2. CASE target.at # "cmd"
    BY <1>1, <1>2, NotYet, ProgressTryAgain
<1>3. CASE target.at = "cmd"
  <2>1. host \in Int /\ toHost \in Seq(Answers) /\ Len(toHost) = 0
    BY <1>1 DEF TypeInv, Steps
  <2>2. Due = host
    BY <1>1, <2>1, DueBounds DEF Due
  <2>3. Done \/ Due <= Steps
    BY <1>3 DEF Progress, Is
  <2>4. Done \/ host + Len(toHost) <= Steps
    BY <2>1, <2>2, <2>3 DEF Steps
  <2> QED
    BY <1>1, <2>4, ProgressTryAgain
<1> QED
    BY <1>2, <1>3

LEMMA ProgressBurning ==
    ASSUME TypeInv, [Next]_vars, Progress, Burning
    PROVE  Progress'
<1>1. Is("burn") /\ UNCHANGED <<command, target>>
    BY DEF Burning
<1>2. ASSUME target.part = "app" PROVE UblWhole'
  <2>1. /\ writer.block \in Nat /\ writer.block >= FirstApp
    BY <1>1, <1>2, WriterIs
       DEF Burning, Writing, Unprotect, EraseBlock, WriteHeader, WriteData, WriterAt, FirstOf
  <2>2. \A k \in Blocks : k < FirstApp => k < writer.block
    BY <2>1, DeviceAssumption DEF Blocks
  <2>3. \A k \in Blocks : k < FirstApp => flash'[k] = flash[k]
    BY <2>2, BurningLocal
  <2>4. UblWhole
    BY <1>2 DEF Progress
  <2> QED
    BY <2>3, <2>4, UblKeeps
<1>3. ~Is("cmd")' /\ ~Is("end")' /\ ~Is("hung")' /\ ~After' /\ target' = target
    BY <1>1 DEF Is, After
<1> QED
    BY <1>2, <1>3 DEF Progress

LEMMA ProgressWiping ==
    ASSUME TypeInv, Progress, Wiping
    PROVE  Progress'
<1>1. Is("erase") /\ UNCHANGED target /\ target.part = "none"
    BY DEF Wiping, TypeInv, TargetOK, Is
<1> QED
    BY <1>1 DEF Progress, Is, After

LEMMA ProgressStart ==
    ASSUME TypeInv, [Next]_vars, Alternate, Progress, StartStep
    PROVE  Progress'
<1>1. UNCHANGED <<flash, command, host>>
    BY DEF StartStep, NandBoot, Copying, Booting, FindHeader, CopyPage, Decode, Copied
<1>2. Done
  <2>1. Is("reset") \/ Is("copying")
    BY DEF StartStep, NandBoot, Copying, Copied, Alternate
  <2> QED
    BY <2>1 DEF Progress, After, Is
<1>3. Done'
    BY <1>1, <1>2, DoneKept
<1>4. CASE target'.at \in {"copying", "running", "hung"} /\ target'.part # "app"
    BY <1>3, <1>4 DEF Progress, Is, After
<1>5. CASE NandBoot
    BY <1>4, <1>5 DEF NandBoot, Become
<1>6. CASE Copying
  <2>1. Is("copying") /\ UNCHANGED target /\ target.part = "none"
    BY <1>6 DEF Copying, TypeInv, TargetOK, Is
  <2> QED
    BY <1>4, <2>1 DEF Is
<1>7. CASE Copied
  <2>1. CASE TryAgain
    BY <1>1, <1>2, <2>1, ProgressTryAgain
  <2>2. CASE ~TryAgain
    BY <1>4, <1>7, <2>2 DEF Copied, Become
  <2> QED
    BY <2>1, <2>2
<1> QED
    BY <1>5, <1>6, <1>7 DEF StartStep

LEMMA ProgressStep ==
    ASSUME TypeInv, Alternate, Right, Written, Progress, [Next]_vars, ~SlowHost, ~PowerCut
    PROVE  Progress'
<1>1. CASE HostStep \/ LoseRequest \/ LoseAnswer
    BY <1>1, ProgressHost
<1>2. CASE TargetStep
    BY <1>2, ProgressGetCmd, ProgressReceives, ProgressDecodeImage, ProgressBurned, ProgressEraseAll,
       ProgressFinish, ProgressTimeOut, ProgressBurning, ProgressWiping DEF TargetStep
<1>3. CASE StartStep
    BY <1>3, ProgressStart
<1>4. CASE UNCHANGED vars
  <2>1. UNCHANGED <<flash, command, target, host, toHost>>
    BY <1>4 DEF vars, flashVars, lineVars
  <2>2. host \in Int /\ toHost \in Seq(Answers)
    BY DEF TypeInv, Steps
  <2>3. Due \in Int
    BY <2>2, DueBounds DEF Due
  <2>4. Due' = Due
    BY <2>1 DEF Due, DueOf
  <2>5. Len(toHost) \in Nat /\ host + Len(toHost) <= host + Len(toHost)
    BY <2>2, LenProperties
  <2>6. Is("hung") => host' + Len(toHost') <= host + Len(toHost)
    BY <2>1, <2>5
  <2>7. Due' \in Int /\ host' \in Int /\ Len(toHost') \in Nat /\ (Due' <= Due \/ Due' <= 2)
    BY <2>1, <2>2, <2>3, <2>4, <2>5
  <2> QED
    BY <2>1, <2>6, <2>7, ProgressKept
<1> QED
    BY <1>1, <1>2, <1>3, <1>4 DEF Next, FaultStep

LEMMA ProgressMeans ==
    ASSUME TypeInv, Alternate, Right, Progress
    PROVE  SuccessIsReal
<1> SUFFICES ASSUME Succeeded
             PROVE  /\ command = "burn" => Burnt(App, FirstApp, LastApp) /\ UblWhole
                    /\ command = "erase" => faults["unseen"] > 0 \/ \A b \in Blocks : flash[b] = Blank
                    /\ command = "run" => target \in {[at |-> "running", part |-> "run", img |-> App]}
                                          \/ faults["power"] > 0
    BY DEF SuccessIsReal, UblWhole
<1>1. host = Steps + 1 /\ Steps \in Nat \ {0, 1}
    BY DialogIs DEF Succeeded, TypeInv, Steps
<1>2. Len(toHost) \in Nat /\ host \in Int /\ toHost \in Seq(Answers)
    BY <1>1, LenProperties DEF TypeInv
<1>3. ~Is("cmd") \/ Done
  <2>1. host <= Due /\ Due \in Int
    BY <1>2, DueBounds DEF Due
  <2> QED
    BY <1>1, <2>1 DEF Progress
<1>4. Engaged => After
  <2>1. CASE target.at \in {"ack", "bytes", "decode", "burn", "erase"}
    BY <1>1, <1>2, <2>1, NotYet
  <2>2. CASE Is("end")
    <3>1. High = Steps - 1
      BY <2>2 DEF High, Is, After
    <3>2. host + Len(toHost) <= High + 1
      BY <2>2 DEF Alternate, Engaged, Is
    <3> QED
      BY <1>1, <1>2, <3>1, <3>2
  <2> QED
    BY <2>1, <2>2 DEF Engaged, Is
<1>5. ~Is("crashed") /\ ~Is("off")
    BY <1>1 DEF Alternate
<1>6. Is("cmd") \/ Is("hung") \/ Engaged
    BY <1>5 DEF TypeInv, TargetOK, Engaged, After, Is
<1>7. Is("hung") => Done
  <2>1. Is("hung") => Done \/ host + Len(toHost) <= Steps
    BY DEF Progress
  <2> QED
    BY <1>1, <1>2, <2>1
<1>8. Done \/ (command = "run" /\ Is("running") /\ target.part = "run")
    BY <1>3, <1>4, <1>6, <1>7 DEF Progress
<1>9. CASE Done
  <2>1. faults["unseen"] \in Nat
    BY DEF TypeInv, FaultKinds
  <2> QED
    BY <1>9, <2>1 DEF Done
<1>10. CASE command = "run" /\ Is("running") /\ target.part = "run"
  <2>1. target.img = App
    BY <1>10 DEF Right
  <2>2. target \in [at : {"running"}, part : {"run", "nand"}, img : Images \cup {"none"}]
    BY <1>10 DEF TypeInv, TargetOK, Is
  <2>3. target = [at |-> "running", part |-> "run", img |-> App]
    BY <1>10, <2>1, <2>2
  <2> QED
    BY <1>10, <2>3
<1> QED
    BY <1>8, <1>9, <1>10

\* The host reports success only if the target has done what it was asked to, with
\* the images it was sent, while the host is on time and the power stays on,
\* whatever is lost on the line in either direction and however much of the flash
\* fails: after a burn the application is whole in the block tried first, or as
\* many later as erases have timed out, and so is the boot loader unless it can have
\* reached the application's blocks; after an erase all is blank, unless an erase
\* has failed without being noticed.
THEOREM SuccessMeansDone == Spec => [](OnTime => SuccessIsReal)
<1> DEFINE Sound == OnTime => Progress
           Known == TypeInv /\ (OnTime => Alternate) /\ (InStep => Right) /\ Near /\ Written
<1>1. Spec => []Known
    BY Types, TakeTurns, RightImages, StaysWritten, PTL
<1>2. Init => Sound
    BY ProgressInit
<1>3. Known /\ Sound /\ [Next]_vars => Sound'
  <2> SUFFICES ASSUME Known, Sound, [Next]_vars, OnTime' PROVE Progress'
    OBVIOUS
  <2>1. OnTime /\ ~SlowHost /\ ~PowerCut
    BY StillOnTime
  <2>2. Alternate /\ Right /\ Written /\ Progress
    BY <2>1 DEF InStep
  <2> QED
    BY <2>1, <2>2, ProgressStep
<1>4. Known /\ Sound => (OnTime => SuccessIsReal)
    BY ProgressMeans DEF InStep
<1> HIDE DEF Sound, Known
<1> QED
    BY <1>1, <1>2, <1>3, <1>4, PTL DEF Spec

=============================================================================
