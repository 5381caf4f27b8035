----------------------------- MODULE VfsProofs -----------------------------
(***************************************************************************)
(* Theorems about Vfs and Floppy for any threads, files, disk geometry and *)
(* numbers of tries.                                                       *)
(***************************************************************************)
EXTENDS Vfs, SequenceTheorems, WellFoundedInduction, TLAPS

(***************************************************************************)
(* The inductive invariant.                                                *)
(***************************************************************************)
Entry  == {"open", "create", "read", "write"}
Contents == Lba \cup Written \cup {Junk}

Field    == {"at", "entry", "lba", "dir", "tries", "buffer", "failed", "value", "file"}

\* Calls carry what the file and the entry say; those that have not reached
\* the floppy have done nothing yet.
IsCall(c, r) ==
  /\ DOMAIN r = Field
  /\ r.at \in InDriver \cup {"lock", "memory"} /\ r.entry \in Entry
  /\ r.dir \in {"read", "write"} /\ r.value \in Written \cup {NotKnown}
  /\ r.file \in FilesOf[c] /\ r.lba = r.file.lba
  /\ r.buffer \in BOOLEAN
  /\ r.at = "lock" => r.entry \in Locked
  /\ r.at \in {"lock", "memory"} => r.dir = "read" /\ r.buffer /\ ~ r.failed
  /\ r.at \in InDriver => r.lba \in Lba
  /\ ~ r.buffer => r.failed
  /\ r.dir = "write" => r.value # NotKnown

Calling ==
  /\ flCall = [c \in Caller |-> flCall[c]]
  /\ \A c \in Caller : flCall[c] = Outside \/ IsCall(c, flCall[c])

\* The call is behind its lock.
Behind(c) == flCall[c].at \in InDriver \cup {"memory"}

Locking ==
  \A c \in Caller : Behind(c) /\ flCall[c].entry \in Locked =>
    /\ vfsLock[flCall[c].entry]
    /\ \A d \in Caller \ {c} : Behind(d) => flCall[d].entry # flCall[c].entry

Alone == ~ flMixed => \A c, d \in Caller : Inside(c) /\ Inside(d) => c = d

\* What driver and controller know of each other.
Quiet == flFdc.busy = "no" /\ ~ flpydsk_irq_finished
Ready == flFdc.busy = "result" /\ flpydsk_irq_finished

\* ... with the call that is in the driver
Talk(r) ==
  CASE r.at = "seeking" ->
         (flFdc.busy = "seek" /\ ~ flpydsk_irq_finished) \/ Ready
    [] r.at = "transferring" ->
         \/ /\ flFdc.busy = "transfer" /\ ~ flpydsk_irq_finished
            /\ flFdc.chs = flpydsk_lba_to_chs(r.lba) /\ flFdc.dir = r.dir
         \/ Ready
    [] OTHER -> Quiet

Talking ==
  ~ flMixed =>
    /\ (\A c \in Caller : ~ Inside(c)) => Quiet
    /\ \A c \in Caller : Inside(c) => Talk(flCall[c])

\* The sector holds what was last written to it.
Holds(l) == flText[l] \in {flDisk[l], NotKnown}

Transferred(r) ==
  \/ r.at = "transferring" /\ flFdc.busy = "result" /\ flFdc.ok
  \/ r.at \in {"stop", "back"}

\* What the call in the driver has left of the disk and the buffer.
Deliver(r) ==
  /\ \A l \in Lba : r.dir = "read" \/ l # r.lba => Holds(l)
  /\ ~ r.failed /\ r.dir = "write" => floppy_dmabuf = r.value
  /\ ~ r.failed /\ Transferred(r) => floppy_dmabuf = flDisk[r.lba]

Delivering ==
  ~ flMixed =>
    /\ (\A c \in Caller : ~ Inside(c)) => \A l \in Lba : Holds(l)
    /\ \A c \in Caller : Inside(c) => Deliver(flCall[c])

\* Descriptors, in the order they were given.
Listed(q, c) ==
  /\ \E S : q \in Seq(S)
  /\ \A i \in 1 .. Len(q) : q[i].fd \in Nat \ {0} /\ q[i].file \in FilesOf[c]

Descriptors ==
  DOMAIN vfsFds = Caller /\ \A c \in Caller : Listed(vfsFds[c], c)

\* The registers, the buffer and the disk.
Device ==
  /\ flpydsk_irq_finished \in BOOLEAN /\ flMotor \in BOOLEAN /\ flMixed \in BOOLEAN
  /\ floppy_dmabuf \in Contents /\ flFdc.busy \in {"no", "seek", "transfer", "result"}
  /\ flDisk \in [Lba -> Contents]

Texts == DOMAIN flText = Lba

VfsIInv ==
  /\ Device /\ Texts /\ vfsLock \in [Locked -> BOOLEAN] /\ Descriptors
  /\ Calling /\ Locking /\ Alone /\ Talking /\ Delivering
-----------------------------------------------------------------------------
(***************************************************************************)
(* The geometry: a sector is where its cylinder, head and number say.      *)
(***************************************************************************)
\* The quotient and the remainder are the only ones.
LEMMA Division ==
  ASSUME NEW n \in Nat \ {0}, NEW q \in Nat, NEW r \in 0 .. n - 1
  PROVE  (n * q + r) \div n = q /\ (n * q + r) % n = r
OBVIOUS

LEMMA DivisionExists ==
  ASSUME NEW n \in Nat \ {0}, NEW l \in Nat
  PROVE  \E q \in Nat, r \in 0 .. n - 1 : l = n * q + r
<1> DEFINE Bad == {k \in Nat : ~ \E q \in Nat, r \in 0 .. n - 1 : k = n * q + r}
<1>1. ASSUME NEW k \in Bad PROVE k # 0 /\ k - 1 \in Bad
  <2>1. k # 0
    <3>1. 0 = n * 0 + 0 /\ 0 \in 0 .. n - 1
      OBVIOUS
    <3> QED
      BY <3>1
  <2>2. ASSUME NEW q \in Nat, NEW r \in 0 .. n - 1, k - 1 = n * q + r PROVE FALSE
    <3>1. CASE r < n - 1
      <4>1. k = n * q + (r + 1) /\ r + 1 \in 0 .. n - 1
        BY <2>2, <3>1
      <4> QED
        BY <4>1
    <3>2. CASE r = n - 1
      <4>1. k = n * (q + 1) + 0 /\ 0 \in 0 .. n - 1 /\ q + 1 \in Nat
        BY <2>2, <3>2
      <4> QED
        BY <4>1
    <3> QED
      BY <3>1, <3>2
  <2> QED
    BY <2>1, <2>2
<1>2. Bad \subseteq Nat
  OBVIOUS
<1> HIDE DEF Bad
<1>3. Bad = {}
  <2>1. SUFFICES ASSUME Bad # {} PROVE FALSE
    OBVIOUS
  <2>2. PICK k \in Bad : \A j \in Bad : <<j, k>> \notin OpToRel(<, Nat)
    BY <1>2, <2>1, WFMin, NatLessThanWellFounded, Zenon
  <2>3. k - 1 \in Bad /\ k \in Nat /\ k - 1 \in Nat /\ k - 1 < k
    BY <1>1, <1>2
  <2> QED
    BY <2>2, <2>3, Zenon DEF OpToRel
<1> QED
  BY <1>3 DEF Bad

LEMMA Geometry ==
  ASSUME NEW l \in Nat
  PROVE  LET k == flpydsk_lba_to_chs(l)
         IN  (k.track * 2 + k.head) * SectorsPerTrack + k.sector - 1 = l
<1> DEFINE S == SectorsPerTrack
<1>1. S \in Nat \ {0} /\ S * 2 \in Nat \ {0}
  BY FloppyAssumption
<1>2. PICK q \in Nat, r \in 0 .. S * 2 - 1 : l = (S * 2) * q + r
  <2>1. PICK n \in Nat \ {0} : n = S * 2
    BY <1>1
  <2> QED
    BY <2>1, DivisionExists
<1>3. PICK h \in {0, 1}, t \in 0 .. S - 1 : r = S * h + t
  <2>1. r < S => r = S * 0 + r /\ r \in 0 .. S - 1
    BY <1>1
  <2>2. ~ (r < S) => r = S * 1 + (r - S) /\ r - S \in 0 .. S - 1
    BY <1>1
  <2> QED
    BY <2>1, <2>2
<1>4. l \div (S * 2) = q /\ l % (S * 2) = r
  <2>1. PICK n \in Nat \ {0} : n = S * 2
    BY <1>1
  <2>2. l = n * q + r /\ r \in 0 .. n - 1 /\ q \in Nat
    BY <1>2, <2>1
  <2>3. (n * q + r) \div n = q /\ (n * q + r) % n = r
    BY <2>2, Division
  <2> QED
    BY <2>1, <2>2, <2>3
<1>5. r \div S = h
  BY <1>1, <1>3, Division
<1>6. l % S = t
  <2>1. l = S * (2 * q + h) + t /\ 2 * q + h \in Nat
    BY <1>1, <1>2, <1>3
  <2> QED
    BY <1>1, <2>1, Division
<1>7. (q * 2 + h) * S + t = l
  BY <1>1, <1>2, <1>3
<1> QED
  BY <1>1, <1>4, <1>5, <1>6, <1>7 DEF flpydsk_lba_to_chs
-----------------------------------------------------------------------------
(***************************************************************************)
(* A step of the call in the driver.                                       *)
(***************************************************************************)
\* The call's record becomes r.
LEMMA CallSteps ==
  ASSUME VfsIInv, ~ flMixed, NEW c \in Caller, Inside(c), NEW r, IsCall(c, r), r.at \in InDriver,
         r.entry = flCall[c].entry, flCall' = [flCall EXCEPT ![c] = r],
         UNCHANGED <<vfsLock, vfsFds, flText, flMixed>>, Device', Talk(r)', Deliver(r)'
  PROVE  VfsIInv'
<1>1. /\ DOMAIN flCall' = Caller /\ flCall'[c] = r
      /\ \A d \in Caller \ {c} : flCall'[d] = flCall[d]
  BY DEF VfsIInv, Calling
<1>2. Calling'
  BY <1>1 DEF VfsIInv, Calling
<1>3. \A d \in Caller : Behind(d)' => Behind(d) /\ flCall'[d].entry = flCall[d].entry
  BY <1>1 DEF Behind, Inside
<1>4. Locking'
  BY <1>3 DEF VfsIInv, Locking
<1>5. \A d \in Caller : Inside(d)' <=> d = c
  <2>1. \A d \in Caller : Inside(d) <=> d = c
    BY DEF VfsIInv, Alone
  <2> QED
    BY <1>1, <2>1 DEF Inside
<1>6. Alone' /\ Talking' /\ Delivering'
  BY <1>1, <1>5 DEF Alone, Talking, Delivering
<1>7. Descriptors' /\ Texts'
  BY DEF VfsIInv, Descriptors, Texts
<1> QED
  BY <1>2, <1>4, <1>6, <1>7 DEF VfsIInv

\* The facts about the call of a caller in the driver.
LEMMA InCall ==
  ASSUME VfsIInv, ~ flMixed, NEW c \in Caller, Inside(c)
  PROVE  /\ IsCall(c, flCall[c]) /\ Talk(flCall[c]) /\ Deliver(flCall[c]) /\ Device
         /\ DOMAIN flCall = Caller
  BY DEF VfsIInv, Calling, Talking, Delivering, Inside, Outside, InDriver

LEMMA MotorOn ==
  ASSUME VfsIInv, ~ flMixed, NEW c \in Caller, FlMotorOn(c), UNCHANGED <<vfsLock, vfsFds>>
  PROVE  VfsIInv'
<1> DEFINE r == [flCall[c] EXCEPT !.at = "seek"]
<1>1. flCall[c].at = "motor" /\ Inside(c)
  BY DEF FlMotorOn, Inside, InDriver
<1>2. IsCall(c, flCall[c]) /\ Talk(flCall[c]) /\ Deliver(flCall[c]) /\ Device
  BY <1>1, InCall
<1>3. /\ IsCall(c, r) /\ r.at = "seek" /\ r.entry = flCall[c].entry /\ r.dir = flCall[c].dir
      /\ r.lba = flCall[c].lba /\ r.failed = flCall[c].failed /\ r.value = flCall[c].value
  BY <1>1, <1>2 DEF IsCall, InDriver, Field
<1>4. /\ flCall' = [flCall EXCEPT ![c] = r] /\ flMotor' = TRUE
      /\ UNCHANGED <<flpydsk_irq_finished, floppy_dmabuf, flFdc, flDisk, flText, flMixed>>
  BY DEF FlMotorOn
<1>5. PICK q : q = r
  OBVIOUS
<1>6. Talk(q)'
  BY <1>1, <1>2, <1>3, <1>4, <1>5 DEF Talk, Quiet, Ready
<1>7. Deliver(q)'
  BY <1>1, <1>2, <1>3, <1>4, <1>5 DEF Deliver, Transferred, Holds
<1>8. Device'
  BY <1>2, <1>4 DEF Device
<1> QED
  BY <1>1, <1>3, <1>4, <1>5, <1>6, <1>7, <1>8, CallSteps DEF InDriver

LEMMA SeekStarted ==
  ASSUME VfsIInv, ~ flMixed, NEW c \in Caller, FlSeek(c), UNCHANGED <<vfsLock, vfsFds>>
  PROVE  VfsIInv'
<1> DEFINE r == [flCall[c] EXCEPT !.at = "seeking"]
<1>1. flCall[c].at = "seek" /\ Inside(c) /\ flFdc.busy = "no"
  BY DEF FlSeek, Inside, InDriver
<1>2. IsCall(c, flCall[c]) /\ Talk(flCall[c]) /\ Deliver(flCall[c]) /\ Device
  BY <1>1, InCall
<1>3. /\ IsCall(c, r) /\ r.at = "seeking" /\ r.entry = flCall[c].entry /\ r.dir = flCall[c].dir
      /\ r.lba = flCall[c].lba /\ r.failed = flCall[c].failed /\ r.value = flCall[c].value
  BY <1>1, <1>2 DEF IsCall, InDriver, Field
<1>4. /\ flCall' = [flCall EXCEPT ![c] = r] /\ flFdc'.busy = "seek"
      /\ UNCHANGED <<flpydsk_irq_finished, floppy_dmabuf, flMotor, flDisk, flText, flMixed>>
  BY DEF FlSeek
<1>5. PICK q : q = r
  OBVIOUS
<1>6. Talk(q)'
  BY <1>1, <1>2, <1>3, <1>4, <1>5 DEF Talk, Quiet, Ready
<1>7. Deliver(q)'
  BY <1>1, <1>2, <1>3, <1>4, <1>5 DEF Deliver, Transferred, Holds
<1>8. Device'
  BY <1>2, <1>4 DEF Device
<1> QED
  BY <1>1, <1>3, <1>4, <1>5, <1>6, <1>7, <1>8, CallSteps DEF InDriver

\* The head is there, or is sent again, or the call gives up; a write whose
\* read has failed puts what is at address 0 into the buffer.
LEMMA SeekAnswered ==
  ASSUME VfsIInv, ~ flMixed, NEW c \in Caller, FlSeekResult(c), UNCHANGED <<vfsLock, vfsFds>>
  PROVE  VfsIInv'
<1> DEFINE moved == flFdc.busy = "result" /\ flFdc.ok /\ flFdc.track = Chs(c).track
           tries == flCall[c].tries + 1
           r == IF moved THEN [flCall[c] EXCEPT !.at = "transfer", !.tries = 0]
                ELSE IF tries < SeekTries THEN [flCall[c] EXCEPT !.at = "seek", !.tries = tries]
                ELSE [flCall[c] EXCEPT !.at = "back", !.failed = TRUE,
                                       !.buffer = flCall[c].buffer /\ flCall[c].dir # "read"]
<1>1. flCall[c].at = "seeking" /\ Inside(c)
  BY DEF FlSeekResult, Inside, InDriver
<1>2. IsCall(c, flCall[c]) /\ Talk(flCall[c]) /\ Deliver(flCall[c]) /\ Device
  BY <1>1, InCall
<1>3. /\ flCall' = [flCall EXCEPT ![c] = r] /\ flFdc'.busy = "no" /\ flpydsk_irq_finished' = FALSE
      /\ floppy_dmabuf' = IF moved /\ flCall[c].dir = "write" /\ ~ flCall[c].buffer
                          THEN Junk ELSE floppy_dmabuf
      /\ UNCHANGED <<flMotor, flDisk, flText, flMixed>>
  <2>1. flCall' = [flCall EXCEPT ![c] = r]
    BY DEF FlSeekResult
  <2> QED
    BY <2>1 DEF FlSeekResult, flpydsk_wait_irq
<1>4. /\ IsCall(c, r) /\ r.at \in {"transfer", "seek", "back"} /\ r.entry = flCall[c].entry
      /\ r.dir = flCall[c].dir /\ r.lba = flCall[c].lba /\ r.value = flCall[c].value
      /\ ~ r.failed => ~ flCall[c].failed /\ flCall[c].buffer /\ r.at # "back"
  <2>1. CASE moved
    <3>1. r = [flCall[c] EXCEPT !.at = "transfer", !.tries = 0]
      BY <2>1
    <3> HIDE DEF r
    <3> QED
      BY <1>1, <1>2, <3>1 DEF IsCall, InDriver, Field
  <2>2. CASE ~ moved /\ tries < SeekTries
    <3>1. PICK n : r = [flCall[c] EXCEPT !.at = "seek", !.tries = n]
      BY <2>2
    <3> HIDE DEF r
    <3> QED
      BY <1>1, <1>2, <3>1 DEF IsCall, InDriver, Field
  <2>3. CASE ~ moved /\ ~ (tries < SeekTries)
    <3>1. PICK b \in BOOLEAN : r = [flCall[c] EXCEPT !.at = "back", !.failed = TRUE, !.buffer = b]
      <4>1. flCall[c].buffer \in BOOLEAN
        BY <1>2 DEF IsCall
      <4> QED
        BY <2>3, <4>1
    <3> HIDE DEF r
    <3> QED
      BY <1>1, <1>2, <3>1 DEF IsCall, InDriver, Field
  <2> QED
    BY <2>1, <2>2, <2>3
<1> HIDE DEF r
<1>5. PICK q : q = r
  OBVIOUS
<1>6. Talk(q)'
  BY <1>3, <1>4, <1>5 DEF Talk, Quiet
<1>7. Deliver(q)'
  BY <1>1, <1>2, <1>3, <1>4, <1>5 DEF Deliver, Transferred, Holds
<1>8. Device'
  BY <1>2, <1>3 DEF Device, Contents
<1> QED
  BY <1>1, <1>3, <1>4, <1>5, <1>6, <1>7, <1>8, CallSteps DEF InDriver

LEMMA TransferStarted ==
  ASSUME VfsIInv, ~ flMixed, NEW c \in Caller, FlTransfer(c), UNCHANGED <<vfsLock, vfsFds>>
  PROVE  VfsIInv'
<1> DEFINE r == [flCall[c] EXCEPT !.at = "transferring"]
<1>1. flCall[c].at = "transfer" /\ Inside(c)
  BY DEF FlTransfer, Inside, InDriver
<1>2. IsCall(c, flCall[c]) /\ Talk(flCall[c]) /\ Deliver(flCall[c]) /\ Device
  BY <1>1, InCall
<1>3. /\ IsCall(c, r) /\ r.at = "transferring" /\ r.entry = flCall[c].entry
      /\ r.dir = flCall[c].dir
      /\ r.lba = flCall[c].lba /\ r.failed = flCall[c].failed /\ r.value = flCall[c].value
  BY <1>1, <1>2 DEF IsCall, InDriver, Field
<1>4. /\ flCall' = [flCall EXCEPT ![c] = r] /\ flFdc'.busy = "transfer"
      /\ flFdc'.chs = flpydsk_lba_to_chs(flCall[c].lba) /\ flFdc'.dir = flCall[c].dir
      /\ UNCHANGED <<flpydsk_irq_finished, floppy_dmabuf, flMotor, flDisk, flText, flMixed>>
  BY DEF FlTransfer, Chs
<1>5. PICK q : q = r
  OBVIOUS
<1>6. Talk(q)'
  BY <1>1, <1>2, <1>3, <1>4, <1>5 DEF Talk, Quiet, Ready
<1>7. Deliver(q)'
  BY <1>1, <1>2, <1>3, <1>4, <1>5 DEF Deliver, Transferred, Holds
<1>8. Device'
  BY <1>2, <1>4 DEF Device
<1> QED
  BY <1>1, <1>3, <1>4, <1>5, <1>6, <1>7, <1>8, CallSteps DEF InDriver

\* The transfer has been made, or is started again, or the call has failed.
LEMMA TransferAnswered ==
  ASSUME VfsIInv, ~ flMixed, NEW c \in Caller, FlTransferResult(c), UNCHANGED <<vfsLock, vfsFds>>
  PROVE  VfsIInv'
<1> DEFINE ok == flFdc.busy = "result" /\ flFdc.ok
           tries == flCall[c].tries + 1
<1>1. flCall[c].at = "transferring" /\ Inside(c)
  BY DEF FlTransferResult, Inside, InDriver
<1>2. IsCall(c, flCall[c]) /\ Talk(flCall[c]) /\ Deliver(flCall[c]) /\ Device
  BY <1>1, InCall
<1>3. /\ flFdc'.busy = "no" /\ flpydsk_irq_finished' = FALSE
      /\ UNCHANGED <<floppy_dmabuf, flMotor, flDisk, flText, flMixed>>
  BY DEF FlTransferResult, flpydsk_wait_irq
<1>4. PICK r : /\ flCall' = [flCall EXCEPT ![c] = r]
               /\ \/ ok /\ r = [flCall[c] EXCEPT !.at = "stop"]
                  \/ r = [flCall[c] EXCEPT !.at = "transfer", !.tries = tries]
                  \/ r = [flCall[c] EXCEPT !.at = "stop", !.failed = TRUE]
  BY DEF FlTransferResult
<1>5. /\ IsCall(c, r) /\ r.at \in {"stop", "transfer"} /\ r.entry = flCall[c].entry
      /\ r.dir = flCall[c].dir /\ r.lba = flCall[c].lba /\ r.value = flCall[c].value
      /\ ~ r.failed => ~ flCall[c].failed /\ (r.at = "stop" => ok)
  <2>1. CASE ok /\ r = [flCall[c] EXCEPT !.at = "stop"]
    BY <1>1, <1>2, <2>1 DEF IsCall, InDriver, Field
  <2>2. CASE r = [flCall[c] EXCEPT !.at = "transfer", !.tries = tries]
    BY <1>1, <1>2, <2>2 DEF IsCall, InDriver, Field
  <2>3. CASE r = [flCall[c] EXCEPT !.at = "stop", !.failed = TRUE]
    BY <1>1, <1>2, <2>3 DEF IsCall, InDriver, Field
  <2> QED
    BY <1>4, <2>1, <2>2, <2>3
<1>6. Talk(r)'
  BY <1>3, <1>5 DEF Talk, Quiet
<1>7. Deliver(r)'
  BY <1>1, <1>2, <1>3, <1>5 DEF Deliver, Transferred, Holds
<1>8. Device'
  BY <1>2, <1>3 DEF Device
<1> QED
  BY <1>1, <1>3, <1>4, <1>5, <1>6, <1>7, <1>8, CallSteps DEF InDriver

LEMMA MotorOff ==
  ASSUME VfsIInv, ~ flMixed, NEW c \in Caller, FlMotorOff(c), UNCHANGED <<vfsLock, vfsFds>>
  PROVE  VfsIInv'
<1> DEFINE r == [flCall[c] EXCEPT !.at = "back"]
<1>1. flCall[c].at = "stop" /\ Inside(c)
  BY DEF FlMotorOff, Inside, InDriver
<1>2. IsCall(c, flCall[c]) /\ Talk(flCall[c]) /\ Deliver(flCall[c]) /\ Device
  BY <1>1, InCall
<1>3. /\ IsCall(c, r) /\ r.at = "back" /\ r.entry = flCall[c].entry /\ r.dir = flCall[c].dir
      /\ r.lba = flCall[c].lba /\ r.failed = flCall[c].failed /\ r.value = flCall[c].value
  BY <1>1, <1>2 DEF IsCall, InDriver, Field
<1>4. /\ flCall' = [flCall EXCEPT ![c] = r] /\ flMotor' = FALSE
      /\ UNCHANGED <<flpydsk_irq_finished, floppy_dmabuf, flFdc, flDisk, flText, flMixed>>
  BY DEF FlMotorOff
<1>5. PICK q : q = r
  OBVIOUS
<1>6. Talk(q)'
  BY <1>1, <1>2, <1>3, <1>4, <1>5 DEF Talk, Quiet, Ready
<1>7. Deliver(q)'
  BY <1>1, <1>2, <1>3, <1>4, <1>5 DEF Deliver, Transferred, Holds
<1>8. Device'
  BY <1>2, <1>4 DEF Device
<1> QED
  BY <1>1, <1>3, <1>4, <1>5, <1>6, <1>7, <1>8, CallSteps DEF InDriver

\* The sector is changed in the buffer, and the write begins.
LEMMA Modified ==
  ASSUME VfsIInv, ~ flMixed, NEW c \in Caller, FlModify(c), UNCHANGED <<vfsLock, vfsFds>>
  PROVE  VfsIInv'
<1> DEFINE r == [flCall[c] EXCEPT !.at = "motor", !.dir = "write", !.tries = 0]
<1>1. flCall[c].at = "back" /\ Inside(c) /\ flCall[c].dir = "read" /\ flCall[c].value # NotKnown
  BY DEF FlModify, Inside, InDriver
<1>2. IsCall(c, flCall[c]) /\ Talk(flCall[c]) /\ Deliver(flCall[c]) /\ Device
  BY <1>1, InCall
<1>3. /\ IsCall(c, r) /\ r.at = "motor" /\ r.entry = flCall[c].entry /\ r.dir = "write"
      /\ r.lba = flCall[c].lba /\ r.failed = flCall[c].failed /\ r.value = flCall[c].value
  BY <1>1, <1>2 DEF IsCall, InDriver, Field
<1>4. /\ flCall' = [flCall EXCEPT ![c] = r]
      /\ floppy_dmabuf' = IF flCall[c].buffer THEN flCall[c].value ELSE floppy_dmabuf
      /\ UNCHANGED <<flpydsk_irq_finished, flMotor, flFdc, flDisk, flText, flMixed>>
  BY DEF FlModify, Asks
<1>5. PICK q : q = r
  OBVIOUS
<1>6. Talk(q)'
  BY <1>1, <1>2, <1>3, <1>4, <1>5 DEF Talk, Quiet, Ready
<1>7. Deliver(q)'
  BY <1>1, <1>2, <1>3, <1>4, <1>5 DEF Deliver, Transferred, Holds, IsCall
<1>8. Device'
  BY <1>1, <1>2, <1>4 DEF Device, IsCall, Contents
<1> QED
  BY <1>1, <1>3, <1>4, <1>5, <1>6, <1>7, <1>8, CallSteps DEF InDriver
-----------------------------------------------------------------------------
(***************************************************************************)
(* The controller answers the call in the driver.                          *)
(***************************************************************************)
LEMMA Answering ==
  ASSUME VfsIInv, ~ flMixed, flFdc.busy # "no"
  PROVE  \E c \in Caller : Inside(c) /\ Talk(flCall[c]) /\ flCall[c].at \in {"seeking", "transferring"}
BY DEF VfsIInv, Talking, Talk, Quiet

LEMMA SeekEnds ==
  ASSUME VfsIInv, ~ flMixed, FdcSeeks, UNCHANGED <<vfsLock, vfsFds>>
  PROVE  VfsIInv'
<1>1. PICK c \in Caller : Inside(c) /\ Talk(flCall[c]) /\ flCall[c].at \in {"seeking", "transferring"}
  BY Answering DEF FdcSeeks
<1>2. /\ flFdc.busy = "seek" /\ flFdc'.busy = "result" /\ flpydsk_irq_finished' = TRUE
      /\ UNCHANGED <<floppy_dmabuf, flMotor, flDisk, flCall, flText, flMixed>>
  BY DEF FdcSeeks, flpydsk_handler
<1>3. PICK r : r = flCall[c]
  OBVIOUS
<1>4. IsCall(c, r) /\ Deliver(r) /\ Device /\ r.at \in InDriver
  BY <1>1, <1>3, InCall DEF InDriver
<1>5. r.at = "seeking"
  BY <1>1, <1>2, <1>3 DEF Talk, Ready
<1>6. Talk(r)' /\ Device'
  BY <1>2, <1>4, <1>5 DEF Talk, Ready, Device
<1>7. Deliver(r)'
  BY <1>2, <1>4, <1>5 DEF Deliver, Transferred, Holds
<1>8. flCall' = [flCall EXCEPT ![c] = r]
  BY <1>2, <1>3 DEF VfsIInv, Calling
<1> QED
  BY <1>1, <1>2, <1>3, <1>4, <1>6, <1>7, <1>8, CallSteps

\* The transfer is of the call's sector.
LEMMA TransferEnds ==
  ASSUME VfsIInv, ~ flMixed, FdcTransfers, UNCHANGED <<vfsLock, vfsFds>>
  PROVE  VfsIInv'
<1> DEFINE here(l) == l = (flFdc.chs.track * 2 + flFdc.chs.head) * SectorsPerTrack
                          + flFdc.chs.sector - 1
<1>1. PICK c \in Caller : Inside(c) /\ Talk(flCall[c]) /\ flCall[c].at \in {"seeking", "transferring"}
  BY Answering DEF FdcTransfers
<1>2. PICK r : r = flCall[c]
  OBVIOUS
<1>3. IsCall(c, r) /\ Deliver(r) /\ Device /\ r.at \in InDriver
  BY <1>1, <1>2, InCall DEF InDriver
<1>4. flFdc.busy = "transfer"
  BY DEF FdcTransfers
<1>5. r.at = "transferring" /\ flFdc.chs = flpydsk_lba_to_chs(r.lba) /\ flFdc.dir = r.dir
  BY <1>1, <1>2, <1>4 DEF Talk, Ready, Quiet
<1>6. r.lba \in Lba /\ \A l \in Lba : here(l) <=> l = r.lba
  <2>1. r.lba \in Lba /\ r.lba \in Nat
    BY <1>3, FloppyAssumption DEF IsCall
  <2>2. (flFdc.chs.track * 2 + flFdc.chs.head) * SectorsPerTrack + flFdc.chs.sector - 1 = r.lba
    BY <1>5, <2>1, Geometry
  <2> QED
    BY <2>1, <2>2
<1>7. PICK ok \in BOOLEAN :
        /\ flFdc' = [busy |-> "result", ok |-> ok, track |-> flFdc.track]
        /\ floppy_dmabuf' = IF ok /\ r.dir = "read"
                            THEN CHOOSE v \in {flDisk[l] : l \in {x \in Lba : here(x)}} : TRUE
                            ELSE floppy_dmabuf
        /\ flDisk' = [l \in Lba |-> IF ok /\ r.dir = "write" /\ here(l)
                                    THEN floppy_dmabuf ELSE flDisk[l]]
  BY <1>5 DEF FdcTransfers
<1>8. flpydsk_irq_finished' = TRUE /\ UNCHANGED <<flMotor, flCall, flText, flMixed>>
  BY DEF FdcTransfers, flpydsk_handler
<1>9. /\ flFdc'.busy = "result" /\ flFdc'.ok = ok
      /\ floppy_dmabuf' = IF ok /\ r.dir = "read" THEN flDisk[r.lba] ELSE floppy_dmabuf
      /\ flDisk' = [l \in Lba |-> IF ok /\ r.dir = "write" /\ l = r.lba
                                  THEN floppy_dmabuf ELSE flDisk[l]]
  <2>1. {flDisk[l] : l \in {x \in Lba : here(x)}} = {flDisk[r.lba]}
    BY <1>6
  <2>2. \A l \in Lba : here(l) <=> l = r.lba
    BY <1>6
  <2> HIDE DEF here
  <2> QED
    BY <1>7, <2>1, <2>2
<1>10. Talk(r)'
  BY <1>5, <1>8, <1>9 DEF Talk, Ready
<1>11. Device'
  BY <1>3, <1>6, <1>8, <1>9 DEF Device
<1>12. Deliver(r)'
  <2>1. r.dir \in {"read", "write"} /\ (~ r.failed /\ r.dir = "write" => floppy_dmabuf = r.value)
        /\ \A l \in Lba : r.dir = "read" \/ l # r.lba => Holds(l)
    BY <1>3 DEF IsCall, Deliver
  <2>2. \A l \in Lba : r.dir = "read" \/ l # r.lba => flDisk'[l] = flDisk[l]
    BY <1>9
  <2>3. \A l \in Lba : r.dir = "read" \/ l # r.lba => Holds(l)'
    BY <1>8, <2>1, <2>2 DEF Holds
  <2>4. ok => floppy_dmabuf' = flDisk'[r.lba]
    BY <1>6, <1>9, <2>1
  <2>5. Transferred(r)' => ok
    BY <1>5, <1>9 DEF Transferred
  <2>6. ~ r.failed /\ r.dir = "write" => floppy_dmabuf' = r.value
    BY <1>9, <2>1
  <2> QED
    BY <2>3, <2>4, <2>5, <2>6 DEF Deliver
<1>13. flCall' = [flCall EXCEPT ![c] = r]
  BY <1>2, <1>8 DEF VfsIInv, Calling
<1> QED
  BY <1>1, <1>2, <1>3, <1>8, <1>10, <1>11, <1>12, <1>13, CallSteps
-----------------------------------------------------------------------------
(***************************************************************************)
(* Lists of descriptors.                                                   *)
(***************************************************************************)
Distinct(q) == \A i, j \in 1 .. Len(q) : i # j => q[i].fd # q[j].fd

\* There is a descriptor that is greater than all.
LEMMA FdFound ==
  ASSUME NEW c, NEW q, Listed(q, c)
  PROVE  FreeFd(q, 1) \in Nat \ {0} /\ \A i \in 1 .. Len(q) : q[i].fd < FreeFd(q, 1)
<1>1. Len(q) \in Nat
  BY LenProperties DEF Listed
<1>2. \A i \in 1 .. Len(q) : q[i].fd \in Nat \ {0}
  BY DEF Listed
<1> DEFINE Above(n, k) == n \in {1} \cup {q[i].fd + 1 : i \in 1 .. Len(q)}
                          /\ \A i \in 1 .. k : q[i].fd < n
           Bad == {k \in 0 .. Len(q) : ~ \E n : Above(n, k)}
<1>3. ASSUME NEW k \in Bad PROVE k # 0 /\ k - 1 \in Bad
  <2>1. k # 0
    <3>1. Above(1, 0)
      OBVIOUS
    <3> QED
      BY <3>1
  <2>2. k \in 1 .. Len(q) /\ k - 1 \in 0 .. Len(q)
    BY <1>1, <2>1
  <2>3. ASSUME NEW n, Above(n, k - 1) PROVE FALSE
    <3>1. n \in Nat \ {0}
      BY <1>2, <2>3
    <3>2. CASE q[k].fd < n
      <4>1. Above(n, k)
        BY <1>1, <2>2, <2>3, <3>2
      <4> QED
        BY <4>1
    <3>3. CASE ~ (q[k].fd < n)
      <4>1. \A i \in 1 .. k : q[i].fd < q[k].fd + 1
        BY <1>1, <1>2, <2>2, <2>3, <3>1, <3>3
      <4>2. Above(q[k].fd + 1, k)
        BY <2>2, <4>1
      <4> QED
        BY <4>2
    <3> QED
      BY <3>2, <3>3
  <2> QED
    BY <2>1, <2>2, <2>3
<1>4. Bad \subseteq Nat
  BY <1>1
<1>5. Bad = {}
  <2> HIDE DEF Bad
  <2>1. SUFFICES ASSUME Bad # {} PROVE FALSE
    OBVIOUS
  <2>2. PICK k \in Bad : \A j \in Bad : <<j, k>> \notin OpToRel(<, Nat)
    BY <1>4, <2>1, WFMin, NatLessThanWellFounded, Zenon
  <2>3. k - 1 \in Bad /\ k \in Nat /\ k - 1 \in Nat /\ k - 1 < k
    BY <1>3, <1>4
  <2> QED
    BY <2>2, <2>3, Zenon DEF OpToRel
<1>6. \E n : Above(n, Len(q))
  <2> HIDE DEF Above
  <2>1. Len(q) \in 0 .. Len(q) /\ Len(q) \notin Bad
    BY <1>1, <1>5
  <2> QED
    BY <2>1
<1>7. Above(FreeFd(q, 1), Len(q))
  BY <1>6 DEF FreeFd
<1> QED
  BY <1>2, <1>7

\* In a list without doubles a descriptor leads to its file.
LEMMA Leads ==
  ASSUME NEW c, NEW q, Listed(q, c), Distinct(q), NEW i \in 1 .. Len(q)
  PROVE  get_file_by_fd(q, q[i].fd) = {q[i].file}
<1>1. Len(q) \in Nat
  BY LenProperties DEF Listed
<1>2. FirstWith(q, 1 .. Len(q), q[i].fd) = {i}
  BY <1>1 DEF FirstWith, Distinct
<1> QED
  BY <1>2 DEF get_file_by_fd

\* ... and only such files are found.
LEMMA LeadsOnly ==
  ASSUME NEW c, NEW q, Listed(q, c), NEW fd, NEW f \in get_file_by_fd(q, fd)
  PROVE  f \in FilesOf[c] /\ \E i \in 1 .. Len(q) : q[i].fd = fd /\ q[i].file = f
BY DEF get_file_by_fd, FirstWith, Listed

\* A file is opened.
LEMMA Opened ==
  ASSUME NEW c, NEW q, Listed(q, c), NEW f \in FilesOf[c], NEW r, r = append_fd_to_process(q, f)
  PROVE  /\ Listed(r, c) /\ Len(q) \in Nat /\ Len(r) = Len(q) + 1
         /\ r[Len(r)].fd = FreeFd(q, 1) /\ r[Len(r)].file = f
         /\ \A i \in 1 .. Len(q) : r[i] = q[i]
<1> DEFINE e == [fd |-> FreeFd(q, 1), file |-> f]
<1>1. PICK S : q \in Seq(S)
  BY DEF Listed
<1>2. q \in Seq(S \cup {e}) /\ Len(q) \in Nat
  <2>1. S \subseteq S \cup {e}
    OBVIOUS
  <2> QED
    BY <1>1, <2>1, SeqMonotonic, LenProperties
<1>3. /\ Append(q, e) \in Seq(S \cup {e}) /\ Len(Append(q, e)) = Len(q) + 1
      /\ \A i \in 1 .. Len(q) : Append(q, e)[i] = q[i]
      /\ Append(q, e)[Len(q) + 1] = e
  BY <1>2, AppendProperties
<1>4. r = Append(q, e)
  BY DEF append_fd_to_process
<1>5. /\ r \in Seq(S \cup {e}) /\ Len(r) = Len(q) + 1 /\ r[Len(q) + 1] = e
      /\ \A i \in 1 .. Len(q) : r[i] = q[i]
  BY <1>3, <1>4
<1>6. e.fd \in Nat \ {0} /\ e.fd = FreeFd(q, 1) /\ e.file = f
  BY FdFound
<1>7. \A i \in 1 .. Len(r) : r[i].fd \in Nat \ {0} /\ r[i].file \in FilesOf[c]
  <2>1. \A i \in 1 .. Len(r) : i \in 1 .. Len(q) \/ i = Len(q) + 1
    BY <1>2, <1>5
  <2> HIDE DEF e
  <2> QED
    BY <1>5, <1>6, <2>1 DEF Listed
<1> HIDE DEF e
<1> QED
  BY <1>2, <1>5, <1>6, <1>7 DEF Listed

\* A descriptor is closed: one place of the list falls out, or none.
Without(c, q, k, r) ==
  /\ Listed(r, c) /\ Len(q) \in Nat /\ Len(r) = Len(q) - 1
  /\ \A i \in 1 .. Len(r) : r[i] = IF i < k THEN q[i] ELSE q[i + 1]

LEMMA Shortened ==
  ASSUME NEW c, NEW q, Listed(q, c), NEW k \in 1 .. Len(q), NEW r, r = RemoveAt(q, k)
  PROVE  Without(c, q, k, r)
<1>1. PICK S : q \in Seq(S)
  BY DEF Listed
<1>2. Len(q) \in Nat /\ \A i \in 1 .. Len(q) : q[i] \in S
  BY <1>1, LenProperties, ElementOfSeq
<1>3. PICK a : a = SubSeq(q, 1, k - 1)
  OBVIOUS
<1>4. PICK b : b = SubSeq(q, k + 1, Len(q))
  OBVIOUS
<1>5. a \in Seq(S) /\ Len(a) = k - 1 /\ \A i \in 1 .. k - 1 : a[i] = q[i]
  <2>1. \A i \in 1 .. k - 1 : q[i] \in S
    BY <1>2
  <2>2. /\ SubSeq(q, 1, k - 1) \in Seq(S)
        /\ Len(SubSeq(q, 1, k - 1)) = IF 1 <= k - 1 THEN k - 1 - 1 + 1 ELSE 0
        /\ \A i \in 1 .. k - 1 - 1 + 1 : SubSeq(q, 1, k - 1)[i] = q[1 + i - 1]
    BY <2>1, <1>2, SubSeqProperties
  <2> QED
    BY <1>2, <1>3, <2>2
<1>6. b \in Seq(S) /\ Len(b) = Len(q) - k /\ \A i \in 1 .. Len(q) - k : b[i] = q[k + i]
  <2>1. \A i \in k + 1 .. Len(q) : q[i] \in S
    BY <1>2
  <2>2. /\ SubSeq(q, k + 1, Len(q)) \in Seq(S)
        /\ Len(SubSeq(q, k + 1, Len(q))) = IF k + 1 <= Len(q) THEN Len(q) - (k + 1) + 1 ELSE 0
        /\ \A i \in 1 .. Len(q) - (k + 1) + 1 : SubSeq(q, k + 1, Len(q))[i] = q[k + 1 + i - 1]
    BY <2>1, <1>2, SubSeqProperties
  <2> QED
    BY <1>2, <1>4, <2>2
<1>7. /\ r \in Seq(S) /\ Len(r) = Len(a) + Len(b)
      /\ \A i \in 1 .. Len(a) + Len(b) : r[i] = IF i <= Len(a) THEN a[i] ELSE b[i - Len(a)]
  <2>1. r = a \o b
    BY <1>3, <1>4 DEF RemoveAt
  <2>2. /\ a \o b \in Seq(S) /\ Len(a \o b) = Len(a) + Len(b)
        /\ \A i \in 1 .. Len(a) + Len(b) :
             (a \o b)[i] = IF i <= Len(a) THEN a[i] ELSE b[i - Len(a)]
    BY <1>5, <1>6, ConcatProperties
  <2> QED
    BY <2>1, <2>2
<1>8. Len(r) = Len(q) - 1
  BY <1>2, <1>5, <1>6, <1>7
<1>9. ASSUME NEW i \in 1 .. Len(r) PROVE r[i] = IF i < k THEN q[i] ELSE q[i + 1]
  <2>1. CASE i < k
    BY <1>2, <1>5, <1>6, <1>7, <2>1
  <2>2. CASE ~ (i < k)
    <3>1. i - (k - 1) \in 1 .. Len(q) - k /\ k + (i - (k - 1)) = i + 1
      BY <1>2, <1>8, <2>2
    <3>2. i \in 1 .. Len(a) + Len(b) /\ ~ (i <= Len(a)) /\ i - Len(a) = i - (k - 1)
      BY <1>2, <1>5, <1>6, <1>7, <2>2
    <3>3. r[i] = b[i - (k - 1)]
      BY <1>7, <3>2
    <3>4. b[i - (k - 1)] = q[i + 1]
      BY <1>6, <3>1
    <3> QED
      BY <2>2, <3>3, <3>4
  <2> QED
    BY <2>1, <2>2
<1>10. \A i \in 1 .. Len(r) : r[i].fd \in Nat \ {0} /\ r[i].file \in FilesOf[c]
  <2>1. \A i \in 1 .. Len(r) : i \in 1 .. Len(q) /\ i + 1 \in 1 .. Len(q)
    BY <1>2, <1>8
  <2> QED
    BY <1>9, <2>1 DEF Listed
<1> QED
  BY <1>2, <1>7, <1>8, <1>9, <1>10 DEF Listed, Without

LEMMA Closed ==
  ASSUME NEW c, NEW q, Listed(q, c), NEW fd
  PROVE  \/ close_fd(q, fd) = q
         \/ \E k \in 1 .. Len(q) : q[k].fd = fd /\ close_fd(q, fd) = RemoveAt(q, k)
<1> DEFINE places == IF Len(q) = 1 THEN {1} ELSE 2 .. Len(q)
           F == FirstWith(q, places, fd)
<1>1. Len(q) \in Nat
  BY LenProperties DEF Listed
<1>2. F \subseteq {i \in 1 .. Len(q) : q[i].fd = fd}
  BY <1>1 DEF FirstWith
<1>3. close_fd(q, fd) = IF F = {} THEN q ELSE RemoveAt(q, CHOOSE k \in F : TRUE)
  BY DEF close_fd
<1> HIDE DEF F
<1> QED
  BY <1>2, <1>3
-----------------------------------------------------------------------------
(***************************************************************************)
(* A call begins: it goes to its lock, or into the file system.            *)
(***************************************************************************)
\* What a call is when it begins.
Fresh(c, r) ==
  /\ IsCall(c, r) /\ r.dir = "read" /\ ~ r.failed
  /\ r.at \in {"lock", "motor", "memory"}

\* The call goes into the file system, or to its lock.
Straight(c, e, f, v) == [Begin(c, e, f) EXCEPT !.value = v]
Waiting(c, e, f, v)  == [Begin(c, e, f) EXCEPT !.at = "lock", !.value = v]

LEMMA BeginFresh ==
  ASSUME NEW c \in Caller, NEW e \in Entry, NEW f \in FilesOf[c], NEW v \in Written \cup {NotKnown}
  PROVE  /\ Fresh(c, Straight(c, e, f, v)) /\ Straight(c, e, f, v).at \in {"motor", "memory"}
         /\ Straight(c, e, f, v).entry = e
         /\ e \in Locked => IsCall(c, Waiting(c, e, f, v)) /\ Waiting(c, e, f, v).at = "lock"
<1>1. f.dev = FloppyDevice => f.lba \in Lba
  BY VfsAssumption
<1>2. /\ DOMAIN Begin(c, e, f) = Field /\ Begin(c, e, f).entry = e /\ Begin(c, e, f).lba = f.lba
      /\ Begin(c, e, f).dir = "read" /\ Begin(c, e, f).buffer = TRUE
      /\ Begin(c, e, f).failed = FALSE /\ Begin(c, e, f).file = f
      /\ Begin(c, e, f).at = IF f.dev = FloppyDevice THEN "motor" ELSE "memory"
  BY DEF Begin, Field
<1>3. PICK b : b = Begin(c, e, f)
  OBVIOUS
<1>4. PICK r : r = Straight(c, e, f, v)
  OBVIOUS
<1>5. /\ DOMAIN r = Field /\ r.entry = e /\ r.lba = f.lba /\ r.dir = "read" /\ r.buffer = TRUE
      /\ r.failed = FALSE /\ r.file = f /\ r.value = v /\ r.tries = b.tries
      /\ r.at = IF f.dev = FloppyDevice THEN "motor" ELSE "memory"
  BY <1>2, <1>3, <1>4 DEF Field, Straight
<1>6. Fresh(c, r) /\ r.at \in {"motor", "memory"} /\ r.entry = e
  BY <1>1, <1>5 DEF Fresh, IsCall, InDriver
<1>7. PICK t : t = Waiting(c, e, f, v)
  OBVIOUS
<1>8. /\ DOMAIN t = Field /\ t.entry = e /\ t.lba = f.lba /\ t.dir = "read" /\ t.buffer = TRUE
      /\ t.failed = FALSE /\ t.file = f /\ t.value = v /\ t.at = "lock"
  BY <1>2, <1>3, <1>7 DEF Field, Waiting
<1>9. e \in Locked => IsCall(c, t) /\ t.at = "lock"
  BY <1>8 DEF IsCall, InDriver
<1> QED
  BY <1>4, <1>6, <1>7, <1>9

\* Nobody else is behind the call's lock, and if nobody is in the driver the
\* controller is quiet and every sector holds what was written.
LEMMA Entered ==
  ASSUME VfsIInv, ~ flMixed, NEW c \in Caller, ~ Behind(c), NEW r, Fresh(c, r),
         r.at \in {"motor", "memory"}, Enter(c, r),
         \/ r.entry \notin Locked /\ vfsLock' = vfsLock
         \/ r.entry \in Locked /\ ~ vfsLock[r.entry]
            /\ vfsLock' = [vfsLock EXCEPT ![r.entry] = TRUE],
         UNCHANGED <<flpydsk_irq_finished, floppy_dmabuf, flMotor, flFdc, flDisk, flText, vfsFds>>
  PROVE  VfsIInv'
<1>1. flCall' = [flCall EXCEPT ![c] = r]
      /\ flMixed' = \/ flMixed
                    \/ /\ r.at = "motor"
                       /\ \E d \in Caller \ {c} :
                            Inside(d) /\ (r.entry \notin Locked \/ flCall[d].entry # r.entry)
  BY DEF Enter
<1>2. /\ DOMAIN flCall' = Caller /\ flCall'[c] = r /\ flCall' = [d \in Caller |-> flCall'[d]]
      /\ \A d \in Caller \ {c} : flCall'[d] = flCall[d]
  BY <1>1 DEF VfsIInv, Calling
<1>3. Calling'
  BY <1>2 DEF VfsIInv, Calling, Fresh
<1>4. r.entry \in Locked => \A d \in Caller : Behind(d) => flCall[d].entry # r.entry
  BY DEF VfsIInv, Locking
<1>5. vfsLock \in [Locked -> BOOLEAN]
  BY DEF VfsIInv
<1>6. \A e \in Locked : vfsLock[e] => vfsLock'[e]
  BY <1>5
<1>7. r.entry \in Locked => vfsLock'[r.entry]
  BY <1>5
<1>8. Locking'
  <2>1. ASSUME NEW d \in Caller, Behind(d)', flCall'[d].entry \in Locked
        PROVE  vfsLock'[flCall'[d].entry]
               /\ \A x \in Caller \ {d} : Behind(x)' => flCall'[x].entry # flCall'[d].entry
    <3>1. CASE d = c
      <4>1. \A x \in Caller \ {c} : Behind(x)' => Behind(x) /\ flCall'[x] = flCall[x]
        BY <1>2 DEF Behind
      <4> QED
        BY <1>2, <1>4, <1>7, <2>1, <3>1, <4>1
    <3>2. CASE d # c
      <4>1. Behind(d) /\ flCall'[d] = flCall[d]
        BY <1>2, <2>1, <3>2 DEF Behind
      <4>2. /\ vfsLock[flCall[d].entry]
            /\ \A x \in Caller \ {d} : Behind(x) => flCall[x].entry # flCall[d].entry
        BY <2>1, <4>1 DEF VfsIInv, Locking
      <4>3. \A x \in Caller \ {d, c} : Behind(x)' => flCall'[x].entry # flCall[d].entry
        BY <1>2, <4>2 DEF Behind
      <4>4. r.entry # flCall[d].entry
        BY <1>4, <2>1, <4>1
      <4> QED
        BY <1>2, <1>6, <2>1, <4>1, <4>2, <4>3, <4>4
    <3> QED
      BY <3>1, <3>2
  <2> QED
    BY <2>1 DEF Locking
<1>9. Device' /\ Texts'
  <2>1. flMixed' \in BOOLEAN
    BY <1>1
  <2> QED
    BY <2>1 DEF VfsIInv, Device, Texts
<1>10. vfsLock' \in [Locked -> BOOLEAN] /\ Descriptors'
  BY <1>5 DEF VfsIInv, Descriptors
<1>11. CASE r.at = "memory"
  <2>1. \A d \in Caller : Inside(d)' <=> Inside(d)
    BY <1>2, <1>11 DEF Inside, Behind, InDriver
  <2>2. \A d \in Caller : Inside(d) => flCall'[d] = flCall[d]
    BY <1>2 DEF Inside, Behind, InDriver
  <2>3. ~ flMixed'
    BY <1>1, <1>11
  <2>4. Alone'
    BY <2>1, <2>3 DEF VfsIInv, Alone
  <2>5. Talking'
    <3>1. Quiet' <=> Quiet
      BY DEF Quiet
    <3>2. \A d \in Caller : Inside(d) => (Talk(flCall[d])' <=> Talk(flCall[d]))
      BY <2>2 DEF Talk, Quiet, Ready
    <3> QED
      BY <2>1, <2>3, <3>1, <3>2 DEF VfsIInv, Talking
  <2>6. Delivering'
    <3>1. \A l : Holds(l)' <=> Holds(l)
      BY DEF Holds
    <3>2. \A d \in Caller : Inside(d) => (Deliver(flCall[d])' <=> Deliver(flCall[d]))
      BY <2>2 DEF Deliver, Transferred, Holds
    <3> QED
      BY <2>1, <2>3, <3>1, <3>2 DEF VfsIInv, Delivering
  <2> QED
    BY <1>3, <1>8, <1>9, <1>10, <2>4, <2>5, <2>6 DEF VfsIInv
<1>12. CASE r.at = "motor"
  <2>1. SUFFICES ASSUME ~ flMixed' PROVE Alone' /\ Talking' /\ Delivering'
    BY <1>3, <1>8, <1>9, <1>10 DEF VfsIInv, Alone, Talking, Delivering
  <2>2. \A d \in Caller : ~ Inside(d)
    <3>1. ~ Inside(c)
      BY DEF Inside, Behind, InDriver
    <3>2. ASSUME NEW d \in Caller \ {c}, Inside(d) PROVE FALSE
      <4>1. r.entry \in Locked /\ flCall[d].entry = r.entry
        BY <1>1, <1>12, <2>1, <3>2
      <4>2. Behind(d)
        BY <3>2 DEF Inside, Behind
      <4> QED
        BY <1>4, <4>1, <4>2
    <3> QED
      BY <3>1, <3>2
  <2>3. \A d \in Caller : Inside(d)' <=> d = c
    BY <1>2, <1>12, <2>2 DEF Inside, InDriver
  <2>4. Quiet /\ \A l \in Lba : Holds(l)
    BY <2>2 DEF VfsIInv, Talking, Delivering
  <2>5. Talk(r)'
    BY <1>12, <2>4 DEF Talk, Quiet
  <2>6. Deliver(r)'
    BY <1>12, <2>4 DEF Deliver, Transferred, Holds, Fresh
  <2> QED
    BY <1>2, <2>3, <2>5, <2>6 DEF Alone, Talking, Delivering
<1> QED
  BY <1>11, <1>12

LEMMA CallBegins ==
  ASSUME VfsIInv, ~ flMixed, NEW c \in Caller, NEW e \in Entry, NEW f \in FilesOf[c],
         NEW v \in Written \cup {NotKnown}, Call(c, e, f, v)
  PROVE  VfsIInv'
<1>1. /\ flCall[c] = Outside /\ ~ Behind(c)
      /\ UNCHANGED <<flpydsk_irq_finished, floppy_dmabuf, flMotor, flFdc, flDisk, flText,
                     vfsLock, vfsFds, vfsHeld>>
  BY DEF Call, Outside, Behind, InDriver
<1>2. CASE e \notin Locked
  <2>1. PICK r : r = Straight(c, e, f, v)
    OBVIOUS
  <2>2. Fresh(c, r) /\ r.at \in {"motor", "memory"} /\ r.entry = e
    BY <2>1, BeginFresh
  <2>3. Enter(c, r)
    BY <1>2, <2>1 DEF Call, Straight
  <2> QED
    BY <1>1, <1>2, <2>2, <2>3, Entered
<1>3. CASE e \in Locked
  <2>1. PICK r : r = Waiting(c, e, f, v)
    OBVIOUS
  <2>2. IsCall(c, r) /\ r.at = "lock"
    BY <1>3, <2>1, BeginFresh
  <2>3. flCall' = [flCall EXCEPT ![c] = r] /\ flMixed' = flMixed
    BY <1>3, <2>1 DEF Call, Waiting
  <2>4. /\ flCall' = [d \in Caller |-> flCall'[d]] /\ flCall'[c] = r
        /\ \A d \in Caller \ {c} : flCall'[d] = flCall[d]
    BY <2>3 DEF VfsIInv, Calling
  <2>5. Calling'
    BY <2>2, <2>4 DEF VfsIInv, Calling
  <2>6. \A d \in Caller : (Behind(d)' <=> Behind(d)) /\ (Inside(d)' <=> Inside(d))
                          /\ (Behind(d) => flCall'[d] = flCall[d])
    BY <1>1, <2>2, <2>4 DEF Behind, Inside, InDriver, Outside
  <2>7. Locking'
    BY <1>1, <2>6 DEF VfsIInv, Locking
  <2>8. Alone'
    BY <2>3, <2>6 DEF VfsIInv, Alone
  <2>9. \A d \in Caller : Inside(d) => Behind(d)
    BY DEF Inside, Behind
  <2>10. Talking'
    <3>1. (Quiet' <=> Quiet) /\ \A d \in Caller : Inside(d) => (Talk(flCall[d])' <=> Talk(flCall[d]))
      BY <1>1, <2>6, <2>9 DEF Talk, Quiet, Ready
    <3> QED
      BY <2>3, <2>6, <3>1 DEF VfsIInv, Talking
  <2>11. Delivering'
    <3>1. /\ \A l : Holds(l)' <=> Holds(l)
          /\ \A d \in Caller : Inside(d) => (Deliver(flCall[d])' <=> Deliver(flCall[d]))
      BY <1>1, <2>6, <2>9 DEF Deliver, Transferred, Holds
    <3> QED
      BY <2>3, <2>6, <3>1 DEF VfsIInv, Delivering
  <2>12. Device' /\ Texts' /\ vfsLock' \in [Locked -> BOOLEAN] /\ Descriptors'
    BY <1>1, <2>3 DEF VfsIInv, Device, Texts, Descriptors
  <2> QED
    BY <2>5, <2>7, <2>8, <2>10, <2>11, <2>12 DEF VfsIInv
<1> QED
  BY <1>2, <1>3

LEMMA LockTaken ==
  ASSUME VfsIInv, ~ flMixed, NEW c \in Caller, acquireLock(c)
  PROVE  VfsIInv'
<1> DEFINE b == Begin(c, flCall[c].at, flCall[c].file)
<1>1. /\ flCall[c].at = "lock" /\ ~ vfsLock[flCall[c].entry]
      /\ vfsLock' = [vfsLock EXCEPT ![flCall[c].entry] = TRUE]
      /\ UNCHANGED <<flpydsk_irq_finished, floppy_dmabuf, flMotor, flFdc, flDisk, flText,
                     vfsFds, vfsHeld, vfsCalls>>
  BY DEF acquireLock
<1>2. PICK q : q = flCall[c]
  OBVIOUS
<1>3. IsCall(c, q) /\ q.at = "lock" /\ ~ Behind(c)
  BY <1>1, <1>2 DEF VfsIInv, Calling, Behind, InDriver, Outside
<1>4. PICK r : r = [q EXCEPT !.at = IF q.file.dev = FloppyDevice THEN "motor" ELSE "memory"]
  OBVIOUS
<1>5. Enter(c, r)
  <2>1. b.at = IF q.file.dev = FloppyDevice THEN "motor" ELSE "memory"
    BY <1>2 DEF Begin
  <2> QED
    BY <1>2, <1>4, <2>1 DEF acquireLock, Begin
<1>6. /\ DOMAIN r = Field /\ r.entry = q.entry /\ r.lba = q.lba /\ r.dir = q.dir
      /\ r.buffer = q.buffer /\ r.failed = q.failed /\ r.file = q.file /\ r.value = q.value
      /\ r.at = IF q.file.dev = FloppyDevice THEN "motor" ELSE "memory"
  BY <1>3, <1>4 DEF IsCall, Field
<1>7. q.file \in FilesOf[c] /\ (q.file.dev = FloppyDevice => q.file.lba \in Lba)
  BY <1>3, VfsAssumption DEF IsCall
<1>8. Fresh(c, r) /\ r.at \in {"motor", "memory"} /\ r.entry \in Locked
  BY <1>3, <1>6, <1>7 DEF Fresh, IsCall, InDriver
<1> QED
  BY <1>1, <1>2, <1>3, <1>5, <1>6, <1>8, Entered

-----------------------------------------------------------------------------
(***************************************************************************)
(* A call returns.                                                         *)
(***************************************************************************)
LEMMA Returned ==
  ASSUME VfsIInv, ~ flMixed, NEW c \in Caller, Return(c), Descriptors'
  PROVE  VfsIInv'
<1>1. PICK q : q = flCall[c]
  OBVIOUS
<1>2. /\ q.at = "memory" \/ (q.at = "back" /\ (q.value = NotKnown \/ q.dir = "write"))
      /\ flCall' = [flCall EXCEPT ![c] = Outside]
      /\ vfsLock' = [e \in Locked |-> vfsLock[e] /\ e # q.entry]
      /\ flText' = IF q.dir = "read" THEN flText
                   ELSE [flText EXCEPT ![q.lba] = IF q.failed THEN NotKnown ELSE q.value]
      /\ UNCHANGED <<flpydsk_irq_finished, floppy_dmabuf, flMotor, flFdc, flDisk, flMixed>>
  BY <1>1 DEF Return, releaseLock
<1>3. Behind(c) /\ IsCall(c, q)
  BY <1>1, <1>2 DEF VfsIInv, Calling, Behind, InDriver, Outside
<1>4. /\ flCall' = [d \in Caller |-> flCall'[d]] /\ flCall'[c] = Outside
      /\ \A d \in Caller \ {c} : flCall'[d] = flCall[d]
  BY <1>2 DEF VfsIInv, Calling
<1>5. Calling'
  BY <1>4 DEF VfsIInv, Calling
<1>6. \A d \in Caller : /\ Behind(d)' <=> Behind(d) /\ d # c
                        /\ Inside(d)' <=> Inside(d) /\ d # c
                        /\ d # c => flCall'[d] = flCall[d]
  BY <1>4 DEF Behind, Inside, InDriver, Outside
<1>7. Locking'
  <2>1. ASSUME NEW d \in Caller, Behind(d)', flCall'[d].entry \in Locked
        PROVE  vfsLock'[flCall'[d].entry]
               /\ \A x \in Caller \ {d} : Behind(x)' => flCall'[x].entry # flCall'[d].entry
    <3>1. d # c /\ Behind(d) /\ flCall'[d] = flCall[d]
      BY <1>6, <2>1
    <3>2. /\ vfsLock[flCall[d].entry]
          /\ \A x \in Caller \ {d} : Behind(x) => flCall[x].entry # flCall[d].entry
      BY <2>1, <3>1 DEF VfsIInv, Locking
    <3>3. q.entry # flCall[d].entry
      BY <1>1, <1>3, <3>1, <3>2
    <3> QED
      BY <1>2, <1>6, <2>1, <3>1, <3>2, <3>3
  <2> QED
    BY <2>1 DEF Locking
<1>8. Device' /\ Texts' /\ vfsLock' \in [Locked -> BOOLEAN]
  BY <1>2 DEF VfsIInv, Device, Texts
<1>9. Alone'
  BY <1>6 DEF VfsIInv, Alone
<1>10. CASE q.at = "memory"
  <2>1. UNCHANGED flText
    BY <1>2, <1>3, <1>10 DEF IsCall
  <2>2. \A d \in Caller : Inside(d)' <=> Inside(d)
    BY <1>1, <1>6, <1>10 DEF Inside, InDriver
  <2>3. Talking'
    <3>1. Quiet' <=> Quiet
      BY <1>2 DEF Quiet
    <3>2. \A d \in Caller : Inside(d)' => (Talk(flCall[d])' <=> Talk(flCall[d]))
      BY <1>2, <1>6 DEF Talk, Quiet, Ready
    <3> QED
      BY <2>2, <3>1, <3>2 DEF VfsIInv, Talking
  <2>4. Delivering'
    <3>1. \A l : Holds(l)' <=> Holds(l)
      BY <1>2, <2>1 DEF Holds
    <3>2. \A d \in Caller : Inside(d)' => (Deliver(flCall[d])' <=> Deliver(flCall[d]))
      BY <1>2, <1>6, <2>1 DEF Deliver, Transferred, Holds
    <3> QED
      BY <2>2, <3>1, <3>2 DEF VfsIInv, Delivering
  <2> QED
    BY <1>5, <1>7, <1>8, <1>9, <2>3, <2>4 DEF VfsIInv
<1>11. CASE q.at = "back"
  <2>1. Inside(c)
    BY <1>1, <1>11 DEF Inside, InDriver
  <2>2. \A d \in Caller : ~ Inside(d)'
    BY <1>6, <2>1 DEF VfsIInv, Alone
  <2>3. Talk(q) /\ Deliver(q)
    BY <1>1, <2>1 DEF VfsIInv, Talking, Delivering
  <2>4. Quiet'
    BY <1>2, <1>11, <2>3 DEF Talk, Quiet
  <2>5. \A l \in Lba : Holds(l)'
    <3>1. CASE q.dir = "read"
      BY <1>2, <2>3, <3>1 DEF Deliver, Holds
    <3>2. CASE q.dir = "write"
      <4>1. ASSUME NEW l \in Lba, l # q.lba PROVE Holds(l)'
        <5>1. Holds(l)
          BY <2>3, <4>1 DEF Deliver
        <5>2. flText'[l] = flText[l]
          BY <1>2, <3>2, <4>1
        <5> QED
          BY <1>2, <5>1, <5>2 DEF Holds
      <4>2. Holds(q.lba)'
        <5>1. flText'[q.lba] = IF q.failed THEN NotKnown ELSE q.value
          BY <1>2, <1>3, <1>11, <3>2 DEF VfsIInv, Texts, IsCall, InDriver
        <5>2. ~ q.failed => flDisk[q.lba] = q.value
          BY <1>11, <2>3, <3>2 DEF Deliver, Transferred
        <5> QED
          BY <1>2, <5>1, <5>2 DEF Holds
      <4> QED
        BY <4>1, <4>2
    <3> QED
      BY <1>3, <3>1, <3>2 DEF IsCall
  <2> QED
    BY <1>5, <1>7, <1>8, <1>9, <2>2, <2>4, <2>5 DEF VfsIInv, Talking, Delivering
<1> QED
  BY <1>2, <1>10, <1>11
\* A file that was opened gets a descriptor.
LEMMA ReturnGives ==
  ASSUME VfsIInv, NEW c \in Caller, Return(c)
  PROVE  Descriptors'
<1>1. PICK q : q = vfsFds[c]
  OBVIOUS
<1>2. PICK f : f = flCall[c].file
  OBVIOUS
<1>3. PICK r : r = append_fd_to_process(q, f)
  OBVIOUS
<1>4. f \in FilesOf[c]
  BY <1>2 DEF Return, VfsIInv, Calling, IsCall, Outside
<1>5. vfsFds' = vfsFds \/ vfsFds' = [vfsFds EXCEPT ![c] = r]
  BY <1>1, <1>2, <1>3 DEF Return
<1>6. Listed(q, c)
  BY <1>1 DEF VfsIInv, Descriptors
<1>7. Listed(r, c)
  BY <1>3, <1>4, <1>6, Opened
<1> QED
  BY <1>5, <1>7 DEF VfsIInv, Descriptors

\* What changes nothing but the descriptors of a caller.
LEMMA DescriptorsOnly ==
  ASSUME VfsIInv, NEW c \in Caller, NEW r, Listed(r, c), vfsFds' = [vfsFds EXCEPT ![c] = r],
         UNCHANGED <<flVars, vfsLock>>
  PROVE  VfsIInv'
<1>1. UNCHANGED <<flpydsk_irq_finished, floppy_dmabuf, flMotor, flFdc, flDisk, flCall, flText,
                  flMixed, vfsLock>>
  BY DEF flVars
<1>2. Descriptors'
  BY DEF VfsIInv, Descriptors
<1>3. Device' /\ Texts' /\ vfsLock' \in [Locked -> BOOLEAN] /\ Calling'
  BY <1>1 DEF VfsIInv, Device, Texts, Calling
<1>4. Locking' /\ Alone'
  BY <1>1 DEF VfsIInv, Locking, Alone, Behind, Inside
<1>5. Talking'
  BY <1>1 DEF VfsIInv, Talking, Inside, Talk, Quiet, Ready
<1>6. Delivering'
  BY <1>1 DEF VfsIInv, Delivering, Inside, Deliver, Transferred, Holds
<1> QED
  BY <1>2, <1>3, <1>4, <1>5, <1>6 DEF VfsIInv

LEMMA FileClosed ==
  ASSUME VfsIInv, NEW c \in Caller, NEW fd, fclose(c, fd)
  PROVE  VfsIInv'
<1>1. PICK q : q = vfsFds[c]
  OBVIOUS
<1>2. PICK r : r = close_fd(q, fd)
  OBVIOUS
<1>3. Listed(q, c)
  BY <1>1 DEF VfsIInv, Descriptors
<1>4. Listed(r, c)
  <2>1. r = q \/ \E k \in 1 .. Len(q) : r = RemoveAt(q, k)
    BY <1>2, <1>3, Closed
  <2> QED
    BY <1>3, <2>1, Shortened DEF Without
<1> QED
  BY <1>1, <1>2, <1>4, DescriptorsOnly DEF fclose

\* The empty list.
LEMMA NoneListed ==
  ASSUME NEW c
  PROVE  Listed(<<>>, c) /\ Len(<<>>) = 0
<1>1. <<>> \in Seq({}) /\ Len(<<>>) = 0
  BY EmptySeq
<1> QED
  BY <1>1 DEF Listed

LEMMA Terminated ==
  ASSUME VfsIInv, NEW c \in Caller, Terminate(c)
  PROVE  VfsIInv'
BY NoneListed, DescriptorsOnly DEF Terminate
-----------------------------------------------------------------------------
(***************************************************************************)
(* The whole.                                                              *)
(***************************************************************************)
LEMMA VfsStarts == VfsInit => VfsIInv
<1> SUFFICES ASSUME VfsInit PROVE VfsIInv
  OBVIOUS
<1> USE DEF VfsInit, FlInit
<1>1. \A c \in Caller : flCall[c] = Outside /\ ~ Inside(c) /\ ~ Behind(c)
  BY DEF Inside, Behind, InDriver, Outside
<1>2. Device /\ Texts /\ vfsLock \in [Locked -> BOOLEAN]
  BY FloppyAssumption DEF Device, Texts, Contents
<1>3. Descriptors
  BY NoneListed DEF Descriptors
<1>4. Calling
  BY <1>1 DEF Calling
<1>5. Locking /\ Alone
  BY <1>1 DEF Locking, Alone
<1>6. Talking
  BY <1>1 DEF Talking, Quiet
<1>7. Delivering
  BY <1>1 DEF Delivering, Holds
<1> QED
  BY <1>2, <1>3, <1>4, <1>5, <1>6, <1>7 DEF VfsIInv

LEMMA VfsStays ==
  ASSUME VfsIInv, UNCHANGED vfsVars
  PROVE  VfsIInv'
<1>1. UNCHANGED <<flpydsk_irq_finished, floppy_dmabuf, flMotor, flFdc, flDisk, flCall, flText,
                  flMixed, vfsLock, vfsFds>>
  BY DEF vfsVars, flVars
<1>2. Device' /\ Texts' /\ vfsLock' \in [Locked -> BOOLEAN] /\ Calling' /\ Descriptors'
  BY <1>1 DEF VfsIInv, Device, Texts, Calling, Descriptors
<1>3. Locking' /\ Alone'
  BY <1>1 DEF VfsIInv, Locking, Alone, Behind, Inside
<1>4. Talking'
  BY <1>1 DEF VfsIInv, Talking, Inside, Talk, Quiet, Ready
<1>5. Delivering'
  BY <1>1 DEF VfsIInv, Delivering, Inside, Deliver, Transferred, Holds
<1> QED
  BY <1>2, <1>3, <1>4, <1>5 DEF VfsIInv

LEMMA DriverSteps ==
  ASSUME VfsIInv, ~ flMixed, NEW c \in Caller, Driver(c)
  PROVE  VfsIInv'
<1>1. UNCHANGED <<vfsLock, vfsFds>> /\ FlStep(c)
  BY DEF Driver
<1>2. CASE FlMotorOn(c)
  BY <1>1, <1>2, MotorOn
<1>3. CASE FlSeek(c)
  BY <1>1, <1>3, SeekStarted
<1>4. CASE FlSeekResult(c)
  BY <1>1, <1>4, SeekAnswered
<1>5. CASE FlTransfer(c)
  BY <1>1, <1>5, TransferStarted
<1>6. CASE FlTransferResult(c)
  BY <1>1, <1>6, TransferAnswered
<1>7. CASE FlMotorOff(c)
  BY <1>1, <1>7, MotorOff
<1>8. CASE FlModify(c)
  BY <1>1, <1>8, Modified
<1> QED
  BY <1>1, <1>2, <1>3, <1>4, <1>5, <1>6, <1>7, <1>8 DEF FlStep

LEMMA VfsSteps ==
  ASSUME VfsIInv, VfsNext
  PROVE  VfsIInv'
<1>1. ~ flMixed
  BY DEF VfsNext
<1>2. ASSUME NEW c \in Caller, NEW f \in FilesOf[c], volOpenFile(c, f) PROVE VfsIInv'
  <2>1. Call(c, "open", f, NotKnown) /\ "open" \in Entry
    BY <1>2 DEF volOpenFile, Entry
  <2> QED
    BY <1>1, <2>1, CallBegins
<1>3. ASSUME NEW c \in Caller, NEW f \in FilesOf[c], volCreateFile(c, f) PROVE VfsIInv'
  <2>1. PICK v \in Written : Call(c, "create", f, v)
    BY <1>3 DEF volCreateFile
  <2>2. "create" \in Entry
    BY DEF Entry
  <2> QED
    BY <1>1, <2>1, <2>2, CallBegins
<1>4. ASSUME NEW c \in Caller, NEW fd, NEW f \in get_file_by_fd(vfsFds[c], fd)
      PROVE  f \in FilesOf[c]
  <2>1. Listed(vfsFds[c], c)
    BY DEF VfsIInv, Descriptors
  <2>2. PICK q : q = vfsFds[c]
    OBVIOUS
  <2> QED
    BY <1>4, <2>1, <2>2, LeadsOnly
<1>5. ASSUME NEW c \in Caller, NEW fd \in Fd, fread(c, fd) PROVE VfsIInv'
  <2>1. PICK f \in get_file_by_fd(vfsFds[c], fd) : Call(c, "read", f, NotKnown)
    BY <1>5 DEF fread
  <2>2. f \in FilesOf[c] /\ "read" \in Entry
    BY <1>4 DEF Entry
  <2> QED
    BY <1>1, <2>1, <2>2, CallBegins
<1>6. ASSUME NEW c \in Caller, NEW fd \in Fd, fwrite(c, fd) PROVE VfsIInv'
  <2>1. PICK f \in get_file_by_fd(vfsFds[c], fd), v \in Written : Call(c, "write", f, v)
    BY <1>6 DEF fwrite
  <2>2. f \in FilesOf[c] /\ "write" \in Entry
    BY <1>4 DEF Entry
  <2> QED
    BY <1>1, <2>1, <2>2, CallBegins
<1>7. ASSUME NEW c \in Caller, Return(c) PROVE VfsIInv'
  BY <1>1, <1>7, ReturnGives, Returned
<1>8. CASE Works
  <2>1. UNCHANGED <<vfsLock, vfsFds>> /\ (FdcSeeks \/ FdcTransfers)
    BY <1>8 DEF Works, Controller
  <2> QED
    BY <1>1, <2>1, SeekEnds, TransferEnds
<1> QED
  BY <1>1, <1>2, <1>3, <1>5, <1>6, <1>7, <1>8, FileClosed, LockTaken, Terminated, DriverSteps
  DEF VfsNext

\* The inductive invariant holds at every step.
THEOREM VfsInvariance == VfsSpec => []VfsIInv
<1>1. VfsIInv /\ [VfsNext]_vfsVars => VfsIInv'
  BY VfsSteps, VfsStays
<1> QED
  BY <1>1, VfsStarts, PTL DEF VfsSpec

\* A read that did not fail leaves in the buffer what was last written to its
\* sector, and when nobody is in the driver every sector holds what was last
\* written to it (flpydsk_read_sector, flpydsk_write_sector), for any number of
\* callers, geometry and number of tries, as long as calls do not mix.
THEOREM FloppyKeepsSectors == VfsSpec => []FloppyDelivers
<1>1. ASSUME VfsIInv PROVE FloppyDelivers
  <2>1. ASSUME ~ flMixed, NEW c \in Caller, Inside(c), flCall[c].at = "back",
               flCall[c].dir = "read", ~ flCall[c].failed
        PROVE  flText[flCall[c].lba] \in {floppy_dmabuf, NotKnown}
    <3>1. IsCall(c, flCall[c]) /\ Deliver(flCall[c])
      BY <1>1, <2>1, InCall
    <3>2. flCall[c].lba \in Lba
      BY <2>1, <3>1 DEF IsCall, InDriver
    <3> QED
      BY <2>1, <3>1, <3>2 DEF Deliver, Transferred, Holds
  <2> QED
    BY <1>1, <2>1 DEF FloppyDelivers, VfsIInv, Delivering, Holds
<1> QED
  BY <1>1, VfsInvariance, PTL

\* The driver's registers, the locks and the descriptors have their types.
THEOREM VfsTypes == VfsSpec => []VfsTypeOK
<1>1. ASSUME VfsIInv PROVE VfsTypeOK
  <2>1. ASSUME NEW c \in Caller, NEW i \in DOMAIN vfsFds[c]
        PROVE  vfsFds[c][i].fd \in Nat \ {0} /\ vfsFds[c][i].file \in FilesOf[c]
    <3>1. Listed(vfsFds[c], c)
      BY <1>1 DEF VfsIInv, Descriptors
    <3>2. DOMAIN vfsFds[c] = 1 .. Len(vfsFds[c])
      BY <3>1, LenProperties DEF Listed
    <3> QED
      BY <2>1, <3>1, <3>2 DEF Listed
  <2>2. \A c \in Caller : flCall[c].at \in InDriver \cup {"outside", "lock", "memory"}
    BY <1>1 DEF VfsIInv, Calling, IsCall, Outside
  <2> QED
    BY <1>1, <2>1, <2>2 DEF VfsIInv, Device, Contents, VfsTypeOK
<1> QED
  BY <1>1, VfsInvariance, PTL
-----------------------------------------------------------------------------
(***************************************************************************)
(* Descriptors lead to what they were returned for.                        *)
(***************************************************************************)
Keeps(q, held) ==
  Distinct(q) /\ \A fd \in DOMAIN held : get_file_by_fd(q, fd) = {held[fd]}

Kept == DOMAIN vfsHeld = Caller /\ \A c \in Caller : Keeps(vfsFds[c], vfsHeld[c])

\* A descriptor that is held is in the list, with its file.
LEMMA HeldListed ==
  ASSUME NEW c, NEW q, Listed(q, c), NEW held, Keeps(q, held), NEW fd \in DOMAIN held
  PROVE  \E i \in 1 .. Len(q) : q[i].fd = fd /\ q[i].file = held[fd]
<1>1. held[fd] \in get_file_by_fd(q, fd)
  BY DEF Keeps
<1>2. PICK f : f = held[fd]
  OBVIOUS
<1> QED
  BY <1>1, <1>2, LeadsOnly

LEMMA OpenedKeeps ==
  ASSUME NEW c, NEW q, Listed(q, c), NEW f \in FilesOf[c], NEW r, r = append_fd_to_process(q, f),
         NEW held, Keeps(q, held), NEW after, after = Holding(held, Last(r).fd, f)
  PROVE  Keeps(r, after)
<1>1. /\ Listed(r, c) /\ Len(q) \in Nat /\ Len(r) = Len(q) + 1
      /\ r[Len(r)].fd = FreeFd(q, 1) /\ r[Len(r)].file = f
      /\ \A i \in 1 .. Len(q) : r[i] = q[i]
  BY Opened
<1>2. PICK n : n = FreeFd(q, 1)
  OBVIOUS
<1>3. n \in Nat \ {0} /\ \A i \in 1 .. Len(q) : q[i].fd < n
  BY <1>2, FdFound
<1>4. \A i \in 1 .. Len(r) : i \in 1 .. Len(q) \/ i = Len(r)
  BY <1>1
<1>5. \A i \in 1 .. Len(q) : q[i].fd \in Nat /\ q[i].fd # n
  BY <1>3 DEF Listed
<1>6. Distinct(r)
  <2>1. \A i, j \in 1 .. Len(q) : i # j => r[i].fd # r[j].fd
    BY <1>1 DEF Keeps, Distinct
  <2>2. \A i \in 1 .. Len(q) : r[i].fd # r[Len(r)].fd
    BY <1>1, <1>2, <1>5
  <2> QED
    BY <1>4, <2>1, <2>2 DEF Distinct
<1>7. after = [x \in DOMAIN held \cup {n} |-> IF x = n THEN f ELSE held[x]]
  <2>1. Last(r).fd = n
    BY <1>1, <1>2 DEF Last
  <2> QED
    BY <2>1 DEF Holding
<1>8. ASSUME NEW fd \in DOMAIN after PROVE get_file_by_fd(r, fd) = {after[fd]}
  <2>1. PICK i \in 1 .. Len(r) : r[i].fd = fd /\ r[i].file = after[fd]
    <3>1. CASE fd = n
      BY <1>1, <1>2, <1>7, <3>1
    <3>2. CASE fd # n
      <4>1. fd \in DOMAIN held /\ after[fd] = held[fd]
        BY <1>7, <1>8, <3>2
      <4>2. PICK i \in 1 .. Len(q) : q[i].fd = fd /\ q[i].file = held[fd]
        BY <4>1, HeldListed
      <4> QED
        BY <1>1, <4>1, <4>2
    <3> QED
      BY <3>1, <3>2
  <2>2. get_file_by_fd(r, r[i].fd) = {r[i].file}
    BY <1>1, <1>6, Leads
  <2> QED
    BY <2>1, <2>2
<1> QED
  BY <1>6, <1>8 DEF Keeps

LEMMA ClosedKeeps ==
  ASSUME NEW c, NEW q, Listed(q, c), NEW fd, NEW r, r = close_fd(q, fd),
         NEW held, Keeps(q, held), NEW after, after = [d \in DOMAIN held \ {fd} |-> held[d]]
  PROVE  Keeps(r, after)
<1>1. CASE r = q
  BY <1>1 DEF Keeps
<1>2. ASSUME NEW k \in 1 .. Len(q), q[k].fd = fd, r = RemoveAt(q, k) PROVE Keeps(r, after)
  <2>1. /\ Listed(r, c) /\ Len(q) \in Nat /\ Len(r) = Len(q) - 1
        /\ \A i \in 1 .. Len(r) : r[i] = IF i < k THEN q[i] ELSE q[i + 1]
    BY <1>2, Shortened DEF Without
  <2>2. Distinct(r)
    <3>1. ASSUME NEW i \in 1 .. Len(r), NEW j \in 1 .. Len(r), i # j
          PROVE  r[i].fd # r[j].fd
      <4>1. PICK x : x = IF i < k THEN i ELSE i + 1
        OBVIOUS
      <4>2. PICK y : y = IF j < k THEN j ELSE j + 1
        OBVIOUS
      <4>3. x \in 1 .. Len(q) /\ y \in 1 .. Len(q) /\ x # y
        BY <2>1, <3>1, <4>1, <4>2
      <4>4. r[i] = q[x] /\ r[j] = q[y]
        BY <2>1, <4>1, <4>2
      <4>5. q[x].fd # q[y].fd
        BY <4>3 DEF Keeps, Distinct
      <4> QED
        BY <4>4, <4>5
    <3> QED
      BY <3>1 DEF Distinct
  <2>3. ASSUME NEW d \in DOMAIN after PROVE get_file_by_fd(r, d) = {after[d]}
    <3>1. d \in DOMAIN held /\ d # fd /\ after[d] = held[d]
      BY <2>3
    <3>2. PICK i \in 1 .. Len(q) : q[i].fd = d /\ q[i].file = held[d]
      BY <3>1, HeldListed
    <3>3. i # k
      BY <1>2, <3>1, <3>2
    <3>4. PICK j : j = IF i < k THEN i ELSE i - 1
      OBVIOUS
    <3>5. j \in 1 .. Len(r) /\ r[j] = q[i]
      BY <2>1, <3>3, <3>4
    <3>6. get_file_by_fd(r, r[j].fd) = {r[j].file}
      BY <2>1, <2>2, <3>5, Leads
    <3> QED
      BY <3>1, <3>2, <3>5, <3>6
  <2> QED
    BY <2>2, <2>3 DEF Keeps
<1> QED
  BY <1>1, <1>2, Closed

\* Nothing is held of an empty list.
LEMMA NoneKept == Keeps(<<>>, <<>>)
<1>1. Len(<<>>) = 0 /\ DOMAIN <<>> = {}
  BY EmptySeq, LenProperties
<1> QED
  BY <1>1 DEF Keeps, Distinct

LEMMA KeptSteps ==
  ASSUME VfsIInv, Kept, VfsNext
  PROVE  Kept'
<1>1. /\ DOMAIN vfsFds = Caller /\ DOMAIN vfsHeld = Caller
      /\ \A c \in Caller : Listed(vfsFds[c], c) /\ Keeps(vfsFds[c], vfsHeld[c])
  BY DEF VfsIInv, Descriptors, Kept
<1>2. CASE UNCHANGED <<vfsFds, vfsHeld>>
  BY <1>2 DEF Kept
<1>3. ASSUME NEW c \in Caller, NEW r, NEW after, Keeps(r, after),
             vfsFds' = [vfsFds EXCEPT ![c] = r], vfsHeld' = [vfsHeld EXCEPT ![c] = after]
      PROVE  Kept'
  BY <1>1, <1>3 DEF Kept
<1>4. ASSUME NEW c \in Caller, Return(c) PROVE Kept'
  <2>1. PICK q : q = vfsFds[c]
    OBVIOUS
  <2>2. PICK f : f = flCall[c].file
    OBVIOUS
  <2>3. PICK r : r = append_fd_to_process(q, f)
    OBVIOUS
  <2>4. PICK held : held = vfsHeld[c]
    OBVIOUS
  <2>5. PICK after : after = Holding(held, Last(r).fd, f)
    OBVIOUS
  <2>6. f \in FilesOf[c]
    BY <1>4, <2>2 DEF Return, VfsIInv, Calling, IsCall, Outside
  <2>7. Keeps(r, after)
    BY <1>1, <2>1, <2>3, <2>4, <2>5, <2>6, OpenedKeeps
  <2>8. \/ UNCHANGED <<vfsFds, vfsHeld>>
        \/ /\ vfsFds' = [vfsFds EXCEPT ![c] = r]
           /\ vfsHeld' = [vfsHeld EXCEPT ![c] = Holding(held, Last(vfsFds'[c]).fd, f)]
    BY <1>4, <2>1, <2>2, <2>3, <2>4 DEF Return
  <2>9. vfsFds' = [vfsFds EXCEPT ![c] = r] => vfsFds'[c] = r
    BY <1>1
  <2> QED
    BY <1>2, <1>3, <2>5, <2>7, <2>8, <2>9
<1>5. ASSUME NEW c \in Caller, NEW fd \in Fd, fclose(c, fd) PROVE Kept'
  <2>1. PICK q : q = vfsFds[c]
    OBVIOUS
  <2>2. PICK r : r = close_fd(q, fd)
    OBVIOUS
  <2>3. PICK held : held = vfsHeld[c]
    OBVIOUS
  <2>4. PICK after : after = [d \in DOMAIN held \ {fd} |-> held[d]]
    OBVIOUS
  <2>5. Keeps(r, after)
    BY <1>1, <2>1, <2>2, <2>3, <2>4, ClosedKeeps
  <2>6. vfsFds' = [vfsFds EXCEPT ![c] = r] /\ vfsHeld' = [vfsHeld EXCEPT ![c] = after]
    BY <1>5, <2>1, <2>2, <2>3, <2>4 DEF fclose
  <2> QED
    BY <1>3, <2>5, <2>6
<1>6. ASSUME NEW c \in Caller, Terminate(c) PROVE Kept'
  BY <1>3, <1>6, NoneKept DEF Terminate
<1>7. ASSUME NEW c \in Caller, NEW e, NEW f, NEW v, Call(c, e, f, v) PROVE Kept'
  BY <1>2, <1>7 DEF Call
<1>8. ASSUME NEW c \in Caller, acquireLock(c) \/ Driver(c) PROVE Kept'
  BY <1>2, <1>8 DEF acquireLock, Driver
<1>9. CASE Works
  BY <1>2, <1>9 DEF Works
<1>10. ASSUME NEW c \in Caller, NEW f, volOpenFile(c, f) \/ volCreateFile(c, f) PROVE Kept'
  BY <1>7, <1>10 DEF volOpenFile, volCreateFile
<1>11. ASSUME NEW c \in Caller, NEW fd, fread(c, fd) \/ fwrite(c, fd) PROVE Kept'
  BY <1>7, <1>11 DEF fread, fwrite
<1> QED
  BY <1>4, <1>5, <1>6, <1>8, <1>9, <1>10, <1>11 DEF VfsNext

\* A descriptor leads to the file it was returned for until it is closed, and
\* none is in a list twice (append_fd_to_process, get_file_by_fd, close_fd),
\* whichever files are opened and closed, although close_fd does not find the
\* first of several.
THEOREM DescriptorsKept == VfsSpec => []FdsKept
<1>1. VfsInit => Kept
  BY NoneKept DEF VfsInit, Kept
<1>2. VfsIInv /\ Kept /\ [VfsNext]_vfsVars => Kept'
  <2>1. ASSUME Kept, UNCHANGED vfsVars PROVE Kept'
    BY <2>1 DEF vfsVars, Kept
  <2> QED
    BY <2>1, KeptSteps
<1>3. ASSUME VfsIInv, Kept PROVE FdsKept
  <2>1. \A c \in Caller : DOMAIN vfsFds[c] = 1 .. Len(vfsFds[c])
    BY <1>3, LenProperties DEF VfsIInv, Descriptors, Listed
  <2> QED
    BY <1>3, <2>1 DEF FdsKept, Kept, Keeps, Distinct
<1> QED
  BY <1>1, <1>2, <1>3, VfsInvariance, PTL DEF VfsSpec
=============================================================================
