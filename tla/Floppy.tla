------------------------------- MODULE Floppy -------------------------------
(***************************************************************************)
(* The floppy driver (drivers/floppy.c) and the controller it talks to.    *)
(*                                                                         *)
(* Reading or writing a sector is a conversation: the motor is turned on,  *)
(* the head is moved, the transfer is started, and after each command the  *)
(* driver waits for the interrupt and reads the result.  One flag tells    *)
(* that the interrupt came, and one buffer holds the sector.  A caller may *)
(* lose the processor between any two steps.  The parameter registers of   *)
(* a command are sent in one step.                                         *)
(*                                                                         *)
(* A caller of the driver reads a sector, or reads it, changes it in the   *)
(* buffer and writes it back, as fat12fsys_rw does.  flText (what calls    *)
(* have written) and flMixed (two calls have been in the driver at once)   *)
(* are not in the code.                                                    *)
(***************************************************************************)
EXTENDS Integers, FiniteSets, Sequences, SequencesExt, TLC

CONSTANTS
    Caller,              \* threads
    Lba,                 \* sectors of the disk, 0 .. n
    SectorsPerTrack,
    SeekTries,           \* 10
    TransferTries,       \* 20
    Written              \* what calls write; a sector holds its number at first

ASSUME FloppyAssumption ==
    /\ SectorsPerTrack \in Nat \ {0}
    /\ SeekTries \in Nat \ {0} /\ TransferTries \in Nat \ {0}
    /\ Lba \subseteq Nat /\ 0 \in Lba /\ Written \cap Lba = {}

VARIABLES
    flpydsk_irq_finished,
    floppy_dmabuf,
    flMotor,
    flFdc,           \* the controller: [busy, track, chs, dir, ok]
    flDisk,
    flCall,          \* [Caller -> how far its call has come]
    flText, flMixed

flVars == <<flpydsk_irq_finished, floppy_dmabuf, flMotor, flFdc, flDisk, flCall,
            flText, flMixed>>

Junk    == -1              \* what is at address 0
NotKnown == -2             \* a failed call has written the sector
Outside == [at |-> "outside"]
InDriver == {"motor", "seek", "seeking", "transfer", "transferring", "stop", "back"}

\* Mutant: the head is looked for among the sectors.
flpydsk_lba_to_chsOneSided(lba) ==
    [head   |-> lba % SectorsPerTrack,
     track  |-> lba \div (SectorsPerTrack * 2),
     sector |-> (lba % SectorsPerTrack) + 1]

flpydsk_lba_to_chs(lba) ==
    [head   |-> (lba % (SectorsPerTrack * 2)) \div SectorsPerTrack,
     track  |-> lba \div (SectorsPerTrack * 2),
     sector |-> (lba % SectorsPerTrack) + 1]

Chs(c) == flpydsk_lba_to_chs(flCall[c].lba)

FlInit ==
    /\ flpydsk_irq_finished = FALSE
    /\ floppy_dmabuf = 0                     \* mounting has read the boot sector
    /\ flMotor = FALSE
    /\ flFdc = [busy |-> "no", track |-> 0]
    /\ flDisk = [l \in Lba |-> l]
    /\ flCall = [c \in Caller |-> Outside]
    /\ flText = [l \in Lba |-> l]
    /\ flMixed = FALSE

(* flpydsk_read_sector or flpydsk_write_sector is called.                  *)
Asks(c, dir) ==
    [flCall[c] EXCEPT !.at = "motor", !.dir = dir, !.tries = 0]

FlMotorOn(c) ==
    /\ flCall[c].at = "motor"
    /\ flMotor' = TRUE
    /\ flCall' = [flCall EXCEPT ![c].at = "seek"]
    /\ UNCHANGED <<flpydsk_irq_finished, floppy_dmabuf, flFdc, flDisk, flText, flMixed>>

FlSeek(c) ==
    /\ flCall[c].at = "seek" /\ flFdc.busy = "no"
    /\ flFdc' = [busy |-> "seek", track |-> Chs(c).track]
    /\ flCall' = [flCall EXCEPT ![c].at = "seeking"]
    /\ UNCHANGED <<flpydsk_irq_finished, floppy_dmabuf, flMotor, flDisk, flText, flMixed>>

flpydsk_wait_irq == flpydsk_irq_finished /\ flpydsk_irq_finished' = FALSE

(* The interrupt has come: the flag is taken back and the result read.     *)
(* After the last try read_sector returns 0 and leaves the motor on;       *)
(* write_sector returns.  A write copies its data into the buffer, from    *)
(* the buffer itself or from address 0, where a failed read has led it.    *)
FlSeekResult(c) ==
    LET moved == flFdc.busy = "result" /\ flFdc.ok /\ flFdc.track = Chs(c).track
        tries == flCall[c].tries + 1
    IN  /\ flCall[c].at = "seeking" /\ flpydsk_wait_irq
        /\ flFdc' = [busy |-> "no", track |-> flFdc.track]
        /\ flCall' = [flCall EXCEPT ![c] =
             IF moved THEN [@ EXCEPT !.at = "transfer", !.tries = 0]
             ELSE IF tries < SeekTries THEN [@ EXCEPT !.at = "seek", !.tries = tries]
             ELSE [@ EXCEPT !.at = "back", !.failed = TRUE,
                            !.buffer = flCall[c].buffer /\ flCall[c].dir # "read"]]
        /\ floppy_dmabuf' = IF moved /\ flCall[c].dir = "write" /\ ~flCall[c].buffer
                            THEN Junk ELSE floppy_dmabuf
    /\ UNCHANGED <<flMotor, flDisk, flText, flMixed>>

FlTransfer(c) ==
    /\ flCall[c].at = "transfer" /\ flFdc.busy = "no"
    /\ flFdc' = [busy |-> "transfer", track |-> flFdc.track,
                 chs |-> Chs(c), dir |-> flCall[c].dir]
    /\ flCall' = [flCall EXCEPT ![c].at = "transferring"]
    /\ UNCHANGED <<flpydsk_irq_finished, floppy_dmabuf, flMotor, flDisk, flText, flMixed>>

(* After an error the transfer is started again; after the last one        *)
(* flpydsk_rw_sector ends without a value, and nobody looks.  A disk that  *)
(* cannot be written ends it at once.                                      *)
FlTransferResult(c) ==
    LET ok    == flFdc.busy = "result" /\ flFdc.ok
        tries == flCall[c].tries + 1
        more  == tries < TransferTries
    IN  /\ flCall[c].at = "transferring" /\ flpydsk_wait_irq
        /\ flFdc' = [busy |-> "no", track |-> flFdc.track]
        /\ \E protected \in (IF ok \/ flCall[c].dir = "read" THEN {FALSE} ELSE BOOLEAN) :
             flCall' = [flCall EXCEPT ![c] =
               IF ok THEN [@ EXCEPT !.at = "stop"]
               ELSE IF more /\ ~protected THEN [@ EXCEPT !.at = "transfer", !.tries = tries]
               ELSE [@ EXCEPT !.at = "stop", !.failed = TRUE]]
    /\ UNCHANGED <<floppy_dmabuf, flMotor, flDisk, flText, flMixed>>

FlMotorOff(c) ==
    /\ flCall[c].at = "stop"
    /\ flMotor' = FALSE
    /\ flCall' = [flCall EXCEPT ![c].at = "back"]
    /\ UNCHANGED <<flpydsk_irq_finished, floppy_dmabuf, flFdc, flDisk, flText, flMixed>>

(* The file system changes the sector where it is, in the buffer, and      *)
(* writes it.                                                              *)
FlModify(c) ==
    /\ flCall[c].at = "back" /\ flCall[c].dir = "read" /\ flCall[c].value # NotKnown
    /\ floppy_dmabuf' = IF flCall[c].buffer THEN flCall[c].value ELSE floppy_dmabuf
    /\ flCall' = [flCall EXCEPT ![c] = Asks(c, "write")]
    /\ UNCHANGED <<flpydsk_irq_finished, flMotor, flFdc, flDisk, flText, flMixed>>

(***************************************************************************)
(* The controller and the interrupt                                        *)
(***************************************************************************)
flpydsk_handler == flpydsk_irq_finished' = TRUE

FdcSeeks ==
    /\ flFdc.busy = "seek"
    /\ \E ok \in BOOLEAN :
         flFdc' = [busy |-> "result", ok |-> ok, track |-> flFdc.track]
    /\ flpydsk_handler
    /\ UNCHANGED <<floppy_dmabuf, flMotor, flDisk, flCall, flText, flMixed>>

\* It works on the sector under the head, if the motor turns.
FdcTransfers ==
    /\ flFdc.busy = "transfer"
    /\ LET here(l) == LET k == flFdc.chs
                      IN  l = (k.track * 2 + k.head) * SectorsPerTrack + k.sector - 1
       IN  \E ok \in (IF flMotor /\ flFdc.track = flFdc.chs.track THEN BOOLEAN ELSE {FALSE}) :
             /\ flFdc' = [busy |-> "result", ok |-> ok, track |-> flFdc.track]
             /\ floppy_dmabuf' = IF ok /\ flFdc.dir = "read"
                                 THEN CHOOSE v \in {flDisk[l] : l \in {x \in Lba : here(x)}} : TRUE
                                 ELSE floppy_dmabuf
             /\ flDisk' = [l \in Lba |-> IF ok /\ flFdc.dir = "write" /\ here(l)
                                         THEN floppy_dmabuf ELSE flDisk[l]]
    /\ flpydsk_handler
    /\ UNCHANGED <<flMotor, flCall, flText, flMixed>>

FlStep(c) == \/ FlMotorOn(c) \/ FlSeek(c) \/ FlSeekResult(c) \/ FlTransfer(c)
             \/ FlTransferResult(c) \/ FlMotorOff(c) \/ FlModify(c)
Controller == FdcSeeks \/ FdcTransfers
=============================================================================
