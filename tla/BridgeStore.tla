---------------------------- MODULE BridgeStore ----------------------------
(***************************************************************************)
(* The relay's own firmware update (esp32-bridge/main): the updater every  *)
(* node runs, over a store that translates the boot metadata to and from   *)
(* the otadata of the ESP-IDF bootloader (firmware_store_esp32.cpp), and   *)
(* the relay's loop and reboot command (relay.cpp).                        *)
(*                                                                         *)
(* External, modelled from the calls the store makes: otadata holds two    *)
(* entries, a slot and its state each.  Setting the boot partition         *)
(* verifies the image and writes the entry that is not in force as NEW;    *)
(* marking the application valid rewrites the entry in force; the          *)
(* bootloader, with rollback enabled, turns NEW into PENDING and PENDING   *)
(* into ABORTED, and loads another image when the chosen one is not whole. *)
(***************************************************************************)
EXTENDS Integers, Sequences

CONSTANTS Firmware,     \* images a ground may send the relay
          First,        \* the image flashed over USB
          Genuine,      \* images IDF's verification accepts
          Answering,    \* images that boot and serve the ground
          MaxUpdates, MaxCuts, MaxFlashFaults \* begins, resets, failed flash calls

ASSUME BridgeAssumption ==
    /\ First \in Genuine \cap Answering
    /\ Genuine \subseteq Firmware /\ Answering \subseteq Firmware
    /\ MaxUpdates \in Nat /\ MaxCuts \in Nat /\ MaxFlashFaults \in Nat

VARIABLES
    otadata,   \* external: the entries, the one written last first
    flash,     \* what each slot holds
    runs,      \* the slot this image runs from, or the bootloader ("boot")
    upload,    \* the updater's session and the store's write cursor
    acked,     \* history: the slot the last acknowledged finish staged
    updates, cuts, flashFaults

bridgeVars == <<otadata, flash, runs, upload, acked, updates, cuts, flashFaults>>

OtaSlots == {"A", "B"}
Opposite(s) == IF s = "A" THEN "B" ELSE "A"
Target == Opposite(runs)

(* "junk" has lost its first block, "part" has its head and not its tail.  *)
Blank == [img |-> First, part |-> "empty"]
NoUpload == [open |-> FALSE, erasing |-> FALSE, img |-> First, cursor |-> 0]

Whole(s) == flash[s].part = "whole" /\ flash[s].img \in Genuine
HoldsApplication(s) == flash[s].part \in {"part", "whole"}

BridgeInit ==
    /\ otadata = << >>
    /\ flash = [s \in OtaSlots |-> IF s = "A" THEN [img |-> First, part |-> "whole"] ELSE Blank]
    /\ runs = "A"
    /\ upload = NoUpload
    /\ acked = "none"
    /\ updates = 0 /\ cuts = 0 /\ flashFaults = 0

-----------------------------------------------------------------------------
(* External: otadata. *)
Rejected(e) == e.state \in {"ABORTED", "INVALID"}

(* The position of the entry in force, 0 when there is none.               *)
InForce(d) == IF Len(d) > 0 /\ ~Rejected(d[1]) THEN 1
              ELSE IF Len(d) > 1 /\ ~Rejected(d[2]) THEN 2 ELSE 0

BootPartition(d) == IF InForce(d) = 0 THEN "A" ELSE d[InForce(d)].slot

EntryState(d, s) ==
    IF \E i \in 1 .. Len(d) : d[i].slot = s
    THEN d[CHOOSE i \in 1 .. Len(d) : d[i].slot = s].state ELSE "UNDEFINED"

SetBoot(d, s) == <<[slot |-> s, state |-> "NEW"]>>
                     \o IF InForce(d) = 0 THEN << >> ELSE <<d[InForce(d)]>>

MarkValid(d) == IF InForce(d) = 0 THEN d ELSE [d EXCEPT ![InForce(d)].state = "VALID"]

-----------------------------------------------------------------------------
(* FirmwareStoreEsp32 *)

(* slotStateOf() *)
SlotState(d, s) ==
    LET st == EntryState(d, s)
    IN CASE st = "NEW" -> "STAGED"
         [] st = "PENDING" -> "TESTING"
         [] st = "VALID" -> "VALID"
         [] st \in {"INVALID", "ABORTED"} -> "BAD"
         [] OTHER -> IF s = runs \/ HoldsApplication(s) THEN "VALID" ELSE "EMPTY"

ReadMeta == [active |-> BootPartition(otadata),
             state |-> [s \in OtaSlots |-> SlotState(otadata, s)]]

(* The calls writeMeta() makes, in its order: what becomes of otadata, and *)
(* whether it returned true.  A slot newly staged, and a slot about to be  *)
(* erased that was to boot, end it; IDF refuses to boot what is not whole. *)
Boots(d, s) == IF Whole(s) THEN [done |-> TRUE, data |-> SetBoot(d, s)]
                           ELSE [done |-> FALSE, data |-> d]

\* Mutant: the boot is not handed back from the slot about to be erased.
MutWriteMeta(m) ==
    LET current == ReadMeta
        d == IF current.state[runs] = "TESTING" /\ m.state[runs] = "VALID"
             THEN MarkValid(otadata) ELSE otadata
    IN IF current.state[Target] # "STAGED" /\ m.state[Target] = "STAGED" THEN Boots(d, Target)
       ELSE IF m.active # current.active THEN Boots(d, m.active)
       ELSE [done |-> TRUE, data |-> d]

WriteMeta(m) ==
    LET current == ReadMeta
        d == IF current.state[runs] = "TESTING" /\ m.state[runs] = "VALID"
             THEN MarkValid(otadata) ELSE otadata
    IN IF current.state[Target] # "STAGED" /\ m.state[Target] = "STAGED" THEN Boots(d, Target)
       ELSE IF m.state[Target] = "EMPTY" /\ current.active = Target /\ m.active = Target
            THEN Boots(d, runs)
       ELSE IF m.active # current.active THEN Boots(d, m.active)
       ELSE [done |-> TRUE, data |-> d]

-----------------------------------------------------------------------------
(* The updater's messages over this store; the relay is never armed        *)
(* (RelayOtaGate).  Refusals that change nothing are left to OtaBoard.     *)
Serves == runs \in OtaSlots /\ flash[runs].img \in Answering /\ ~upload.erasing

FlashFault == flashFaults < MaxFlashFaults /\ flashFaults' = flashFaults + 1

(* A status request: a trial confirms itself on its first ground contact.  *)
OnStatus ==
    /\ Serves
    /\ LET m == ReadMeta
           confirms == m.state[runs] = "TESTING"
           w == WriteMeta([m EXCEPT !.state[runs] = "VALID", !.active = runs])
       IN otadata' = IF confirms THEN w.data ELSE otadata
    /\ UNCHANGED <<flash, runs, upload, acked, updates, cuts, flashFaults>>

(* A begin: the record first, then the erase, block by block.              *)
OnBegin(img) ==
    /\ Serves /\ updates < MaxUpdates
    /\ updates' = updates + 1
    /\ LET m == ReadMeta
           w == WriteMeta([m EXCEPT !.state[Target] = "EMPTY"])
       IN /\ otadata' = w.data
          /\ upload' = IF w.done THEN [open |-> FALSE, erasing |-> TRUE, img |-> img, cursor |-> 0]
                                 ELSE NoUpload
    /\ acked' = "none"
    /\ UNCHANGED <<flash, runs, cuts, flashFaults>>

(* eraseSlot(): the first block takes the head of the image; the task      *)
(* yields between two blocks.                                              *)
EraseBlock ==
    /\ upload.erasing /\ flash[Target].part # "empty"
    /\ flash' = [flash EXCEPT ![Target].part = IF @ = "junk" THEN "empty" ELSE "junk"]
    /\ UNCHANGED <<otadata, runs, upload, acked, updates, cuts, flashFaults>>

EraseEnds ==
    /\ upload.erasing
    /\ \/ /\ flash[Target].part = "empty"
          /\ upload' = [upload EXCEPT !.open = TRUE, !.erasing = FALSE]
          /\ UNCHANGED flashFaults
       \/ FlashFault /\ upload' = NoUpload
    /\ UNCHANGED <<otadata, flash, runs, acked, updates, cuts>>

(* A chunk in order: the head, then the tail.                              *)
OnChunk ==
    /\ Serves /\ upload.open /\ upload.cursor < 2
    /\ \/ /\ flash' = [flash EXCEPT ![Target] =
                          [img |-> upload.img,
                           part |-> IF upload.cursor = 0 THEN "part" ELSE "whole"]]
          /\ upload' = [upload EXCEPT !.cursor = @ + 1]
          /\ UNCHANGED flashFaults
       \/ FlashFault /\ upload' = NoUpload /\ UNCHANGED flash
    /\ UNCHANGED <<otadata, runs, acked, updates, cuts>>

(* A finish: imageValid() is IDF's verification; staging sets the boot     *)
(* partition, and a record that cannot be written keeps the session open.  *)
OnFinish ==
    /\ Serves /\ upload.open /\ upload.cursor = 2
    /\ IF Whole(Target)
       THEN LET w == WriteMeta([ReadMeta EXCEPT !.state[Target] = "STAGED"])
            IN /\ otadata' = w.data
               /\ upload' = IF w.done THEN NoUpload ELSE upload
               /\ acked' = IF w.done THEN Target ELSE acked
       ELSE upload' = NoUpload /\ UNCHANGED <<otadata, acked>>
    /\ UNCHANGED <<flash, runs, updates, cuts, flashFaults>>

(* An abort, or the session timeout of the loop's tick().                  *)
SessionDrops ==
    /\ Serves /\ upload.open
    /\ upload' = NoUpload
    /\ UNCHANGED <<otadata, flash, runs, acked, updates, cuts, flashFaults>>

OnRevert ==
    /\ Serves /\ ReadMeta.state[Target] = "VALID"
    /\ otadata' = WriteMeta([ReadMeta EXCEPT !.active = Target]).data
    /\ UNCHANGED <<flash, runs, upload, acked, updates, cuts, flashFaults>>

(* esp_restart() on the Reboot command, a crash or a power cut.            *)
Restart ==
    /\ cuts < MaxCuts /\ runs # "boot"
    /\ cuts' = cuts + 1
    /\ runs' = "boot" /\ upload' = NoUpload /\ acked' = "none"
    /\ UNCHANGED <<otadata, flash, updates, flashFaults>>

(* External: the bootloader.  A trial that did not confirm itself is       *)
(* aborted, a staged slot becomes the trial, and the other slot is loaded  *)
(* when the chosen one is not whole.                                       *)
Boot(d) ==
    LET aged == [i \in 1 .. Len(d) |->
                     IF d[i].state = "PENDING" THEN [d[i] EXCEPT !.state = "ABORTED"] ELSE d[i]]
        s == BootPartition(aged)
    IN [data |-> IF InForce(aged) > 0 /\ aged[InForce(aged)].state = "NEW"
                 THEN [aged EXCEPT ![InForce(aged)].state = "PENDING"] ELSE aged,
        slot |-> IF Whole(s) THEN s ELSE Opposite(s)]

(* The bootloader, and init() binding the store to what runs.              *)
Bootloader ==
    /\ runs = "boot" /\ Whole(Boot(otadata).slot)
    /\ otadata' = Boot(otadata).data
    /\ runs' = Boot(otadata).slot
    /\ UNCHANGED <<flash, upload, acked, updates, cuts, flashFaults>>

BridgeNext ==
    \/ OnStatus \/ EraseBlock \/ EraseEnds \/ OnChunk \/ OnFinish \/ SessionDrops
    \/ OnRevert \/ Restart \/ Bootloader
    \/ \E img \in Firmware : OnBegin(img)

BridgeSpec == BridgeInit /\ [][BridgeNext]_bridgeVars

-----------------------------------------------------------------------------
(* While a slot is erased and rewritten, the boot partition holds a whole  *)
(* image, whatever was staged or reverted to before the begin: a reset     *)
(* during the transfer does not depend on the bootloader's fallback        *)
(* (firmware_store_esp32.cpp, writeMeta handing the boot back).            *)
BootIsWhole == (upload.erasing \/ upload.open) => Whole(BootPartition(otadata))

(* A finish acknowledged to the ground makes the slot it verified the next *)
(* boot (firmware_store_esp32.cpp: the other slot was just verified and    *)
(* staged: it is the next boot).                                           *)
StagedBootsNext == acked \in OtaSlots => BootPartition(otadata) = acked

(* The inductive invariant.  The relay runs from a whole image; until the  *)
(* last chunk is written the slot being rewritten is not whole, and it is  *)
(* not the one that boots.                                                 *)
Entries == [slot : OtaSlots, state : {"NEW", "PENDING", "VALID", "ABORTED", "INVALID"}]

BridgeTypeOK ==
    /\ otadata \in Seq(Entries)
    /\ flash \in [OtaSlots -> [img : Firmware, part : {"empty", "junk", "part", "whole"}]]
    /\ runs \in OtaSlots \cup {"boot"}
    /\ upload \in [open : BOOLEAN, erasing : BOOLEAN, img : Firmware, cursor : 0 .. 2]

RunsWhole == runs \in OtaSlots => Whole(runs)

UploadIsRewriting ==
    /\ runs = "boot" => ~upload.open /\ ~upload.erasing
    /\ upload.erasing => ~upload.open /\ upload.cursor = 0
    /\ upload.open => flash[Target].part =
                         IF upload.cursor = 0 THEN "empty"
                         ELSE IF upload.cursor = 1 THEN "part" ELSE "whole"

Rewriting == upload.erasing \/ (upload.open /\ upload.cursor < 2)
RewrittenDoesNotBoot == Rewriting => BootPartition(otadata) = runs

BridgeInv ==
    BridgeTypeOK /\ RunsWhole /\ UploadIsRewriting /\ RewrittenDoesNotBoot /\ BootIsWhole
=============================================================================
