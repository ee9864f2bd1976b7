---------------------------- MODULE ConfigStore ----------------------------
(***************************************************************************)
(* The A/B flash record of storage.rs: two sectors, each blank or holding  *)
(* a header (sequence number, request-tag seed, length and CRC) and a      *)
(* document.  A save erases the inactive sector and programs it page by    *)
(* page in ascending order; the header lies in the first page, so a save   *)
(* cut short leaves the sector as it was, blank, or with a header whose    *)
(* document fails its CRC.                                                 *)
(***************************************************************************)
EXTENDS Naturals

CONSTANTS
    Docs,      \* validated provisioning documents
    NoDoc,     \* no document can be read
    Blank,     \* read_slot_header returns None
    NoCall,    \* no save is under way
    Half,      \* half the range of the u32 sequence number
    TagMax,    \* u32::MAX: the seed word that reads as None
    Callers    \* who may save

SeqMod == 2 * Half

ASSUME StoreAssumption ==
    /\ NoDoc \notin Docs
    /\ Half \in Nat \ {0, 1}
    /\ TagMax \in Nat

Sector == {"A", "B"}
Seq == 0 .. SeqMod - 1
Seed == 0 .. TagMax
NoSeed == TagMax

Record == [seq : Seq, seed : Seed, doc : Docs, whole : BOOLEAN]
Stage == {"erase", "header", "payload", "verify"}
Save == [by : Callers, stage : Stage, target : Sector, record : Record]

ASSUME SentinelAssumption == Blank \notin Record /\ NoCall \notin Save

VARIABLES
    slot,  \* the two sectors
    call   \* save_config_bytes_with_request_tag_seed under way

storeVars == <<slot, call>>

-----------------------------------------------------------------------------
\* wrapping_add(1) and wrapping_sub on sequence numbers
NextSeq(n) == IF n + 1 = SeqMod THEN 0 ELSE n + 1
SeqMinus(m, n) == IF m >= n THEN m - n ELSE m + SeqMod - n

Other(s) == IF s = "A" THEN "B" ELSE "A"
Written(s) == slot[s] # Blank

\* Changed: the sequence numbers are compared as they are.
NewestSectorUnwrapped ==
    IF Written("A") /\ Written("B")
    THEN IF slot["B"].seq >= slot["A"].seq THEN "B" ELSE "A"
    ELSE IF Written("B") THEN "B" ELSE "A"

\* load_newest_slot: the header alone decides which sector is active.
NewestSector ==
    IF Written("A") /\ Written("B")
    THEN IF SeqMinus(slot["B"].seq, slot["A"].seq) < Half THEN "B" ELSE "A"
    ELSE IF Written("B") THEN "B" ELSE "A"

Newest == slot[NewestSector]

\* load_config_document: the active sector's document, if its CRC matches.
Readable == IF Newest # Blank /\ Newest.whole THEN Newest.doc ELSE NoDoc

\* load_request_tag_seed
StoredSeed == IF Newest = Blank THEN NoSeed ELSE Newest.seed

-----------------------------------------------------------------------------
SaveTarget == Other(NewestSector)

\* Changed: the sequence number is not advanced.
SaveSeqKept == IF Newest = Blank THEN 1 ELSE Newest.seq
SaveSeq == IF Newest = Blank THEN 1 ELSE NextSeq(Newest.seq)

\* save_config_bytes_with_request_tag_seed up to the first flash command
BeginSave(who, doc, seed) ==
    /\ call = NoCall
    /\ call' = [by |-> who, stage |-> "erase", target |-> SaveTarget,
                record |-> [seq |-> SaveSeq, seed |-> seed, doc |-> doc,
                            whole |-> TRUE]]
    /\ UNCHANGED slot

Saving(stage) == call # NoCall /\ call.stage = stage
Enter(stage) == call' = [call EXCEPT !.stage = stage]

\* esp_rom_spiflash_erase_sector
EraseSector ==
    /\ Saving("erase")
    /\ slot' = [slot EXCEPT ![call.target] = Blank]
    /\ Enter("header")

\* esp_rom_spiflash_write reaches the end of the first page: the header reads
\* back, the document does not yet.
ProgramHeader ==
    /\ Saving("header")
    /\ slot' = [slot EXCEPT ![call.target] = [call.record EXCEPT !.whole = FALSE]]
    /\ Enter("payload")

\* The write completes; the flash may have taken the document or not.
ProgramPayload ==
    /\ Saving("payload")
    /\ \E whole \in BOOLEAN :
           slot' = [slot EXCEPT ![call.target].whole = whole]
    /\ Enter("verify")

WriteSlot == EraseSector \/ ProgramHeader \/ ProgramPayload

\* Changed: only the header is read back.
VerifiedHeader == Saving("verify") /\ Written(call.target)

\* The sequence number and the document read back as written; the seed is not
\* compared.
Verified ==
    /\ Saving("verify")
    /\ Written(call.target)
    /\ slot[call.target].seq = call.record.seq
    /\ slot[call.target].whole
    /\ slot[call.target].doc = call.record.doc

StoreInit ==
    /\ call = NoCall
    /\ slot \in [Sector -> {Blank} \cup Record]
    /\ slot["A"] = Blank
    /\ Written("B") => slot["B"].seq = 1 /\ slot["B"].seed = NoSeed

StoreTypeOK ==
    /\ slot \in [Sector -> {Blank} \cup Record]
    /\ call \in {NoCall} \cup Save

\* The headers of the two sectors are one apart, so that which is newer is
\* never in doubt, also after wrapping and after an interrupted save.
SectorsOneApart ==
    Written("A") /\ Written("B") =>
        \/ slot["B"].seq = NextSeq(slot["A"].seq)
        \/ slot["A"].seq = NextSeq(slot["B"].seq)
=============================================================================
