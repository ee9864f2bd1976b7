------------------------- MODULE GatewayBootProofs -------------------------
(***************************************************************************)
(* Proofs about the flash record and the boot, for all documents, sequence *)
(* ranges and reservation sizes, and any pattern of power failures and     *)
(* flash errors.                                                           *)
(***************************************************************************)
EXTENDS GatewayBoot, TLAPS

\* Where an unfinished save stands: before its first page is written the
\* target is the inactive sector, afterwards it is the active one.
CallInv ==
    call # NoCall =>
        /\ call.record.whole = TRUE
        /\ call.stage \in {"erase", "header"} =>
              /\ call.target = Other(NewestSector)
              /\ call.record.seq = SaveSeq
        /\ call.stage \in {"payload", "verify"} =>
              /\ call.target = NewestSector
              /\ Written(call.target)
              /\ slot[call.target].seed = call.record.seed
              /\ slot[call.target].doc = call.record.doc

StoreInv == StoreTypeOK /\ SectorsOneApart /\ CallInv

\* Reservations start TagBase + k * Reserve, so a seed is never u32::MAX.
OnGrid(seed) == seed = NoSeed \/ \E k \in 0 .. TagMax : seed = TagBase + k * Reserve

GridInv ==
    /\ \A s \in Sector : Written(s) => OnGrid(slot[s].seed)
    /\ call # NoCall => OnGrid(call.record.seed)

PhaseInv ==
    /\ call # NoCall =>
          /\ call.by = "provision" => phase = "provision"
          /\ call.by = "update" => phase = "window"
          /\ call.by = "reserve" => phase = "tags"
    /\ reserved => phase = "serving"
    /\ phase # "serving" => uses = 0

Below(tags, seed) == seed # NoSeed /\ \A t \in tags : t < seed

TagInv ==
    /\ issued # {} => Below(issued, StoredSeed)
    /\ call # NoCall /\ ~unread /\ issued # {} => Below(issued, call.record.seed)
    /\ unread =>
          /\ call # NoCall /\ call.by # "reserve"
          /\ call.stage \in {"payload", "verify"} => issued = {}
    /\ call # NoCall /\ call.by = "reserve" =>
          /\ call.record.seed = nextTag + Reserve
          /\ call.record.seed # NoSeed
          /\ \A t \in issued : t < nextTag
    /\ reserved =>
          /\ StoredSeed # NoSeed
          /\ StoredSeed + uses = nextTag + Reserve
          /\ \A t \in issued : t < nextTag

DocInv ==
    /\ call # NoCall => call.record.doc \in trying
    /\ AckedSurvives
    /\ NeverRollsBack

BootInv == BootTypeOK /\ StoreInv /\ GridInv /\ PhaseInv /\ TagInv /\ DocInv

\* The boots the tag theorems are about: none takes more tags than it reserved.
WithinReservation == uses <= Reserve

-----------------------------------------------------------------------------
\* Sequence arithmetic: the successor is newer, and only the successor.
LEMMA SeqSuccessor ==
    ASSUME NEW n \in Seq
    PROVE  /\ NextSeq(n) \in Seq
           /\ NextSeq(n) # n
           /\ SeqMinus(NextSeq(n), n) < Half
           /\ ~(SeqMinus(n, NextSeq(n)) < Half)
BY StoreAssumption DEF Seq, SeqMod, NextSeq, SeqMinus

\* The save's target is the sector that is not active.
LEMMA SectorsTwo == \A s \in Sector : Other(s) \in Sector /\ Other(s) # s
BY DEF Sector, Other

\* One of the two sectors is active, also while both are blank.
LEMMA NewestType == NewestSector \in Sector
BY DEF NewestSector, Sector

\* A sector that holds a header holds a record.
LEMMA WrittenType ==
    ASSUME StoreTypeOK, NEW s \in Sector, Written(s)
    PROVE  /\ slot[s] \in Record
           /\ slot[s].seq \in Seq /\ slot[s].seed \in Seed
           /\ slot[s].doc \in Docs /\ slot[s].whole \in BOOLEAN
BY DEF StoreTypeOK, Written, Record

\* If any sector holds a header, the active one does.
LEMMA NewestWritten ==
    ASSUME NEW s \in Sector, Written(s)
    PROVE  Written(NewestSector)
BY DEF NewestSector, Sector

\* While no save is under way, or only its target has been erased, a save
\* would write a sequence number that follows the active sector's.
LEMMA SaveSeqType ==
    ASSUME StoreTypeOK
    PROVE  SaveSeq \in Seq
<1>1. CASE Newest = Blank
  BY <1>1, StoreAssumption DEF SaveSeq, Seq, SeqMod
<1>2. CASE Newest # Blank
  <2>1. Newest.seq \in Seq
    BY <1>2, NewestType, WrittenType DEF Newest, Written
  <2> QED
    BY <1>2, <2>1, SeqSuccessor DEF SaveSeq
<1> QED
  BY <1>1, <1>2

\* Erasing the inactive sector leaves the active one active.
LEMMA EraseKeepsNewest ==
    ASSUME StoreTypeOK, slot' = [slot EXCEPT ![Other(NewestSector)] = Blank]
    PROVE  NewestSector' = NewestSector /\ slot'[NewestSector] = slot[NewestSector]
<1>1. CASE NewestSector = "A"
  BY <1>1 DEF StoreTypeOK, NewestSector, Other, Written, Sector
<1>2. CASE NewestSector = "B"
  BY <1>2 DEF StoreTypeOK, NewestSector, Other, Written, Sector
<1> QED
  BY <1>1, <1>2, NewestType DEF Sector

\* A header with the next sequence number makes its sector the active one, and
\* the two sectors stay one apart.
LEMMA HeaderBecomesNewest ==
    ASSUME StoreTypeOK, NEW rec \in Record, rec.seq = SaveSeq,
           slot' = [slot EXCEPT ![Other(NewestSector)] = rec]
    PROVE  /\ NewestSector' = Other(NewestSector)
           /\ slot'[Other(NewestSector)] = rec
           /\ SectorsOneApart'
<1> DEFINE n == NewestSector
           t == Other(NewestSector)
<1>1. n \in Sector /\ t \in Sector /\ t # n
  BY NewestType, SectorsTwo
<1>2. slot'[t] = rec /\ slot'[n] = slot[n]
  BY <1>1 DEF StoreTypeOK
<1>3. rec # Blank
  BY SentinelAssumption
<1>4. CASE slot[n] = Blank
  BY <1>1, <1>2, <1>3, <1>4
  DEF NewestSector, Written, Sector, Other, SectorsOneApart
<1>5. CASE slot[n] # Blank
  <2>1. slot[n].seq \in Seq /\ rec.seq = NextSeq(slot[n].seq)
    BY <1>1, <1>5, WrittenType DEF SaveSeq, Newest, Written
  <2>2. /\ SeqMinus(rec.seq, slot[n].seq) < Half
        /\ ~(SeqMinus(slot[n].seq, rec.seq) < Half)
    BY <2>1, SeqSuccessor
  <2>3. CASE n = "A"
    <3>1. t = "B"
      BY <2>3 DEF Other
    <3> HIDE DEF n, t
    <3> QED
      BY <1>2, <1>3, <1>5, <2>1, <2>2, <2>3, <3>1
      DEF NewestSector, Written, SectorsOneApart, t
  <2>4. CASE n = "B"
    <3>1. t = "A"
      BY <2>4 DEF Other
    <3> HIDE DEF n, t
    <3> QED
      BY <1>2, <1>3, <1>5, <2>1, <2>2, <2>4, <3>1
      DEF NewestSector, Written, SectorsOneApart, t
  <2> QED
    BY <1>1, <2>3, <2>4 DEF Sector
<1> QED
  BY <1>4, <1>5

-----------------------------------------------------------------------------
\* The steps of a save: each keeps StoreInv, and says what a boot would read.

\* A save that has only begun has touched no sector.
LEMMA BeginStep ==
    ASSUME StoreInv, NEW who \in Callers, NEW doc \in Docs, NEW seed \in Seed,
           BeginSave(who, doc, seed)
    PROVE  StoreInv' /\ call' # NoCall
<1> DEFINE rec == [seq |-> SaveSeq, seed |-> seed, doc |-> doc, whole |-> TRUE]
<1>1. rec \in Record
  BY SaveSeqType DEF StoreInv, Record
<1>2. SaveTarget \in Sector
  BY NewestType, SectorsTwo DEF SaveTarget
<1>3. call' \in Save
  BY <1>1, <1>2 DEF BeginSave, Save, Stage
<1>4. StoreTypeOK'
  BY <1>3 DEF StoreInv, StoreTypeOK, BeginSave
<1>5. SectorsOneApart'
  BY DEF StoreInv, BeginSave, SectorsOneApart, Written
<1>6. NewestSector' = NewestSector /\ SaveSeq' = SaveSeq
  BY DEF BeginSave, NewestSector, Written, SaveSeq, Newest
<1>7. CallInv'
  BY <1>6 DEF BeginSave, CallInv, SaveTarget
<1> QED
  BY <1>3, <1>4, <1>5, <1>7, SentinelAssumption DEF StoreInv

\* A save may end, with any result and by a power failure, at any stage.
LEMMA DropStep ==
    ASSUME StoreInv, slot' = slot, call' = NoCall
    PROVE  StoreInv'
BY DEF StoreInv, StoreTypeOK, SectorsOneApart, CallInv, Written

\* What an unfinished save consists of.
LEMMA CallType ==
    ASSUME StoreTypeOK, call # NoCall
    PROVE  /\ call \in Save /\ call.by \in Callers /\ call.stage \in Stage
           /\ call.target \in Sector /\ call.record \in Record
           /\ call.record.seed \in Seed /\ call.record.doc \in Docs
BY DEF StoreTypeOK, Save, Record

\* A step of the save changes nothing of the call but its stage.
LEMMA EnterStep ==
    ASSUME StoreTypeOK, call # NoCall, NEW stage \in Stage, Enter(stage)
    PROVE  /\ call' \in Save /\ call' # NoCall /\ call'.stage = stage
           /\ call'.by = call.by /\ call'.target = call.target
           /\ call'.record = call.record
<1>1. call \in Save
  BY CallType
<1>2. /\ call' \in Save /\ call'.stage = stage
      /\ call'.by = call.by /\ call'.target = call.target
      /\ call'.record = call.record
  BY <1>1 DEF Enter, Save
<1> QED
  BY <1>2, SentinelAssumption

\* The erase leaves what a boot would read as it was.
LEMMA EraseStep ==
    ASSUME StoreInv, EraseSector
    PROVE  /\ StoreInv' /\ Newest' = Newest /\ call'.stage = "header"
           /\ call' # NoCall /\ call'.by = call.by /\ call'.record = call.record
<1>1. /\ call # NoCall /\ call.target = Other(NewestSector)
      /\ call.record.seq = SaveSeq /\ call.record.whole = TRUE
  BY DEF StoreInv, EraseSector, Saving, CallInv
<1>2. /\ call' \in Save /\ call' # NoCall /\ call'.stage = "header"
      /\ call'.by = call.by /\ call'.target = call.target
      /\ call'.record = call.record
  BY <1>1, EnterStep DEF StoreInv, EraseSector, Stage
<1>3. slot' = [slot EXCEPT ![Other(NewestSector)] = Blank]
  BY <1>1 DEF EraseSector
<1>4. NewestSector' = NewestSector /\ slot'[NewestSector] = slot[NewestSector]
  BY <1>3, EraseKeepsNewest DEF StoreInv
<1>5. Newest' = Newest /\ SaveSeq' = SaveSeq
  BY <1>4 DEF Newest, SaveSeq
<1>6. StoreTypeOK'
  BY <1>2, <1>3 DEF StoreInv, StoreTypeOK
<1>7. ~Written(call.target)'
  BY <1>1, <1>2, <1>3, CallType DEF StoreInv, StoreTypeOK, Written
<1>8. SectorsOneApart'
  BY <1>1, <1>2, <1>7, CallType DEF StoreInv, SectorsOneApart, Sector
<1>9. CallInv'
  BY <1>1, <1>2, <1>4, <1>5 DEF CallInv, Stage
<1> QED
  BY <1>2, <1>5, <1>6, <1>8, <1>9 DEF StoreInv

\* With its header the save becomes the active record: until the document
\* follows, a boot finds none, but already starts from the new seed.
LEMMA HeaderStep ==
    ASSUME StoreInv, ProgramHeader
    PROVE  /\ StoreInv' /\ Readable' = NoDoc /\ StoredSeed' = call.record.seed
           /\ call'.stage = "payload"
           /\ call' # NoCall /\ call'.by = call.by /\ call'.record = call.record
<1> DEFINE rec == [call.record EXCEPT !.whole = FALSE]
<1>1. /\ call # NoCall /\ call.target = Other(NewestSector)
      /\ call.record.seq = SaveSeq /\ call.record.whole = TRUE
  BY DEF StoreInv, ProgramHeader, Saving, CallInv
<1>2. /\ call' \in Save /\ call' # NoCall /\ call'.stage = "payload"
      /\ call'.by = call.by /\ call'.target = call.target
      /\ call'.record = call.record
  BY <1>1, EnterStep DEF StoreInv, ProgramHeader, Stage
<1>3. /\ rec \in Record /\ rec.seq = SaveSeq /\ rec.whole = FALSE
      /\ rec.seed = call.record.seed /\ rec.doc = call.record.doc
  BY <1>1, CallType DEF StoreInv, Record
<1>4. slot' = [slot EXCEPT ![Other(NewestSector)] = rec]
  BY <1>1 DEF ProgramHeader
<1> HIDE DEF rec
<1>5. /\ NewestSector' = Other(NewestSector)
      /\ slot'[Other(NewestSector)] = rec
      /\ SectorsOneApart'
  BY <1>3, <1>4, HeaderBecomesNewest DEF StoreInv
<1>6. rec # Blank
  BY <1>3, SentinelAssumption
<1>7. Newest' = rec
  BY <1>5 DEF Newest
<1>8. StoreTypeOK'
  BY <1>2, <1>3, <1>4 DEF StoreInv, StoreTypeOK
<1>9. CallInv'
  BY <1>1, <1>2, <1>3, <1>5, <1>6 DEF CallInv, Written
<1>10. Readable' = NoDoc /\ StoredSeed' = call.record.seed
  BY <1>3, <1>6, <1>7 DEF Readable, StoredSeed
<1> QED
  BY <1>2, <1>5, <1>8, <1>9, <1>10 DEF StoreInv

\* Once the document is written, a boot finds it or finds none.
LEMMA PayloadStep ==
    ASSUME StoreInv, ProgramPayload
    PROVE  /\ StoreInv' /\ Readable' \in {call.record.doc, NoDoc}
           /\ StoredSeed' = StoredSeed /\ call'.stage = "verify"
           /\ call' # NoCall /\ call'.by = call.by /\ call'.record = call.record
<1>1. /\ call # NoCall /\ call.target = NewestSector /\ Written(call.target)
      /\ slot[call.target].seed = call.record.seed
      /\ slot[call.target].doc = call.record.doc
      /\ call.record.whole = TRUE
  BY DEF StoreInv, ProgramPayload, Saving, CallInv
<1>2. /\ call' \in Save /\ call' # NoCall /\ call'.stage = "verify"
      /\ call'.by = call.by /\ call'.target = call.target
      /\ call'.record = call.record
  BY <1>1, EnterStep DEF StoreInv, ProgramPayload, Stage
<1>3. PICK whole \in BOOLEAN : slot' = [slot EXCEPT ![call.target].whole = whole]
  BY DEF ProgramPayload
<1> DEFINE rec == [slot[call.target] EXCEPT !.whole = whole]
<1>4. slot' = [slot EXCEPT ![call.target] = rec]
  BY <1>3
<1>5. slot[call.target] \in Record /\ call.target \in Sector
  BY <1>1, WrittenType, CallType DEF StoreInv
<1>6. /\ rec \in Record /\ rec.seq = slot[call.target].seq
      /\ rec.seed = call.record.seed /\ rec.doc = call.record.doc
  BY <1>1, <1>5 DEF Record
<1> HIDE DEF rec
<1>7. rec # Blank
  BY <1>6, SentinelAssumption
<1>8. /\ slot'[call.target] = rec
      /\ \A s \in Sector : Written(s)' = Written(s)
      /\ \A s \in Sector : Written(s) => slot'[s].seq = slot[s].seq
  BY <1>1, <1>4, <1>5, <1>6, <1>7 DEF StoreInv, StoreTypeOK, Written
<1>9. NewestSector' = NewestSector
  BY <1>8 DEF NewestSector, Sector
<1>10. SectorsOneApart'
  BY <1>8 DEF StoreInv, SectorsOneApart, Sector
<1>11. StoreTypeOK'
  BY <1>2, <1>4, <1>6 DEF StoreInv, StoreTypeOK
<1>12. CallInv'
  BY <1>1, <1>2, <1>6, <1>7, <1>8, <1>9 DEF CallInv, Written
<1>13. Newest' = rec /\ Newest # Blank /\ Newest.seed = call.record.seed
  BY <1>1, <1>8, <1>9 DEF Newest, Written
<1>14. Readable' \in {call.record.doc, NoDoc} /\ StoredSeed' = StoredSeed
  BY <1>6, <1>7, <1>13 DEF Readable, StoredSeed
<1> QED
  BY <1>2, <1>10, <1>11, <1>12, <1>14 DEF StoreInv

\* A save that returns Ok is what a boot would read.
LEMMA VerifiedStep ==
    ASSUME StoreInv, Verified
    PROVE  /\ call # NoCall
           /\ Readable = call.record.doc /\ StoredSeed = call.record.seed
<1>1. /\ call # NoCall /\ call.target = NewestSector /\ Written(call.target)
      /\ slot[call.target].seed = call.record.seed
      /\ slot[call.target].doc = call.record.doc /\ slot[call.target].whole
  BY DEF StoreInv, Verified, Saving, CallInv
<1> QED
  BY <1>1 DEF Newest, Readable, StoredSeed, Written

-----------------------------------------------------------------------------
\* What the boot reads from the flash.
LEMMA ReadType ==
    ASSUME StoreTypeOK
    PROVE  /\ Readable \in Docs \cup {NoDoc}
           /\ StoredSeed \in Seed
<1>1. CASE Newest = Blank
  BY <1>1, StoreAssumption DEF Readable, StoredSeed, Seed, NoSeed
<1>2. CASE Newest # Blank
  <2>1. Newest.doc \in Docs /\ Newest.seed \in Seed
    BY <1>2, NewestType, WrittenType DEF Newest, Written
  <2> QED
    BY <1>2, <2>1 DEF Readable, StoredSeed
<1> QED
  BY <1>1, <1>2

\* The first tag of a reservation, and the seed the reservation stores.
LEMMA ReserveType ==
    ASSUME StoreTypeOK
    PROVE  /\ SeedOrBase \in 0 .. TagMax
           /\ CanReserve => SeedOrBase + Reserve \in Seed /\ Readable \in Docs
BY ReadType, BootAssumption, StoreAssumption
DEF SeedOrBase, CanReserve, Seed, NoSeed

\* What set_config carries over is the stored seed, if it can be read.
LEMMA CarriedType ==
    ASSUME StoreTypeOK, NEW read \in BOOLEAN
    PROVE  /\ CarriedSeed(read) \in Seed
           /\ CarriedSeed(read) \in {StoredSeed, NoSeed}
           /\ read => CarriedSeed(read) = StoredSeed
BY ReadType, StoreAssumption DEF CarriedSeed, Seed, NoSeed

\* Readable and StoredSeed depend on the flash alone.
LEMMA SameFlash ==
    ASSUME slot' = slot
    PROVE  Readable' = Readable /\ StoredSeed' = StoredSeed
BY DEF Readable, StoredSeed, Newest, NewestSector, Written

\* Every step is a save's beginning, its progress or its end, or leaves the
\* flash alone.
LEMMA StoreStep == BootTypeOK /\ StoreInv /\ [BootNext]_bootVars => StoreInv'
<1> SUFFICES ASSUME StoreInv, [BootNext]_bootVars PROVE StoreInv'
  OBVIOUS
<1> USE DEF StoreInv
<1>1. ASSUME NEW who \in {"provision", "update"}, NEW doc \in Docs,
             SetConfig(who, doc)
      PROVE  StoreInv'
  BY <1>1, BeginStep, CarriedType, BootAssumption DEF SetConfig
<1>2. CASE BeginReserve
  BY <1>2, BeginStep, ReserveType, BootAssumption DEF BeginReserve
<1>3. CASE FlashStep
  BY <1>3, EraseStep, HeaderStep, PayloadStep DEF FlashStep, WriteSlot
<1>4. CASE slot' = slot /\ call' = NoCall
  BY <1>4, DropStep
<1>5. CASE UNCHANGED <<slot, call>>
  BY <1>5 DEF StoreTypeOK, SectorsOneApart, CallInv, Written, NewestSector,
              SaveSeq, Newest
<1> QED
  BY <1>1, <1>2, <1>3, <1>4, <1>5
  DEF BootNext, LoadConfig, CloseWindow, SkipReserve, SaveOk, SaveFailed,
      TakeTag, Restart, storeVars, bootVars

\* Every step of a boot keeps the types.
LEMMA BootTypeStep == BootTypeOK /\ StoreInv /\ [BootNext]_bootVars => BootTypeOK'
<1> SUFFICES ASSUME BootTypeOK, StoreInv, [BootNext]_bootVars PROVE BootTypeOK'
  OBVIOUS
<1>1. StoreTypeOK'
  BY StoreStep DEF StoreInv
<1>r. FALSE \in BOOLEAN /\ TagBase \in 0 .. TagMax /\ 0 \in 0 .. MaxUse
  BY BootAssumption, StoreAssumption
<1>2. CASE LoadConfig
  BY <1>1, <1>2, ReadType
  DEF LoadConfig, BootTypeOK, Phase
<1>3. CASE CloseWindow
  BY <1>1, <1>3 DEF CloseWindow, BootTypeOK, Phase, ramVars
<1>4. ASSUME NEW who \in {"provision", "update"}, NEW doc \in Docs,
             SetConfig(who, doc)
      PROVE  BootTypeOK'
  <2>1. unread' \in BOOLEAN
    BY <1>4, Zenon DEF SetConfig
  <2> QED
    BY <1>1, <1>4, <2>1 DEF SetConfig, BeginSave, BootTypeOK, ramVars
<1>5. CASE BeginReserve
  BY <1>1, <1>5, ReserveType DEF BeginReserve, BootTypeOK
<1>6. CASE SkipReserve
  <2>1. /\ nextTag' = TagBase /\ reserved' = FALSE /\ phase' = "serving"
        /\ UNCHANGED <<config, uses, issued, unread, acked, trying>>
    BY <1>6 DEF SkipReserve, ServeUnreserved
  <2> QED
    BY <1>1, <1>r, <2>1, Zenon DEF BootTypeOK, Phase
<1>7. CASE FlashStep
  <2>1. issued' \subseteq 0 .. TagMax
    BY <1>7 DEF FlashStep, BootTypeOK
  <2> QED
    BY <1>1, <1>7, <2>1 DEF FlashStep, BootTypeOK, ramVars
<1>8. CASE SaveOk
  <2>1. call.record.doc \in Docs
    BY <1>8, VerifiedStep, CallType DEF SaveOk, StoreInv
  <2>2. acked' \in Docs \cup {NoDoc} /\ trying' \subseteq Docs /\ issued' = issued
    BY <1>8, <2>1 DEF SaveOk
  <2>3. /\ config' \in Docs \cup {NoDoc} /\ nextTag' \in 0 .. TagMax
        /\ uses' \in 0 .. MaxUse /\ phase' \in Phase
    BY <1>8, <1>r, <2>1 DEF SaveOk, BootTypeOK, Phase
  <2>4. reserved' \in BOOLEAN /\ unread' \in BOOLEAN
    BY <1>8, Zenon DEF SaveOk, BootTypeOK
  <2> QED
    BY <1>1, <2>2, <2>3, <2>4 DEF BootTypeOK
<1>9. CASE SaveFailed
  <2>1. \/ nextTag' = nextTag /\ reserved' = reserved /\ phase' = phase
        \/ nextTag' = TagBase /\ reserved' = FALSE /\ phase' = "serving"
    BY <1>9 DEF SaveFailed, ServeUnreserved
  <2>2. UNCHANGED <<config, uses, issued, acked, trying>> /\ unread' = FALSE
    BY <1>9 DEF SaveFailed
  <2> QED
    BY <1>1, <1>r, <2>1, <2>2, Zenon DEF BootTypeOK, Phase
<1>10. CASE TakeTag
  <2>1. nextTag' \in 0 .. TagMax /\ uses' \in 0 .. MaxUse
    <3>1. nextTag \in 0 .. TagMax /\ uses \in 0 .. MaxUse
      BY DEF BootTypeOK
    <3>2. uses < MaxUse /\ uses' = uses + 1
      BY <1>10 DEF TakeTag
    <3>3. nextTag' = IF nextTag = TagMax THEN TagBase ELSE nextTag + 1
      BY <1>10 DEF TakeTag
    <3> QED
      BY <1>r, <3>1, <3>2, <3>3, BootAssumption, StoreAssumption
  <2>2. issued' \subseteq 0 .. TagMax
    BY <1>10 DEF TakeTag, BootTypeOK
  <2>3. UNCHANGED <<phase, config, reserved, unread, acked, trying>>
    BY <1>10 DEF TakeTag
  <2> QED
    BY <1>1, <2>1, <2>2, <2>3 DEF BootTypeOK
<1>11. CASE Restart
  BY <1>1, <1>r, <1>11, Zenon DEF Restart, BootTypeOK, Phase
<1>12. CASE UNCHANGED bootVars
  BY <1>1, <1>12 DEF bootVars, ramVars, BootTypeOK
<1> QED
  BY <1>2, <1>3, <1>4, <1>5, <1>6, <1>7, <1>8, <1>9, <1>10, <1>11, <1>12
  DEF BootNext

\* A save belongs to the phase that began it; tags are taken only while serving.
LEMMA PhaseStep == BootTypeOK /\ StoreInv /\ PhaseInv /\ [BootNext]_bootVars => PhaseInv'
<1> SUFFICES ASSUME BootTypeOK, StoreInv, PhaseInv, [BootNext]_bootVars
             PROVE  PhaseInv'
  OBVIOUS
<1>1. ASSUME NEW who \in {"provision", "update"}, NEW doc \in Docs,
             SetConfig(who, doc)
      PROVE  PhaseInv'
  BY <1>1 DEF SetConfig, BeginSave, PhaseInv, ramVars
<1>2. CASE BeginReserve
  BY <1>2 DEF BeginReserve, BeginSave, PhaseInv
<1>3. CASE FlashStep
  <2>1. call # NoCall /\ call' # NoCall /\ call'.by = call.by
    BY <1>3, EraseStep, HeaderStep, PayloadStep
    DEF FlashStep, WriteSlot, EraseSector, ProgramHeader, ProgramPayload, Saving
  <2> QED
    BY <1>3, <2>1 DEF FlashStep, PhaseInv, ramVars
<1>5. CASE LoadConfig \/ CloseWindow
  BY <1>5 DEF LoadConfig, CloseWindow, PhaseInv, storeVars, ramVars
<1>6. CASE SkipReserve
  BY <1>6 DEF SkipReserve, ServeUnreserved, storeVars, PhaseInv
<1>7. CASE SaveOk
  BY <1>7, VerifiedStep DEF SaveOk, PhaseInv
<1>8. CASE SaveFailed
  BY <1>8 DEF SaveFailed, ServeUnreserved, PhaseInv
<1>9. CASE TakeTag
  BY <1>9 DEF TakeTag, PhaseInv, storeVars
<1>10. CASE Restart
  BY <1>10 DEF Restart, PhaseInv
<1>11. CASE UNCHANGED bootVars
  BY <1>11 DEF bootVars, storeVars, ramVars, PhaseInv
<1> QED
  BY <1>1, <1>2, <1>3, <1>5, <1>6, <1>7, <1>8, <1>9, <1>10, <1>11 DEF BootNext

-----------------------------------------------------------------------------
\* A reservation starts on the grid and ends on it.
LEMMA GridNext ==
    ASSUME NEW seed \in Seed, OnGrid(seed), seed # NoSeed, seed + Reserve <= TagMax
    PROVE  \E k \in 0 .. TagMax : seed + Reserve = TagBase + k * Reserve
<1>1. PICK k \in 0 .. TagMax : seed = TagBase + k * Reserve
  BY DEF OnGrid
<1>2. k \in Nat /\ Reserve \in Nat \ {0} /\ TagBase \in Nat
  BY BootAssumption, StoreAssumption
<1>3. (k + 1) * Reserve = k * Reserve + Reserve
  BY <1>2
<1>4. \A a \in Nat, b \in Nat \ {0} : a * b \in Nat /\ a <= a * b
  <2> SUFFICES ASSUME NEW a \in Nat, NEW b \in Nat \ {0}
               PROVE  a * b \in Nat /\ a <= a * b
    OBVIOUS
  <2>1. b - 1 \in Nat /\ a * (b - 1) \in Nat /\ a * b = a * (b - 1) + a
    BY SMT
  <2> QED
    BY <2>1
<1>5. k + 1 <= (k + 1) * Reserve
  BY <1>2, <1>4
<1>6. (k + 1) * Reserve \in Nat /\ k * Reserve \in Nat
  BY <1>2, <1>4
<1>7. k + 1 \in 0 .. TagMax
  BY <1>1, <1>2, <1>3, <1>5, <1>6, StoreAssumption
<1>8. seed + Reserve = TagBase + (k + 1) * Reserve
  BY <1>1, <1>2, <1>3, <1>6
<1> QED
  BY <1>7, <1>8

\* The seed a reservation stores is on the grid and is not the None word.
LEMMA ReserveOnGrid ==
    ASSUME StoreTypeOK, GridInv, CanReserve
    PROVE  OnGrid(SeedOrBase + Reserve) /\ SeedOrBase + Reserve # NoSeed
<1>1. OnGrid(TagBase) /\ TagBase # NoSeed
  <2>1. 0 \in 0 .. TagMax /\ TagBase = TagBase + 0 * Reserve
    BY BootAssumption, StoreAssumption
  <2> QED
    BY <2>1, BootAssumption, StoreAssumption DEF OnGrid, NoSeed
<1>2. OnGrid(SeedOrBase) /\ SeedOrBase # NoSeed
  BY <1>1, NewestType DEF SeedOrBase, StoredSeed, GridInv, Newest, Written
<1>3. SeedOrBase \in Seed /\ SeedOrBase + Reserve <= TagMax
  BY ReserveType DEF CanReserve, Seed
<1>4. \E k \in 0 .. TagMax : SeedOrBase + Reserve = TagBase + k * Reserve
  BY <1>2, <1>3, GridNext
<1> QED
  BY <1>4, BootAssumption DEF OnGrid, NoSeed

\* Every step leaves only seeds that some reservation ends at.
LEMMA GridStep ==
    BootTypeOK /\ StoreInv /\ GridInv /\ [BootNext]_bootVars => GridInv'
<1> SUFFICES ASSUME StoreInv, GridInv, [BootNext]_bootVars PROVE GridInv'
  OBVIOUS
<1>1. StoreTypeOK
  BY DEF StoreInv
<1>2. OnGrid(StoredSeed)
  BY NewestType DEF StoredSeed, GridInv, Newest, Written, OnGrid
<1>3. ASSUME NEW who \in {"provision", "update"}, NEW doc \in Docs,
             SetConfig(who, doc)
      PROVE  GridInv'
  <2>1. PICK read \in BOOLEAN : BeginSave(who, doc, CarriedSeed(read))
    BY <1>3 DEF SetConfig
  <2>2. OnGrid(CarriedSeed(read))
    BY <1>1, <1>2, <2>1, CarriedType DEF OnGrid
  <2> QED
    BY <2>1, <2>2 DEF BeginSave, GridInv, Written
<1>4. CASE BeginReserve
  BY <1>1, <1>4, ReserveOnGrid DEF BeginReserve, BeginSave, GridInv, Written
<1>5. CASE EraseSector
  <2>1. call'.record = call.record /\ call # NoCall
    BY <1>5, EraseStep DEF EraseSector, Saving
  <2>2. \A s \in Sector : Written(s)' => slot'[s] = slot[s] /\ Written(s)
    BY <1>1, <1>5 DEF EraseSector, Written, StoreTypeOK
  <2> QED
    BY <2>1, <2>2 DEF GridInv
<1>6. CASE ProgramHeader
  <2>1. call'.record = call.record /\ call # NoCall
    BY <1>6, HeaderStep DEF ProgramHeader, Saving
  <2>2. [call.record EXCEPT !.whole = FALSE].seed = call.record.seed
    BY <1>1, <2>1, CallType DEF Record
  <2>3. \A s \in Sector : \/ slot'[s] = slot[s]
                          \/ slot'[s].seed = call.record.seed
    BY <1>1, <1>6, <2>2 DEF ProgramHeader, StoreTypeOK
  <2> QED
    BY <2>1, <2>3 DEF GridInv, Written
<1>7. CASE ProgramPayload
  <2>1. /\ call'.record = call.record /\ call # NoCall
        /\ Written(call.target) /\ call.target \in Sector
    BY <1>1, <1>7, PayloadStep, CallType
    DEF StoreInv, ProgramPayload, Saving, CallInv
  <2>2. slot[call.target] \in Record
    BY <1>1, <2>1, WrittenType
  <2>3. \A s \in Sector : \/ slot'[s] = slot[s]
                          \/ Written(s) /\ slot'[s].seed = slot[s].seed
    BY <1>1, <1>7, <2>1, <2>2 DEF ProgramPayload, StoreTypeOK, Record
  <2> QED
    BY <2>1, <2>3 DEF GridInv, Written
<1>8. CASE slot' = slot /\ (call' = NoCall \/ call' = call)
  BY <1>8 DEF GridInv, Written
<1> QED
  BY <1>3, <1>4, <1>5, <1>6, <1>7, <1>8
  DEF BootNext, LoadConfig, CloseWindow, SkipReserve, FlashStep, WriteSlot,
      SaveOk, SaveFailed, TakeTag, Restart, storeVars, bootVars

-----------------------------------------------------------------------------
\* Tags: what has been issued stays below the seed the next boot will use.
LEMMA TagStep ==
    BootTypeOK /\ StoreInv /\ GridInv /\ PhaseInv /\ TagInv
        /\ WithinReservation' /\ [BootNext]_bootVars => TagInv'
<1> SUFFICES ASSUME BootTypeOK, StoreInv, GridInv, PhaseInv, TagInv,
                    WithinReservation', [BootNext]_bootVars
             PROVE  TagInv'
  OBVIOUS
<1>t. /\ StoreTypeOK /\ nextTag \in Nat /\ uses \in Nat /\ issued \subseteq Nat
      /\ StoredSeed \in 0 .. TagMax /\ Reserve \in Nat /\ TagMax \in Nat
      /\ TagBase \in Nat
  BY ReadType, BootAssumption, StoreAssumption DEF StoreInv, BootTypeOK, Seed
<1>1. ASSUME NEW who \in {"provision", "update"}, NEW doc \in Docs,
             SetConfig(who, doc)
      PROVE  TagInv'
  <2>1. PICK read \in BOOLEAN : BeginSave(who, doc, CarriedSeed(read)) /\ unread' = ~read
    BY <1>1 DEF SetConfig
  <2>2. /\ call'.by = who /\ call'.record.seed = CarriedSeed(read)
        /\ call'.stage = "erase" /\ slot' = slot
    BY <2>1 DEF BeginSave
  <2>3. UNCHANGED <<nextTag, uses, reserved, issued>>
    BY <1>1 DEF SetConfig, ramVars
  <2>4. StoredSeed' = StoredSeed
    BY <2>2, SameFlash
  <2>5. ~unread' => call'.record.seed = StoredSeed
    BY <1>t, <2>1, <2>2, CarriedType
  <2>6. call' # NoCall /\ who # "reserve"
    BY <1>t, <2>1, CarriedType, BeginStep, BootAssumption
  <2> QED
    BY <2>2, <2>3, <2>4, <2>5, <2>6 DEF TagInv, Below
<1>2. CASE BeginReserve
  <2>1. /\ call'.record.seed = SeedOrBase + Reserve /\ slot' = slot
        /\ nextTag' = SeedOrBase /\ CanReserve
        /\ UNCHANGED <<uses, reserved, issued>> /\ ~reserved /\ ~unread'
    BY <1>2 DEF BeginReserve, BeginSave, PhaseInv, TagInv
  <2>2. StoredSeed' = StoredSeed
    BY <2>1, SameFlash
  <2>3. SeedOrBase + Reserve # NoSeed /\ SeedOrBase \in Nat
    BY <1>t, <2>1, ReserveOnGrid, ReserveType
  <2>4. \A t \in issued : t < SeedOrBase
    <3>1. issued # {} => Below(issued, StoredSeed)
      BY DEF TagInv
    <3> QED
      BY <1>t, <3>1 DEF SeedOrBase, Below
  <2>5. \A t \in issued : t < SeedOrBase + Reserve
    BY <1>t, <2>3, <2>4
  <2> QED
    BY <2>1, <2>2, <2>3, <2>4, <2>5 DEF TagInv, Below
<1>3. CASE FlashStep
  <2>1. /\ call # NoCall /\ call' # NoCall /\ call'.by = call.by
        /\ call'.record = call.record
    BY <1>3, EraseStep, HeaderStep, PayloadStep
    DEF FlashStep, WriteSlot, EraseSector, ProgramHeader, ProgramPayload, Saving
  <2>2. ~reserved
    BY <2>1, CallType, BootAssumption, <1>t DEF PhaseInv
  <2>3. /\ UNCHANGED <<nextTag, uses, reserved, unread>>
        /\ issued' = IF Saving("header") /\ unread THEN {} ELSE issued
    BY <1>3 DEF FlashStep, ramVars
  <2>4. CASE EraseSector
    <3>1. call.stage = "erase" /\ call'.stage = "header" /\ StoredSeed' = StoredSeed
      BY <2>4, EraseStep DEF EraseSector, Saving, StoredSeed
    <3>2. issued' = issued
      BY <2>3, <3>1 DEF Saving
    <3> QED
      BY <2>1, <2>2, <2>3, <3>1, <3>2 DEF TagInv, Below
  <2>5. CASE ProgramHeader
    <3>1. /\ Saving("header") /\ call'.stage = "payload"
          /\ StoredSeed' = call.record.seed
      BY <2>5, HeaderStep DEF ProgramHeader
    <3>2. CASE unread
      <4>1. issued' = {}
        BY <2>3, <3>1, <3>2
      <4> QED
        BY <2>1, <2>2, <2>3, <4>1 DEF TagInv, Below
    <3>3. CASE ~unread
      <4>1. issued' = issued
        BY <2>3, <3>3
      <4> QED
        BY <2>1, <2>2, <2>3, <3>1, <3>3, <4>1 DEF TagInv, Below
    <3> QED
      BY <3>2, <3>3
  <2>6. CASE ProgramPayload
    <3>1. call.stage = "payload" /\ StoredSeed' = StoredSeed
      BY <2>6, PayloadStep DEF ProgramPayload, Saving
    <3>2. issued' = issued
      BY <2>3, <3>1 DEF Saving
    <3> QED
      BY <2>1, <2>2, <2>3, <3>1, <3>2 DEF TagInv, Below
  <2> QED
    BY <1>3, <2>4, <2>5, <2>6 DEF FlashStep, WriteSlot
<1>4. CASE LoadConfig \/ CloseWindow
  <2>1. UNCHANGED <<slot, call, nextTag, uses, reserved, issued, unread>>
    BY <1>4 DEF LoadConfig, CloseWindow, storeVars, ramVars
  <2> QED
    BY <2>1, SameFlash DEF TagInv, Below
<1>5. CASE SkipReserve
  <2>1. /\ UNCHANGED <<slot, call, uses, issued, unread>> /\ reserved' = FALSE
        /\ call = NoCall
    BY <1>5 DEF SkipReserve, ServeUnreserved, storeVars
  <2> QED
    BY <2>1, SameFlash DEF TagInv, Below
<1>6. CASE SaveOk
  <2>1. /\ call # NoCall /\ StoredSeed = call.record.seed /\ call' = NoCall
        /\ slot' = slot /\ issued' = issued /\ unread' = FALSE
    BY <1>6, VerifiedStep DEF SaveOk
  <2>2. StoredSeed' = StoredSeed
    BY <2>1, SameFlash
  <2>3. CASE call.by = "reserve"
    <3>1. phase = "tags" /\ uses = 0
      BY <2>1, <2>3 DEF PhaseInv
    <3>2. UNCHANGED <<nextTag, uses>>
      BY <1>6, <2>3 DEF SaveOk
    <3>3. /\ StoredSeed = nextTag + Reserve /\ StoredSeed # NoSeed
          /\ \A t \in issued : t < nextTag
      BY <2>1, <2>3 DEF TagInv
    <3> QED
      BY <1>t, <2>1, <2>2, <3>1, <3>2, <3>3 DEF TagInv, Below
  <2>4. CASE call.by # "reserve"
    <3>1. ~reserved
      BY <2>1, CallType, BootAssumption, <1>t DEF PhaseInv
    <3>2. ~reserved'
      BY <1>6, <2>4, <3>1 DEF SaveOk
    <3> QED
      BY <2>1, <2>2, <3>2 DEF TagInv, Below
  <2> QED
    BY <2>3, <2>4
<1>7. CASE SaveFailed
  <2>1. /\ slot' = slot /\ call' = NoCall /\ issued' = issued /\ call # NoCall
        /\ unread' = FALSE
    BY <1>7 DEF SaveFailed
  <2>2. ~reserved
    BY <2>1, CallType, BootAssumption, <1>t DEF PhaseInv
  <2>3. ~reserved'
    BY <1>7, <2>2 DEF SaveFailed, ServeUnreserved
  <2> QED
    BY <2>1, <2>3, SameFlash DEF TagInv, Below
<1>8. CASE TakeTag
  <2>1. /\ phase = "serving" /\ uses' = uses + 1 /\ UNCHANGED <<slot, call, reserved, unread>>
        /\ nextTag' = IF nextTag = TagMax THEN TagBase ELSE nextTag + 1
        /\ issued' = IF reserved THEN issued \cup {nextTag} ELSE issued
    BY <1>8 DEF TakeTag, storeVars
  <2>2. call = NoCall /\ call' = NoCall /\ ~unread'
    BY <2>1, CallType, BootAssumption, <1>t DEF PhaseInv, TagInv
  <2>3. StoredSeed' = StoredSeed
    BY <2>1, SameFlash
  <2>4. CASE ~reserved
    BY <2>1, <2>2, <2>3, <2>4 DEF TagInv, Below
  <2>5. CASE reserved
    <3>1. /\ StoredSeed + uses = nextTag + Reserve /\ StoredSeed # NoSeed
          /\ \A t \in issued : t < nextTag
      BY <2>5 DEF TagInv
    <3>2. uses + 1 <= Reserve
      BY <2>1 DEF WithinReservation
    <3>3. nextTag < StoredSeed /\ nextTag # TagMax
      BY <1>t, <3>1, <3>2
    <3>4. nextTag' = nextTag + 1 /\ issued' = issued \cup {nextTag}
      BY <2>1, <2>5, <3>3
    <3>5. \A t \in issued' : t < nextTag' /\ t < StoredSeed
      BY <1>t, <3>1, <3>3, <3>4
    <3>6. StoredSeed + uses' = nextTag' + Reserve
      BY <1>t, <2>1, <3>1, <3>4
    <3>7. Below(issued', StoredSeed')
      BY <2>3, <3>1, <3>5 DEF Below
    <3>8. reserved' => /\ StoredSeed' # NoSeed
                       /\ StoredSeed' + uses' = nextTag' + Reserve
                       /\ \A t \in issued' : t < nextTag'
      BY <2>3, <3>1, <3>5, <3>6
    <3> QED
      BY <2>2, <3>7, <3>8, Zenon DEF TagInv
  <2> QED
    BY <2>4, <2>5
<1>9. CASE Restart
  <2>1. /\ slot' = slot /\ call' = NoCall /\ issued' = issued /\ ~reserved'
        /\ unread' = FALSE
    BY <1>9 DEF Restart
  <2> QED
    BY <2>1, SameFlash DEF TagInv, Below
<1>10. CASE UNCHANGED bootVars
  <2>1. UNCHANGED <<slot, call, nextTag, uses, reserved, issued, unread>>
    BY <1>10 DEF bootVars, storeVars, ramVars
  <2> QED
    BY <2>1, SameFlash DEF TagInv, Below
<1> QED
  BY <1>1, <1>2, <1>3, <1>4, <1>5, <1>6, <1>7, <1>8, <1>9, <1>10 DEF BootNext

-----------------------------------------------------------------------------
\* Documents: only the inactive sector is ever given up.
LEMMA DocStep ==
    BootTypeOK /\ StoreInv /\ PhaseInv /\ DocInv /\ [BootNext]_bootVars => DocInv'
<1> SUFFICES ASSUME BootTypeOK, StoreInv, PhaseInv, DocInv, [BootNext]_bootVars
             PROVE  DocInv'
  OBVIOUS
<1> USE DEF DocInv, AckedSurvives, NeverRollsBack
<1>1. CASE LoadConfig
  <2>1. Readable' = Readable /\ call' = call
    BY <1>1, SameFlash DEF LoadConfig, storeVars
  <2>2. CASE acked' = acked /\ trying' = trying
    BY <2>1, <2>2
  <2>3. CASE acked' = Readable /\ trying' = {}
    <3>1. phase = "load"
      BY <1>1 DEF LoadConfig
    <3>2. call = NoCall
      BY <3>1, CallType, BootAssumption DEF PhaseInv, StoreInv
    <3> QED
      BY <2>1, <2>3, <3>2
  <2> QED
    BY <1>1, <2>2, <2>3 DEF LoadConfig
<1>2. ASSUME NEW who, NEW doc \in Docs, NEW seed, BeginSave(who, doc, seed),
             trying' = trying \cup {doc}, acked' = acked
      PROVE  DocInv'
  <2>1. call'.record.doc = doc /\ slot' = slot
    BY <1>2 DEF BeginSave
  <2> QED
    BY <1>2, <2>1, SameFlash
<1>3. ASSUME NEW who \in {"provision", "update"}, NEW doc \in Docs,
             SetConfig(who, doc)
      PROVE  DocInv'
  BY <1>2, <1>3 DEF SetConfig
<1>4. CASE BeginReserve
  BY <1>2, <1>4, ReserveType DEF BeginReserve, StoreInv
<1>5. CASE FlashStep
  <2>1. /\ call # NoCall /\ call' # NoCall /\ call'.record = call.record
        /\ Readable' \in {Readable, call.record.doc, NoDoc}
    BY <1>5, EraseStep, HeaderStep, PayloadStep
    DEF FlashStep, WriteSlot, EraseSector, ProgramHeader, ProgramPayload, Saving,
        Readable
  <2>2. acked' = acked /\ trying' = trying
    BY <1>5 DEF FlashStep
  <2> QED
    BY <2>1, <2>2
<1>6. CASE SaveOk
  <2>1. Readable = call.record.doc /\ slot' = slot
    BY <1>6, VerifiedStep DEF SaveOk
  <2>2. acked' = call.record.doc /\ trying' = {} /\ call' = NoCall
    BY <1>6 DEF SaveOk
  <2> QED
    BY <2>1, <2>2, SameFlash
<1>7. CASE UNCHANGED <<slot, acked, trying>> /\ (call' = call \/ call' = NoCall)
  BY <1>7, SameFlash
<1> QED
  BY <1>1, <1>3, <1>4, <1>5, <1>6, <1>7
  DEF BootNext, CloseWindow, SkipReserve, SaveFailed, TakeTag, Restart,
      storeVars, bootVars

-----------------------------------------------------------------------------
\* A first boot, on blank flash or on a record of another firmware.
LEMMA BootInvInit == BootInit => BootInv
<1> SUFFICES ASSUME BootInit PROVE BootInv
  OBVIOUS
<1>1. StoreTypeOK /\ call = NoCall /\ slot["A"] = Blank
  BY DEF BootInit, StoreInit, StoreTypeOK
<1>2. StoreInv
  BY <1>1 DEF StoreInv, SectorsOneApart, CallInv, Written
<1>3. BootTypeOK
  <2>1. FALSE \in BOOLEAN /\ TagBase \in 0 .. TagMax /\ 0 \in 0 .. MaxUse
    BY BootAssumption, StoreAssumption
  <2>2. Readable \in Docs \cup {NoDoc}
    BY <1>1, ReadType
  <2> QED
    BY <1>1, <2>1, <2>2, Zenon DEF BootInit, BootTypeOK, Phase
<1>4. GridInv
  BY <1>1 DEF BootInit, StoreInit, GridInv, OnGrid, Written, Sector
<1>5. PhaseInv /\ TagInv
  BY <1>1 DEF BootInit, PhaseInv, TagInv
<1>6. DocInv
  BY <1>1 DEF BootInit, DocInv, AckedSurvives, NeverRollsBack
<1> QED
  BY <1>2, <1>3, <1>4, <1>5, <1>6 DEF BootInv

\* Whatever the boots do, the flash record stays sound.
LEMMA FlashInvStep ==
    BootTypeOK /\ StoreInv /\ PhaseInv /\ DocInv /\ [BootNext]_bootVars
        => (BootTypeOK /\ StoreInv /\ PhaseInv /\ DocInv)'
BY BootTypeStep, StoreStep, PhaseStep, DocStep

\* Types, the two headers and what a boot reads are sound in every reachable
\* state: nothing about tags is needed for it.
THEOREM FlashInvariance == BootSpec => [](BootTypeOK /\ StoreInv /\ PhaseInv /\ DocInv)
<1>1. BootInit => BootTypeOK /\ StoreInv /\ PhaseInv /\ DocInv
  BY BootInvInit DEF BootInv
<1> QED
  BY <1>1, FlashInvStep, PTL DEF BootSpec

\* Sectors, saves, tags and documents keep their types in every boot.
THEOREM BootTypeCorrect == BootSpec => []BootTypeOK
<1> QED
  BY FlashInvariance, PTL

\* Which sector is newer is never in doubt.
THEOREM SectorOrder == BootSpec => []SectorsOneApart
<1>1. StoreInv => SectorsOneApart
  BY DEF StoreInv
<1> QED
  BY <1>1, FlashInvariance, PTL

\* A stored document is replaced by a newer one or lost, never by an older one.
THEOREM NoRollback == BootSpec => []NeverRollsBack
<1>1. DocInv => NeverRollsBack
  BY DEF DocInv
<1> QED
  BY <1>1, FlashInvariance, PTL

\* An acknowledged document is the one the next boot reads.
THEOREM AckedDurable == BootSpec => []AckedSurvives
<1>1. DocInv => AckedSurvives
  BY DEF DocInv
<1> QED
  BY <1>1, FlashInvariance, PTL

-----------------------------------------------------------------------------
\* Every step, in the boots WithinReservation admits, keeps the invariant.
LEMMA BootInvStep ==
    BootInv /\ WithinReservation' /\ [BootNext]_bootVars => BootInv'
BY FlashInvStep, GridStep, TagStep DEF BootInv

\* While no boot takes more tags than it reserved the invariant is inductive.
THEOREM BootInvariance == BootSpec /\ []WithinReservation => []BootInv
<1> QED
  BY BootInvInit, BootInvStep, PTL DEF BootSpec

\* Every tag issued since a failed read last lost the seed lies below the one
\* that is stored.
THEOREM SeedCovers == BootSpec /\ []WithinReservation => []SeedCoversTags
<1>1. BootInv => SeedCoversTags
  <2> SUFFICES ASSUME BootInv PROVE SeedCoversTags
    OBVIOUS
  <2>1. StoredSeed \in 0 .. TagMax /\ issued \subseteq 0 .. TagMax
    BY ReadType DEF BootInv, StoreInv, BootTypeOK, Seed
  <2>2. issued # {} => Below(issued, StoredSeed)
    BY DEF BootInv, TagInv
  <2> QED
    BY <2>1, <2>2, StoreAssumption DEF Below, SeedCoversTags, NoSeed
<1> QED
  BY <1>1, BootInvariance, PTL

\* No request tag is taken under two reservations, across any number of boots,
\* power failures and flash errors, but for the failed read of SeedCoversTags.
THEOREM TagsNeverReused == BootSpec /\ []WithinReservation => TagsFresh
<1> DEFINE A == TakeTag /\ reserved => nextTag \notin issued
<1>1. BootInv => A
  BY DEF BootInv, BootTypeOK, TagInv
<1> QED
  BY <1>1, BootInvariance, PTL DEF TagsFresh, BootSpec
=============================================================================
