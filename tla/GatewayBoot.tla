---------------------------- MODULE GatewayBoot ----------------------------
(***************************************************************************)
(* From power-up to serving (run_gateway in lib.rs): load the stored       *)
(* document or wait for one over USB, open the USB update window, reserve  *)
(* MeshCore request tags in flash, serve.  Power may fail at any step, and *)
(* the flash may report an error for any command.                          *)
(***************************************************************************)
EXTENDS ConfigStore

CONSTANTS
    Unsupported, \* documents whose outputs this board cannot provide
    TagBase,     \* MESHCORE_REQUEST_TAG_BASE
    Reserve,     \* MESHCORE_REQUEST_TAG_RESERVE_COUNT
    MaxUse       \* bound on the request tags taken in one boot

ASSUME BootAssumption ==
    /\ Callers = {"provision", "update", "reserve"}
    /\ Unsupported \subseteq Docs
    /\ TagBase \in Nat
    /\ TagBase < TagMax
    /\ Reserve \in Nat \ {0}
    /\ \A k \in 0 .. TagMax : TagBase + k * Reserve # TagMax
    /\ MaxUse \in Nat

VARIABLES
    phase,    \* how far run_gateway has come
    config,   \* the LoadedConfig of this boot
    nextTag,  \* NEXT_REQUEST_TAG
    uses,     \* tags taken since the boot
    reserved, \* initialize_request_tags got a reservation
    issued,   \* tags taken under a reservation, over all boots since a failed
              \* read last lost the stored seed (history)
    unread,   \* the save under way could not read the seed it replaces (history)
    acked,    \* document last loaded, or saved with Ok (history)
    trying    \* documents whose save was begun since (history)

ramVars == <<config, nextTag, uses, reserved>>
bootVars == <<storeVars, phase, ramVars, issued, unread, acked, trying>>

Phase == {"load", "window", "provision", "tags", "serving", "halted"}

BootInit ==
    /\ StoreInit
    /\ phase = "load"
    /\ config = NoDoc
    /\ nextTag = TagBase /\ uses = 0 /\ reserved = FALSE
    /\ issued = {} /\ unread = FALSE
    /\ acked = Readable
    /\ trying = {}

-----------------------------------------------------------------------------
\* load_or_provision: any error, that of a flash read included, provisions.
LoadConfig ==
    /\ phase = "load"
    /\ \/ /\ config' = NoDoc
          /\ phase' = "provision"
          /\ UNCHANGED <<acked, trying>>
       \/ /\ Readable # NoDoc
          /\ config' = Readable
          /\ phase' = "window"
          /\ acked' = Readable
          /\ trying' = {}
    /\ UNCHANGED <<storeVars, nextTag, uses, reserved, issued, unread>>

\* The update window ends without a save; outputs the board lacks are fatal.
CloseWindow ==
    /\ phase = "window"
    /\ call = NoCall
    /\ phase' = IF config \in Unsupported THEN "halted" ELSE "tags"
    /\ UNCHANGED <<storeVars, ramVars, issued, unread, acked, trying>>

\* Changed: a new document is saved without a seed.
SetConfigForgettingSeed(who, doc) ==
    /\ phase = IF who = "provision" THEN "provision" ELSE "window"
    /\ doc \notin Unsupported
    /\ BeginSave(who, doc, NoSeed)
    /\ unread' = FALSE
    /\ trying' = trying \cup {doc}
    /\ UNCHANGED <<phase, ramVars, issued, acked>>

\* save_config_bytes carries the seed of the newest header over; an error
\* reading it counts as no seed.
CarriedSeed(read) == IF read THEN StoredSeed ELSE NoSeed

\* set_config over USB: a document the board supports is saved.
SetConfig(who, doc) ==
    /\ phase = IF who = "provision" THEN "provision" ELSE "window"
    /\ doc \notin Unsupported
    /\ \E read \in BOOLEAN : BeginSave(who, doc, CarriedSeed(read)) /\ unread' = ~read
    /\ trying' = trying \cup {doc}
    /\ UNCHANGED <<phase, ramVars, issued, acked>>

\* reserve_request_tag_seed: the first tag of the next reservation
SeedOrBase ==
    IF StoredSeed = NoSeed \/ StoredSeed < TagBase THEN TagBase ELSE StoredSeed

\* Changed: the addition is not checked.
CanReserveUnchecked == Readable # NoDoc

\* checked_add, and load_config_document
CanReserve == SeedOrBase + Reserve <= TagMax /\ Readable # NoDoc

\* Changed: the seed stored is the one the reservation starts from.
BeginReserveInPlace ==
    /\ phase = "tags"
    /\ CanReserve
    /\ nextTag' = SeedOrBase
    /\ BeginSave("reserve", Readable, SeedOrBase)
    /\ trying' = trying \cup {Readable}
    /\ UNCHANGED <<phase, config, uses, reserved, issued, unread, acked>>

\* The new seed is stored before any tag is used.
BeginReserve ==
    /\ phase = "tags"
    /\ CanReserve
    /\ nextTag' = SeedOrBase
    /\ BeginSave("reserve", Readable, SeedOrBase + Reserve)
    /\ trying' = trying \cup {Readable}
    /\ UNCHANGED <<phase, config, uses, reserved, issued, unread, acked>>

\* The volatile fallback of initialize_request_tags
ServeUnreserved ==
    /\ nextTag' = TagBase
    /\ reserved' = FALSE
    /\ phase' = "serving"

\* The seed or the document cannot be read, or the tags are used up.
SkipReserve ==
    /\ phase = "tags"
    /\ call = NoCall
    /\ ServeUnreserved
    /\ UNCHANGED <<storeVars, config, uses, issued, unread, acked, trying>>

\* With its header the save replaces the seed; the history starts anew where
\* that seed was not carried over because it could not be read.
FlashStep ==
    /\ WriteSlot
    /\ issued' = IF Saving("header") /\ unread THEN {} ELSE issued
    /\ UNCHANGED <<phase, ramVars, unread, acked, trying>>

\* save_config_document or reserve_request_tag_seed returns Ok.
SaveOk ==
    /\ Verified
    /\ call' = NoCall
    /\ acked' = call.record.doc
    /\ trying' = {}
    /\ \/ /\ call.by = "provision"
          /\ config' = call.record.doc
          /\ phase' = "tags"
          /\ UNCHANGED <<nextTag, uses, reserved>>
       \/ /\ call.by = "update"           \* reboot_required: reboot at once
          /\ config' = NoDoc
          /\ nextTag' = TagBase /\ uses' = 0 /\ reserved' = FALSE
          /\ phase' = "load"
       \/ /\ call.by = "reserve"
          /\ reserved' = TRUE
          /\ phase' = "serving"
          /\ UNCHANGED <<config, nextTag, uses>>
    /\ unread' = FALSE
    /\ UNCHANGED <<slot, issued>>

\* A flash command, the reads that verify included, returns an error, or the
\* read back differs: USB saves report it, the reservation falls back.
SaveFailed ==
    /\ call # NoCall
    /\ call' = NoCall
    /\ IF call.by = "reserve"
       THEN ServeUnreserved
       ELSE UNCHANGED <<phase, nextTag, reserved>>
    /\ unread' = FALSE
    /\ UNCHANGED <<slot, config, uses, issued, acked, trying>>

\* next_request_tag
TakeTag ==
    /\ phase = "serving"
    /\ uses < MaxUse
    /\ uses' = uses + 1
    /\ nextTag' = IF nextTag = TagMax THEN TagBase ELSE nextTag + 1
    /\ issued' = IF reserved THEN issued \cup {nextTag} ELSE issued
    /\ UNCHANGED <<storeVars, phase, config, reserved, unread, acked, trying>>

\* Power loss, a reset or a reboot command, at any point.
Restart ==
    /\ phase' = "load"
    /\ call' = NoCall
    /\ config' = NoDoc
    /\ nextTag' = TagBase /\ uses' = 0 /\ reserved' = FALSE
    /\ unread' = FALSE
    /\ UNCHANGED <<slot, issued, acked, trying>>

BootNext ==
    \/ LoadConfig \/ CloseWindow
    \/ \E who \in {"provision", "update"}, doc \in Docs : SetConfig(who, doc)
    \/ BeginReserve \/ SkipReserve
    \/ FlashStep \/ SaveOk \/ SaveFailed
    \/ TakeTag \/ Restart

BootSpec == BootInit /\ [][BootNext]_bootVars

-----------------------------------------------------------------------------
\* Type invariant of the flash and of the boot.
BootTypeOK ==
    /\ StoreTypeOK
    /\ phase \in Phase
    /\ config \in Docs \cup {NoDoc}
    /\ nextTag \in 0 .. TagMax
    /\ uses \in 0 .. MaxUse
    /\ reserved \in BOOLEAN
    /\ issued \subseteq 0 .. TagMax
    /\ unread \in BOOLEAN
    /\ acked \in Docs \cup {NoDoc}
    /\ trying \subseteq Docs

\* A document whose save returned Ok is what the next boot loads, until the
\* next save begins, however the two sectors have been used before.
AckedSurvives == trying = {} => Readable = acked

\* Interrupted and failed saves never bring an older document back.
NeverRollsBack == Readable \in {acked, NoDoc} \cup trying

\* Every tag taken under a reservation lies below the seed the next boot will
\* start from, whatever power failures, failed writes, failed reservations and
\* saves come in between - but for one: a save whose read of the stored seed
\* fails replaces the seed by none (unwrap_or(None) in save_config_bytes), and
\* the tags taken before it are not covered any more.
SeedCoversTags ==
    \A t \in issued : t < TagMax /\ StoredSeed # NoSeed /\ t < StoredSeed

\* No tag is taken under two reservations ("Reserve a range of MeshCore request
\* tags", storage.rs), unless a save lost the seed between them as above.
TagsFresh == [][TakeTag /\ reserved => nextTag \notin issued]_bootVars
=============================================================================
