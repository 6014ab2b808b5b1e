---------------------------- MODULE ConfigStorage ----------------------------
(***************************************************************************)
(* The journal of configurations in flash (config_storage.rs): SLOT_COUNT  *)
(* sectors of one record each, written in turn, every record with a        *)
(* generation one above the last.  load_latest reads the slots one by one; *)
(* save erases the slot after the latest, writes the record's body, then   *)
(* its commit marker, and reads it back.  Only main touches the flash and  *)
(* it does not yield inside save, but the power may go, or a flash         *)
(* operation fail, anywhere.                                               *)
(*                                                                         *)
(* A slot is None when it holds nothing decode accepts even without the    *)
(* marker (erased, torn or foreign bytes: magic, version and CRC tell),    *)
(* and otherwise the record's body and whether the marker is there.        *)
(***************************************************************************)
EXTENDS Integers, SerialNumbers

CONSTANTS
  None,                \* Option::None
  Configs,             \* the configurations DeviceConfig::new accepts
  SLOT_COUNT,          \* sectors of the partition: 6
  GENERATION_MODULUS   \* 2^32

ASSUME SlotAssumption ==
  /\ SLOT_COUNT \in Nat \ {0, 1}
  /\ GENERATION_MODULUS \in Nat
  /\ 2 * (SLOT_COUNT - 1) < GENERATION_MODULUS

Slots == 0 .. SLOT_COUNT - 1
Generations == 0 .. GENERATION_MODULUS - 1
Records == [config : Configs, generation : Generations, committed : BOOLEAN]

ASSUME NoneAssumption ==
  None \notin Int /\ None \notin Configs /\ None \notin Records

VARIABLES
  slots,    \* the flash
  pc,       \* where main is in load_latest or save, or "idle"
  config,   \* save's argument, or None while main only loads
  slot,     \* load_latest's loop variable
  latest,   \* load_latest's result so far: None or the slot of the record
  outcome,  \* what the last save returned
  loaded,   \* main's stored_config
  before    \* history: what was stored when the last save began

vars == <<slots, pc, config, slot, latest, outcome, loaded, before>>

\* decode returns Ok.
Decodes(record) == record # None /\ record.committed

\* Seeded fault: the generations compared as plain numbers.
generation_is_newer_Plain(candidate, current) == candidate > current

generation_is_newer(candidate, current) ==
  IsNewer(GENERATION_MODULUS, candidate, current)

Valid == {i \in Slots : Decodes(slots[i])}

(***************************************************************************)
(* The order save leaves the journal in: a valid slot is as many           *)
(* generations behind the head as it is slots behind it.                   *)
(***************************************************************************)
IsHead(head) ==
  /\ head \in Valid
  /\ \A i \in Valid :
       slots[i].generation =
         WrappingSub(GENERATION_MODULUS, slots[head].generation,
                     WrappingSub(SLOT_COUNT, head, i))

Stored ==
  IF \E head \in Slots : IsHead(head)
  THEN slots[CHOOSE head \in Slots : IsHead(head)].config
  ELSE None

\* Seeded fault: the latest record is overwritten in place.
next_slot_InPlace == IF latest = None THEN 0 ELSE latest

\* Seeded fault: + 1 for wrapping_add(1).
next_generation_Unwrapped ==
  IF latest = None THEN 1 ELSE slots[latest].generation + 1

\* Seeded fault: the generation of the latest record is used again.
next_generation_Same == IF latest = None THEN 1 ELSE slots[latest].generation

\* The slot and generation save picks from what load_latest found.
next_slot == IF latest = None THEN 0 ELSE (latest + 1) % SLOT_COUNT
next_generation ==
  IF latest = None
  THEN 1
  ELSE WrappingAdd(GENERATION_MODULUS, slots[latest].generation, 1)

Body == [config |-> config, generation |-> next_generation, committed |-> FALSE]
Record == [Body EXCEPT !.committed = TRUE]

Program(content) == slots' = [slots EXCEPT ![next_slot] = content]
-----------------------------------------------------------------------------
Init ==
  /\ slots = [i \in Slots |-> None]
  /\ pc = "load_latest" /\ config = None /\ slot = 0 /\ latest = None
  /\ outcome = "none" /\ loaded = None /\ before = None

\* main takes a configuration from NEW_CONFIG.
Save(c) ==
  /\ pc = "idle"
  /\ pc' = "load_latest" /\ config' = c /\ slot' = 0 /\ latest' = None
  /\ outcome' = "pending"
  /\ before' = Stored
  /\ UNCHANGED <<slots, loaded>>

\* load_latest takes this slot for its latest.
Replaces ==
  /\ Decodes(slots[slot])
  /\ latest # None =>
       generation_is_newer(slots[slot].generation, slots[latest].generation)

ReadSlot ==
  /\ pc = "load_latest" /\ slot < SLOT_COUNT
  /\ latest' = IF Replaces THEN slot ELSE latest
  /\ slot' = slot + 1
  /\ UNCHANGED <<slots, pc, config, outcome, loaded, before>>

\* load returns to main, which goes on with what it found.
Loaded ==
  /\ pc = "load_latest" /\ slot = SLOT_COUNT /\ config = None
  /\ pc' = "idle"
  /\ loaded' = IF latest = None THEN None ELSE slots[latest].config
  /\ latest' = None
  /\ UNCHANGED <<slots, config, slot, outcome, before>>

\* A slot cannot be read: main boots without a configuration.
LoadFails ==
  /\ pc = "load_latest" /\ slot < SLOT_COUNT /\ config = None
  /\ pc' = "idle"
  /\ loaded' = None
  /\ latest' = None
  /\ UNCHANGED <<slots, config, slot, outcome, before>>

\* load_latest returns to save, which knows where to write.
Located ==
  /\ pc = "load_latest" /\ slot = SLOT_COUNT /\ config # None
  /\ pc' = "erase"
  /\ UNCHANGED <<slots, config, slot, latest, outcome, loaded, before>>

Erase ==
  /\ pc = "erase"
  /\ Program(None)
  /\ pc' = "write_body"
  /\ UNCHANGED <<config, slot, latest, outcome, loaded, before>>

\* A write may report success and leave bytes that decode refuses.
WriteBody ==
  /\ pc = "write_body"
  /\ Program(Body) \/ Program(None)
  /\ pc' = "write_commit"
  /\ UNCHANGED <<config, slot, latest, outcome, loaded, before>>

WriteCommit ==
  /\ pc = "write_commit"
  /\ \/ slots[next_slot] = Body /\ Program(Record)
     \/ Program(None)
  /\ pc' = "verify"
  /\ UNCHANGED <<config, slot, latest, outcome, loaded, before>>

\* save returns to main's loop.
Return(result) ==
  /\ pc' = "idle" /\ config' = None /\ latest' = None
  /\ outcome' = result
  /\ UNCHANGED <<slot, loaded, before>>

\* The record read back decodes to what save was asked to store, or not.
Verify ==
  /\ pc = "verify"
  /\ Return(IF slots[next_slot] = Record THEN "saved" ELSE "failed")
  /\ UNCHANGED slots

\* What the operation under way may have made of its slot when it fails or
\* the power goes: nothing, part of it, or all of it.
Partial ==
  \/ UNCHANGED slots
  \/ pc \in {"erase", "write_body", "write_commit"} /\ Program(None)
  \/ pc = "write_body" /\ Program(Body)
  \/ pc = "write_commit" /\ slots[next_slot] = Body /\ Program(Record)

\* A flash operation of save returns an error: "?" leaves save at once.
SaveFails ==
  /\ config # None
  /\ pc = "load_latest" => slot < SLOT_COUNT
  /\ Partial
  /\ Return("failed")

\* Power loss, or the restart after a save: main boots and loads.
Restart ==
  /\ Partial
  /\ pc' = "load_latest" /\ config' = None /\ slot' = 0 /\ latest' = None
  /\ outcome' = "none" /\ loaded' = None
  /\ UNCHANGED before

Next ==
  \/ \E c \in Configs : Save(c)
  \/ ReadSlot \/ Loaded \/ LoadFails \/ Located
  \/ Erase \/ WriteBody \/ WriteCommit \/ Verify
  \/ SaveFails \/ Restart

Spec == Init /\ [][Next]_vars
-----------------------------------------------------------------------------
(***************************************************************************)
(* Every variable keeps its type and width, and main's place in the code   *)
(* agrees with what it holds: a save has a configuration, and past the     *)
(* scan it has read every slot.                                            *)
(***************************************************************************)
StorageTypeOK ==
  /\ slots \in [Slots -> Records \union {None}]
  /\ pc \in {"load_latest", "erase", "write_body", "write_commit", "verify",
             "idle"}
  /\ config \in Configs \union {None}
  /\ slot \in 0 .. SLOT_COUNT
  /\ latest \in Slots \union {None}
  /\ outcome \in {"none", "pending", "saved", "failed"}
  /\ loaded \in Configs \union {None}
  /\ before \in Configs \union {None}
  /\ pc \notin {"load_latest", "idle"} => config # None /\ slot = SLOT_COUNT
  /\ pc = "idle" => config = None /\ latest = None
  /\ latest # None => Decodes(slots[latest])

(***************************************************************************)
(* After every save, failure and power loss one valid slot is the head of  *)
(* all of them.  So at most SLOT_COUNT generations are ever compared, and  *)
(* the wrap of the 32-bit generation cannot confuse generation_is_newer.   *)
(***************************************************************************)
JournalInOrder == Valid # {} => \E head \in Slots : IsHead(head)

(***************************************************************************)
(* load_latest reads the slots in index order and keeps one candidate,     *)
(* comparing with a relation that is no total order.  Once it has read all *)
(* of them, its result is still the head of the journal, and None only     *)
(* when the journal is empty.                                              *)
(***************************************************************************)
ScanFindsHead ==
  pc = "load_latest" /\ slot = SLOT_COUNT =>
    IF Valid = {} THEN latest = None ELSE latest # None /\ IsHead(latest)

(***************************************************************************)
(* The journal implements the atomic register: save never erases or        *)
(* overwrites the latest committed record, a configuration that was stored *)
(* stays the one load returns until a newer one is, and save's Ok means    *)
(* that it is, through every power loss and flash error.                   *)
(***************************************************************************)
Register == INSTANCE AtomicConfig WITH stored <- Stored, request <- config

ImplementsRegister == Register!Spec

(***************************************************************************)
(* The setup page says of a save that failed that "the existing            *)
(* configuration is unchanged" (main.rs).                                  *)
(***************************************************************************)
FailedSaveChangesNothing == outcome = "failed" => Stored = before
=============================================================================
