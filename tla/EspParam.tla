----------------------------- MODULE EspParam -----------------------------
(***************************************************************************)
(* The saved parameters of the plug (apps/07switch/user): a block kept in  *)
(* two flash sectors and a flag sector that says which one to load.  The   *)
(* save is a sequence of flash operations; power may be lost between any   *)
(* two of them or in the middle of one.  Callbacks of the non-OS SDK are   *)
(* not preempted, so nothing but a power loss interleaves with a save.     *)
(***************************************************************************)
EXTENDS Naturals

CONSTANTS Token,      \* the tokens a user can post to the device
          Blank,      \* the token bytes of an erased sector
          Torn        \* a sector whose erase or write was cut short

VARIABLES esp_param,  \* the RAM copy
          sector,     \* sector[0], sector[1]: ESP_PARAM_SAVE_0, ESP_PARAM_SAVE_1
          flag,       \* the byte of sector ESP_PARAM_FLAG
          slot,       \* local of save_param: the sector being written, which
                      \* is also the new value of the flag
          pc,         \* the flash operation about to be executed
          after,      \* where the caller of save_param continues
          sta_cfg     \* does the SDK's own flash hold a station configuration?

paramVars == <<esp_param, sector, flag, slot, pc, after, sta_cfg>>

-----------------------------------------------------------------------------
(* A parameter block: device key, user token and activation flag.  255 is  *)
(* the erased byte; for the flag it stands for every byte but 0 and 1.     *)
Param == [devkey : {"factory", "erased"}, token : Token \cup {Blank},
          activeflag : {0, 1, 255}]

(* Torn contents are no parameter block.                                   *)
ASSUME TornAssumption == Torn \notin Param

ErasedParam  == [devkey |-> "erased",  token |-> Blank, activeflag |-> 255]
FactoryParam == [devkey |-> "factory", token |-> Blank, activeflag |-> 255]

FlagByte == {0, 1, 255}

(* load_param: flag 0 selects SAVE_0, every other byte selects SAVE_1.     *)
BugLoadFlagOne == IF flag = 1 THEN sector[1] ELSE sector[0]
LoadParam == IF flag = 0 THEN sector[0] ELSE sector[1]

(* save_param writes the sector the flag does not select.                  *)
BugSpareErasedAsZero(f) == IF f = 1 THEN 0 ELSE 1
SpareSlot(f) == IF f = 0 THEN 1 ELSE 0

-----------------------------------------------------------------------------
ParamInit ==
    /\ esp_param = ErasedParam
    /\ sector = [s \in {0, 1} |-> IF s = 0 THEN ErasedParam ELSE FactoryParam]
    /\ flag = 255
    /\ slot = 0
    /\ pc = "off"
    /\ after = "idle"
    /\ sta_cfg = FALSE

(* user_esp_platform_init                                                  *)
LoadAtBoot ==
    /\ pc = "off"
    /\ pc' = "idle"
    /\ esp_param' = LoadParam
    /\ UNCHANGED <<sector, flag, slot, after, sta_cfg>>

(* The entry of save_param, called with the block p by a caller that       *)
(* continues at next: the flag is read and the branch is chosen.           *)
SaveParam(p, next) ==
    /\ pc = "idle"
    /\ esp_param' = p
    /\ slot' = SpareSlot(flag)
    /\ pc' = "erase_data"
    /\ after' = next
    /\ UNCHANGED <<sector, flag, sta_cfg>>

(* The four flash operations of save_param, in the order of the code.      *)
EraseData ==
    /\ pc = "erase_data"
    /\ sector' = [sector EXCEPT ![slot] = ErasedParam]
    /\ pc' = "write_data"
    /\ UNCHANGED <<esp_param, flag, slot, after, sta_cfg>>

WriteData ==
    /\ pc = "write_data"
    /\ sector' = [sector EXCEPT ![slot] = esp_param]
    /\ pc' = "erase_flag"
    /\ UNCHANGED <<esp_param, flag, slot, after, sta_cfg>>

EraseFlag ==
    /\ pc = "erase_flag"
    /\ flag' = 255
    /\ pc' = "write_flag"
    /\ UNCHANGED <<esp_param, sector, slot, after, sta_cfg>>

BugWriteFlagOld ==
    /\ pc = "write_flag"
    /\ flag' = 1 - slot
    /\ pc' = after
    /\ UNCHANGED <<esp_param, sector, slot, after, sta_cfg>>

WriteFlag ==
    /\ pc = "write_flag"
    /\ flag' = slot
    /\ pc' = after
    /\ UNCHANGED <<esp_param, sector, slot, after, sta_cfg>>

-----------------------------------------------------------------------------
(* The callers of save_param, and what else touches the block.             *)

(* user_esp_platform_set_token, from the POST of a station configuration   *)
SetToken(t) ==
    SaveParam([esp_param EXCEPT !.activeflag = 0, !.token = t], "idle")

(* The server's answer to the activation frame; it needs a connection, and *)
(* so a station configuration.                                             *)
Activated ==
    /\ sta_cfg
    /\ SaveParam([esp_param EXCEPT !.activeflag = 1], "idle")

(* user_esp_platform_sent reads an erased flag as "not active" and corrects *)
(* the RAM copy, without saving it.                                         *)
Sent ==
    /\ pc = "idle" /\ sta_cfg
    /\ esp_param.activeflag = 255
    /\ esp_param' = [esp_param EXCEPT !.activeflag = 0]
    /\ UNCHANGED <<sector, flag, slot, pc, after, sta_cfg>>

(* restart_10ms_cb hands the posted station configuration to the SDK.      *)
SetStation ==
    /\ pc = "idle"
    /\ sta_cfg' = TRUE
    /\ UNCHANGED <<esp_param, sector, flag, slot, pc, after>>

(* user_plug_long_press: set_active(0), system_restore, system_restart     *)
BugRestoreFirst ==
    /\ pc = "idle"
    /\ esp_param' = [esp_param EXCEPT !.activeflag = 0]
    /\ slot' = SpareSlot(flag)
    /\ pc' = "erase_data"
    /\ after' = "restore"
    /\ sta_cfg' = FALSE
    /\ UNCHANGED <<sector, flag>>

LongPress == SaveParam([esp_param EXCEPT !.activeflag = 0], "restore")

Restore ==
    /\ pc = "restore"
    /\ sta_cfg' = FALSE
    /\ pc' = "restart"
    /\ UNCHANGED <<esp_param, sector, flag, slot, after>>

Restart ==
    /\ pc = "restart"
    /\ pc' = "off"
    /\ UNCHANGED <<esp_param, sector, flag, slot, after, sta_cfg>>

-----------------------------------------------------------------------------
(* Power is lost: the operation under way has happened, has not, or was    *)
(* cut short.  A partial erase or write of the flag, which is 0 or 1 when  *)
(* complete, leaves a byte other than 0: the code reads all those alike,   *)
(* and 255 stands for them.                                                *)
DataAfterCut ==
    CASE pc = "erase_data" -> {sector[slot], Torn, ErasedParam}
      [] pc = "write_data" -> {sector[slot], Torn, esp_param}
      [] OTHER -> {sector[slot]}

FlagAfterCut ==
    CASE pc = "erase_flag" -> {flag, 255}
      [] pc = "write_flag" -> {flag, 255, slot}
      [] OTHER -> {flag}

PowerLoss ==
    /\ pc # "off"
    /\ pc' = "off"
    /\ \E d \in DataAfterCut : sector' = [sector EXCEPT ![slot] = d]
    /\ flag' \in FlagAfterCut
    /\ sta_cfg' \in IF pc = "restore" THEN {sta_cfg, FALSE} ELSE {sta_cfg}
    /\ UNCHANGED <<esp_param, slot, after>>

ParamNext ==
    \/ LoadAtBoot
    \/ \E t \in Token : SetToken(t)
    \/ Activated
    \/ Sent
    \/ SetStation
    \/ LongPress
    \/ EraseData
    \/ WriteData
    \/ EraseFlag
    \/ WriteFlag
    \/ Restore
    \/ Restart
    \/ PowerLoss

ParamSpec == ParamInit /\ [][ParamNext]_paramVars

-----------------------------------------------------------------------------
(* Every variable keeps to its type: the RAM copy is always a whole block, *)
(* a sector may be torn.                                                   *)
ParamTypeOK ==
    /\ esp_param \in Param
    /\ sector \in [{0, 1} -> Param \cup {Torn}]
    /\ flag \in FlagByte
    /\ slot \in {0, 1}
    /\ pc \in {"off", "idle", "erase_data", "write_data", "erase_flag",
               "write_flag", "restore", "restart"}
    /\ after \in {"idle", "restore"}
    /\ sta_cfg \in BOOLEAN

(* "protect write and erase data while power off": at every instant the    *)
(* block a reboot would load is whole and still holds the device key, so a *)
(* power loss at any point of a save never costs the device its identity.  *)
LoadIntact == LoadParam \in Param /\ LoadParam.devkey = "factory"

(* An erased activation flag means "not active".                           *)
Meaning(p) == IF p.activeflag = 255 THEN [p EXCEPT !.activeflag = 0] ELSE p

(* Outside a save, the RAM copy and what a reboot would load mean the same *)
(* thing: no token and no activation is ever held in RAM only.             *)
RamMatchesFlash ==
    pc \in {"idle", "restore", "restart"} => Meaning(LoadParam) = Meaning(esp_param)

(* A device that would boot as activated always has a station              *)
(* configuration: the factory reset of a long press deactivates before it  *)
(* wipes, so a power loss in the middle never leaves a device that         *)
(* believes it is active but cannot join any network.                      *)
ActiveHasStation == LoadParam.activeflag = 1 => sta_cfg

(* The refinement: a save is one atomic replacement of the stored block.   *)
Phase == CASE pc = "off" -> "off"
           [] pc \in {"idle", "restore", "restart"} -> "idle"
           [] OTHER -> "busy"

Atomic == INSTANCE AtomicParam WITH
            Value   <- {Meaning(p) : p \in Param},
            Factory <- Meaning(FactoryParam),
            phase   <- Phase,
            ram     <- Meaning(esp_param),
            stored  <- Meaning(LoadParam)

(* The flash sequence of save_param implements the atomic store.           *)
AtomicSave == Atomic!Spec
=============================================================================
