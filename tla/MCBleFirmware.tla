---------------------------- MODULE MCBleFirmware ----------------------------
(* BleLink for TLC with firmware that asks for encryption and stays as it is, *)
(* and with firmware that does not and whose database changes.  A behaviour   *)
(* is one of the firmware it begins with; the properties are BleLink's.       *)
EXTENDS BleLink

CONSTANTS Databases    \* of the firmware that changes its own

VARIABLES firmware

all == <<firmware, vars>>

Changing == INSTANCE BleLink WITH Secured <- FALSE, Images <- Databases

AllInit == firmware \in {"secured", "changing"} /\ IF firmware = "secured" THEN Init ELSE Changing!Init

SecuredStep == firmware = "secured" /\ Next /\ UNCHANGED firmware
ChangingStep == firmware = "changing" /\ Changing!Next /\ UNCHANGED firmware

AllNext == SecuredStep \/ ChangingStep

AllSpec == AllInit /\ [][AllNext]_all
=============================================================================
