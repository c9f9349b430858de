------------------------------- MODULE Pages -------------------------------
(***************************************************************************)
(* The pages of Directory, and those of Settings: the two have tables and  *)
(* files of their own, so that a behaviour is of one or of the other. Both *)
(* are scripts over the same queue and the same files of a node (Backend). *)
(***************************************************************************)
EXTENDS Directory

CONSTANTS
    Policy, Name, Rule, DomainRow, Setting, None, Absent,   \* of Settings
    PolicyOf,           \* the policy of a rule
    FollowedSettings    \* the sets of files of the settings that are followed

SP == INSTANCE SettingsProofs WITH Of <- PolicyOf, Followed <- FollowedSettings

ASSUME PagesAssumption == SP!SettingsAssumption /\ "policy" \notin Row

InSettings == "policy" \in DOMAIN db
PagesInit == Init \/ SP!Init
PagesNext == (~ InSettings /\ Next) \/ (InSettings /\ SP!Next)
PagesSpec == PagesInit /\ [][PagesNext]_vars

(* The types of both. *)
PagesTypeOK == IF InSettings THEN SP!TypeOK ELSE TypeOK

(* A file of the settings is about to be put right when it is not what the   *)
(* rows say, whichever pages of controllers/settings about policies, rules,  *)
(* DKIM keys, MTA settings, scores and servers are used at once.             *)
SettingsFilesSettle == InSettings => SP!StaleIsPending
=============================================================================
