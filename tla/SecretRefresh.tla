--------------------------- MODULE SecretRefresh ---------------------------
(***************************************************************************)
(* SecretController and one secret.  Reconcile reads the secret, runs the  *)
(* auth command of the client, and writes the configuration it printed     *)
(* into the secret, with the resource version that it read; then it waits  *)
(* for an hour, or for the next change of the secret, its own one too.     *)
(***************************************************************************)
EXTENDS Naturals

CONSTANTS
    Tokens,    \* tokens a user may write; "none" for a secret without token
    Valid,     \* those the console accepts
    Keys       \* access keys; a user writes one under the new or the old name

VARIABLES
    secret,        \* the secret in the API server
    issued,        \* the issue of the configuration the console hands out
    refreshQ,      \* whether the secret is in the controller's queue
    refreshTimer,  \* whether a requeue after an hour is pending
    refreshW,      \* the controller's Reconcile under way
    written,       \* history: how often a user wrote or deleted the secret
    refreshLeft    \* bounds: writes in all; issues and failures that are left

refreshVars == <<secret, issued, refreshQ, refreshTimer, refreshW, written, refreshLeft>>

NoConf   == [token |-> "none", key |-> "none", issue |-> 0]
NoSecret == [rv |-> 0, token |-> "none", key |-> "none", legacy |-> "none", conf |-> NoConf]
RefreshIdle == [pc |-> "idle", copy |-> NoSecret, conf |-> NoConf]

RefreshInit(bounds) ==
    /\ secret = NoSecret
    /\ issued = 0
    /\ refreshQ = FALSE /\ refreshTimer = FALSE
    /\ refreshW = RefreshIdle
    /\ written = 0 /\ refreshLeft = bounds

Write == written < refreshLeft.writes /\ written' = written + 1 /\ UNCHANGED refreshLeft
SpendRefresh(k) == refreshLeft[k] > 0 /\ refreshLeft' = [refreshLeft EXCEPT ![k] = @ - 1]

-----------------------------------------------------------------------------
(* The user and the console                                                 *)

(* The resource version of a new secret is another one than any before.     *)
NextVersion == IF secret.rv = 0 THEN refreshW.copy.rv + 1 ELSE secret.rv + 1

UserWrites(t, k, l) ==
    /\ Write
    /\ \E conf \in {secret.conf, NoConf} :
          secret' = [rv |-> NextVersion, token |-> t, key |-> k, legacy |-> l, conf |-> conf]
    /\ refreshQ' = TRUE
    /\ UNCHANGED <<issued, refreshTimer, refreshW>>

(* The predicate drops the event of a deletion.                             *)
UserDeletes ==
    /\ secret # NoSecret /\ Write
    /\ secret' = NoSecret
    /\ UNCHANGED <<issued, refreshQ, refreshTimer, refreshW>>

ConsoleIssues ==
    /\ SpendRefresh("issue")
    /\ issued' = issued + 1
    /\ UNCHANGED <<secret, refreshQ, refreshTimer, refreshW, written>>

-----------------------------------------------------------------------------
(* Reconcile                                                                *)

RefreshRetry == refreshW' = RefreshIdle /\ refreshQ' = TRUE

SecretGet ==
    /\ refreshQ /\ refreshW.pc = "idle"
    /\ refreshQ' = FALSE
    /\ refreshW' = IF secret.token = "none" THEN refreshW
                   ELSE [pc |-> "auth", copy |-> secret, conf |-> NoConf]
    /\ UNCHANGED <<secret, issued, refreshTimer, written, refreshLeft>>

(* AuthFs: the value under the old name of the key replaces the one under   *)
(* the new name.                                                            *)
AuthKey(s) == IF s.legacy # "none" THEN s.legacy ELSE s.key

AuthFs ==
    /\ refreshW.pc = "auth" /\ refreshW.copy.token \in Valid
    /\ refreshW' = [refreshW EXCEPT !.pc = "update",
                       !.conf = [token |-> refreshW.copy.token, key |-> AuthKey(refreshW.copy), issue |-> issued]]
    /\ UNCHANGED <<secret, issued, refreshQ, refreshTimer, written, refreshLeft>>

(* Settings, the command, its time limit or the file it writes.             *)
AuthFsFails ==
    /\ refreshW.pc = "auth"
    /\ \/ refreshW.copy.token \notin Valid /\ UNCHANGED refreshLeft
       \/ SpendRefresh("fail")
    /\ RefreshRetry
    /\ UNCHANGED <<secret, issued, refreshTimer, written>>

Written == [refreshW.copy EXCEPT !.key = AuthKey(refreshW.copy), !.conf = refreshW.conf]

(* Seeded fault: the secret is written whatever its version is now.         *)
UpdateAdmittedBlind == secret # NoSecret

UpdateAdmitted == secret # NoSecret /\ secret.rv = refreshW.copy.rv

(* Seeded fault: the secret is not looked at again after an hour.           *)
RequeueNever == refreshTimer' = refreshTimer

Requeue == refreshTimer' = TRUE

(* An update that changes nothing makes no new version and no event.        *)
UpdateSecret ==
    /\ refreshW.pc = "update" /\ UpdateAdmitted
    /\ IF Written = secret THEN UNCHANGED <<secret, refreshQ>>
       ELSE secret' = [Written EXCEPT !.rv = NextVersion] /\ refreshQ' = TRUE
    /\ Requeue
    /\ refreshW' = RefreshIdle
    /\ UNCHANGED <<issued, written, refreshLeft>>

UpdateSecretFails ==
    /\ refreshW.pc = "update"
    /\ \/ ~UpdateAdmitted /\ UNCHANGED refreshLeft
       \/ UpdateAdmitted /\ SpendRefresh("fail")
    /\ RefreshRetry
    /\ UNCHANGED <<secret, issued, refreshTimer, written>>

HourPasses ==
    /\ refreshTimer
    /\ refreshTimer' = FALSE /\ refreshQ' = TRUE
    /\ UNCHANGED <<secret, issued, refreshW, written, refreshLeft>>

(* A new controller lists the secrets.                                      *)
RefreshRestarts ==
    /\ refreshQ' = (secret # NoSecret)
    /\ refreshTimer' = FALSE
    /\ refreshW' = RefreshIdle
    /\ UNCHANGED <<secret, issued, written, refreshLeft>>

-----------------------------------------------------------------------------
RefreshWorks == SecretGet \/ AuthFs \/ AuthFsFails \/ UpdateSecret \/ UpdateSecretFails

RefreshNext ==
    \/ \E t \in Tokens, k, l \in Keys \cup {"none"} : UserWrites(t, k, l)
    \/ UserDeletes \/ ConsoleIssues
    \/ RefreshWorks \/ HourPasses

RefreshFairness == WF_refreshVars(RefreshWorks) /\ WF_refreshVars(HourPasses)

=============================================================================
