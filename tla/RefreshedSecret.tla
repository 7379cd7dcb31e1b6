-------------------------- MODULE RefreshedSecret --------------------------
(***************************************************************************)
(* What SecretController promises for one secret of the enterprise         *)
(* edition, without the controller: the client configuration in it is      *)
(* replaced in single steps, each by one made for exactly what the secret  *)
(* holds in that step, never by an older issue than the one it replaces;   *)
(* and what the user wrote stays as the user wrote it.                     *)
(***************************************************************************)
EXTENDS Naturals

CONSTANTS
    Users,   \* what a user may write: records with token, key and legacy
    NoUser,  \* there is no secret
    NoConf   \* there is no configuration in the secret

VARIABLES
    user,    \* what the user wrote, or NoUser
    writes,  \* how often a user wrote or deleted the secret
    issued,  \* the issue of the configuration the console hands out
    conf     \* initconfig: the user's data and the issue it was made for

vars == <<user, writes, issued, conf>>

Init ==
    /\ user = NoUser /\ conf = NoConf
    /\ writes = 0 /\ issued = 0

(* Both names of the access key may be there: the old one counts.           *)
AuthKey(u) == IF u.legacy # "none" THEN u.legacy ELSE u.key

UserWrites ==
    /\ user' \in Users
    /\ writes' = writes + 1
    /\ conf' \in {conf, NoConf}
    /\ UNCHANGED issued

UserDeletes ==
    /\ user # NoUser
    /\ user' = NoUser /\ conf' = NoConf
    /\ writes' = writes + 1
    /\ UNCHANGED issued

Issues ==
    /\ issued' = issued + 1
    /\ UNCHANGED <<user, writes, conf>>

(* The only change to the user's part: the new name of the key is filled in *)
(* from the old one.                                                        *)
Refresh ==
    /\ user # NoUser
    /\ \E i \in 0..issued :
          /\ conf # NoConf => conf.issue <= i
          /\ conf' = [token |-> user.token, key |-> AuthKey(user), issue |-> i]
    /\ user' = [user EXCEPT !.key = AuthKey(user)]
    /\ UNCHANGED <<writes, issued>>

Next == UserWrites \/ UserDeletes \/ Issues \/ Refresh

Spec == Init /\ [][Next]_vars

=============================================================================
