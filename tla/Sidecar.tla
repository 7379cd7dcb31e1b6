------------------------------ MODULE Sidecar ------------------------------
(***************************************************************************)
(* A pod that gets its volumes through sidecars.  The webhook              *)
(* (SidecarHandler) injects one mount container per JuiceFS claim and      *)
(* writes the secret that container reads; the kubelet (external) runs the *)
(* containers; when the application's containers have ended, AppController *)
(* unmounts the sidecars, so that the pod can complete.                    *)
(*                                                                         *)
(* One pod is followed.  Other admissions that use the same claims write   *)
(* the same secrets.  Containers are known by their position in the pod.   *)
(***************************************************************************)
EXTENDS MountSidecar

CONSTANTS
    Inputs,      \* pods that may be submitted, with their volumes: see Init
    Configs,     \* contents the configuration file may have
    Retries,     \* attempts to write the secret in case of conflicts
    MaxOther,    \* bound: writes of the secrets by other admissions
    MaxReload,   \* bound: changes of the configuration file
    MaxFail,     \* bound: requests, mounts and containers that fail
    MaxRestart,  \* bound: containers started again, restarts of the controller
    MaxAgain     \* bound: further admission requests for the same pod

ASSUME BoundAssumption ==
    /\ Retries \in Nat \ {0} /\ MaxOther \in Nat /\ MaxReload \in Nat
    /\ MaxFail \in Nat /\ MaxRestart \in Nat /\ MaxAgain \in Nat

(* The pods submitted are pods, and a cache-dir option names one directory  *)
(* at least, as every string that is split at its colons does.              *)
IsSeq(s) == Len(s) \in Nat /\ s = [i \in 1..Len(s) |-> s[i]]
VolumeOK(v) ==
    LET ctx == v.ann @@ v.attr
    IN  /\ ctx.cachePVC \in Nat /\ ctx.emptyDir \in BOOLEAN /\ ctx.inline \in Nat /\ ctx.hostPath \in Nat
        /\ v.configs \in Nat /\ IsSeq(v.opts)
        /\ \A i \in DOMAIN v.opts :
              IsOpt(v.opts[i], "cache-dir") => IsSeq(v.opts[i].v) /\ v.opts[i].v # <<>>

ASSUME InputAssumption ==
    \A in \in Inputs :
        /\ in.kind \in {"container", "serverless", "vci", "cci"}
        /\ in.apps \in Nat
        /\ IsSeq(in.claims)
        /\ \A i \in DOMAIN in.claims : in.claims[i] \in DOMAIN in.vol
        /\ \A c \in DOMAIN in.vol : VolumeOK(in.vol[c])

VARIABLES
    input,    \* the pod submitted: builder, restart policy, volumes of claims
    pod,      \* the pod: volumes, containers, label "injection is done"
    config,   \* config.GlobalConfig: the list of mount pod patches
    adm,      \* SidecarHandler.Handle: pc, pairs left, index, secret seen
    secrets,  \* the claims whose secret exists
    st,       \* state of each container, once the pod is admitted
    mounted,  \* sidecars (positions) whose file system is mounted
    restarts, \* how often each container was started again
    status,   \* the states and restarts in the API server
    queue,    \* whether the pod is in AppController's queue
    at,       \* position umountFuseSidecars has reached, 0 when it is idle
    left      \* what is left of the bounds

admission == <<config, pod, adm, secrets>>
running   == <<st, mounted, restarts>>
app       == <<status, queue, at>>
vars      == <<input, admission, running, app, left>>

Spend(k) == left[k] > 0 /\ left' = [left EXCEPT ![k] = @ - 1]

(* input.claims is the sequence of claims the volumes of the pod name, and  *)
(* input.vol[c] what claim c is bound to.                                   *)
AppVols(in) ==
    [i \in DOMAIN in.claims |-> [name |-> <<"data", Digit(i)>>, src |-> <<"claim", in.claims[i]>>]]
    \o When(in.clash, <<[name |-> <<"cachedir", "0">>, src |-> <<"own">>]>>)
AppMounts(in) == [i \in DOMAIN AppVols(in) |-> [vol |-> AppVols(in)[i].name, path |-> <<"/mnt", Digit(i)>>]]
AppCon(in, n) == [name |-> <<"app", Digit(n)>>, mounts |-> AppMounts(in), serves |-> "none"]

Idle == [pc |-> "wait", pairs |-> <<>>, index |-> 0, seen |-> "none", tries |-> Retries]

Init ==
    /\ input \in Inputs
    /\ pod = [vols |-> AppVols(input), done |-> FALSE, disabled |-> input.disabled,
              cons |-> [n \in 1..input.apps |-> AppCon(input, n)]]
    /\ config \in Configs
    /\ adm = Idle
    /\ secrets = {}
    /\ st = <<>> /\ mounted = {} /\ restarts = <<>> /\ status = [st |-> <<>>, restarts |-> <<>>]
    /\ queue = FALSE /\ at = 0
    /\ left = [other |-> MaxOther, reload |-> MaxReload, fail |-> MaxFail,
               restart |-> MaxRestart, again |-> MaxAgain]

-----------------------------------------------------------------------------
(* SidecarHandler.Handle                                                    *)

(* GetVolumes: the claims bound to a JuiceFS PV, in the order of the pod's  *)
(* volumes.  An unbound claim of a JuiceFS class is an error; so is an      *)
(* unbound claim whose class does not exist when no other claim follows it, *)
(* because nothing clears the error.                                        *)
GetVolumes ==
    LET State(i) == input.vol[input.claims[i]].state
        bad == \/ \E i \in DOMAIN input.claims : State(i) = "waits for JuiceFS"
               \/ input.claims # <<>> /\ State(Len(input.claims)) = "class unknown"
    IN  [err |-> bad,
         pairs |-> KeepAt(input.claims, {i \in DOMAIN input.claims : State(i) = "bound"})]

Admit  == /\ adm' = [Idle EXCEPT !.pc = "admitted"]
Refuse == /\ adm' = [Idle EXCEPT !.pc = "refused"]

Handle ==
    /\ adm.pc = "wait"
    /\ \/ (pod.done \/ pod.disabled) /\ Admit
       \/ /\ ~pod.done /\ ~pod.disabled
          /\ \/ GetVolumes.err /\ Refuse
             \/ ~GetVolumes.err /\ GetVolumes.pairs = <<>> /\ Admit
             \/ /\ ~GetVolumes.err /\ GetVolumes.pairs # <<>>
                /\ adm' = [Idle EXCEPT !.pc = "settings", !.pairs = GetVolumes.pairs]
    /\ UNCHANGED <<input, config, pod, secrets, running, app, left>>

Pair    == Head(adm.pairs)
Setting == ParseSetting(Pair, input.vol[Pair])

(* GetSettings and Settings may fail; a claim below 1 GiB is refused.       *)
Settings ==
    /\ adm.pc = "settings"
    /\ \/ input.vol[Pair].small /\ Refuse /\ UNCHANGED left
       \/ ~input.vol[Pair].small /\ adm' = [adm EXCEPT !.pc = "getSecret"] /\ UNCHANGED left
       \/ Spend("fail") /\ Refuse
    /\ UNCHANGED <<input, config, pod, secrets, running, app>>

(* createOrUpdateSecret: GetSecret, then CreateSecret or UpdateSecret.      *)
GetSecret ==
    /\ adm.pc = "getSecret"
    /\ adm' = [adm EXCEPT !.pc = "putSecret", !.seen = IF Pair \in secrets THEN "current" ELSE "none"]
    /\ UNCHANGED <<input, config, pod, secrets, running, app, left>>

(* Only a conflict is retried: a secret that another admission created      *)
(* meanwhile is not.                                                        *)
PutSecret ==
    /\ adm.pc = "putSecret"
    /\ \/ /\ adm.seen = "current" \/ (adm.seen = "none" /\ Pair \notin secrets)
          /\ secrets' = secrets \cup {Pair}
          /\ adm' = [adm EXCEPT !.pc = "inject", !.tries = Retries]
       \/ /\ adm.seen = "none" /\ Pair \in secrets
          /\ Refuse /\ UNCHANGED secrets
       \/ /\ adm.seen = "stale"
          /\ IF adm.tries > 1 THEN adm' = [adm EXCEPT !.pc = "getSecret", !.tries = @ - 1] ELSE Refuse
          /\ UNCHANGED secrets
    /\ UNCHANGED <<input, config, pod, running, app, left>>

(* A container name the pod already has gets the index, a volume name it    *)
(* already has gets the container name in front, in the volume and in the   *)
(* first mount of it.                                                       *)
Clashes(name) == name \notin SharedNames /\ \E i \in DOMAIN pod.vols : pod.vols[i].name = name
FirstMount(sc, j) == \A i \in 1..(j - 1) : sc.mounts[i].vol # sc.mounts[j].vol
Renamed(sc, name) == \E i \in DOMAIN sc.vols : sc.vols[i].name = name /\ Clashes(name)

NewName(sc, index) ==
    LET name[i \in 0..Len(pod.cons)] ==
            IF i = 0 THEN sc.name
            ELSE name[i - 1] \o When(pod.cons[i].name = name[i - 1], <<Digit(index)>>)
    IN  name[Len(pod.cons)]

RenameVolume(v, new) == IF Clashes(v.name) THEN [v EXCEPT !.name = new \o @] ELSE v

(* Seeded fault: the mounts keep the names the builder gave.                *)
DeduplicateVolumes(sc, index) ==
    LET new == NewName(sc, index)
    IN  [sc EXCEPT !.name = new,
                   !.vols = [i \in DOMAIN sc.vols |-> RenameVolume(sc.vols[i], new)]]

Deduplicate(sc, index) ==
    LET new == NewName(sc, index)
    IN  [sc EXCEPT
           !.name = new,
           !.vols = [i \in DOMAIN sc.vols |-> RenameVolume(sc.vols[i], new)],
           !.mounts = [j \in DOMAIN sc.mounts |->
                          IF Renamed(sc, sc.mounts[j].vol) /\ FirstMount(sc, j)
                          THEN [sc.mounts[j] EXCEPT !.vol = new \o @] ELSE sc.mounts[j]]]

injectVolume(sc, claim) ==
    LET have == {pod.vols[i].name : i \in DOMAIN pod.vols}
        kept == KeepAt(sc.vols, {i \in DOMAIN sc.vols : sc.vols[i].name \notin SharedNames \cap have})
    IN  [i \in DOMAIN pod.vols |-> IF pod.vols[i].src = <<"claim", claim>>
                                   THEN OverwriteVolumes(input.kind, pod.vols[i], sc.point)
                                   ELSE pod.vols[i]] \o kept

(* Seeded fault: the sidecar is put after the application's containers.     *)
injectContainerLast(sc) == Append(pod.cons, sc)

injectContainer(sc) == <<sc>> \o pod.cons

(* The rest of mutate; the random mount path is a new one.                  *)
Mutate ==
    /\ adm.pc = "inject"
    /\ LET sc == Deduplicate(NewMountSidecar(input.kind, Setting, config, Digit(adm.index), pod.vols), adm.index)
       IN  pod' = [pod EXCEPT !.vols = injectVolume(sc, Pair), !.cons = injectContainer(sc), !.done = TRUE]
    /\ IF Len(adm.pairs) = 1 THEN Admit
       ELSE adm' = [adm EXCEPT !.pc = "settings", !.pairs = Tail(@), !.index = @ + 1]
    /\ UNCHANGED <<input, config, secrets, running, app, left>>

(* The API server asks the webhook again for the pod it already mutated.    *)
AskAgain ==
    /\ adm.pc = "admitted" /\ st = <<>> /\ Spend("again")
    /\ adm' = Idle
    /\ UNCHANGED <<input, config, pod, secrets, running, app>>

(* Another admission writes the secret of a claim.                          *)
OtherAdmission(c) ==
    /\ adm.pc \in {"settings", "getSecret", "putSecret"} /\ Spend("other")
    /\ secrets' = secrets \cup {c}
    /\ adm' = IF adm.pc = "putSecret" /\ c = Pair /\ adm.seen = "current"
              THEN [adm EXCEPT !.seen = "stale"] ELSE adm
    /\ UNCHANGED <<input, config, pod, running, app>>

(* The file changes and is loaded; a file that cannot be parsed changes     *)
(* nothing.                                                                 *)
LoadConfig ==
    /\ adm.pc \in {"wait", "settings", "getSecret", "putSecret", "inject"} /\ Spend("reload")
    /\ config' \in Configs
    /\ UNCHANGED <<input, pod, adm, secrets, running, app>>

-----------------------------------------------------------------------------
(* The kubelet                                                              *)

N         == Len(pod.cons)
IsSidecar(i) == pod.cons[i].name[1] = "jfs-mount"
Sidecars  == {i \in 1..N : IsSidecar(i)}
AppCons   == 1..N \ Sidecars
Started   == st # <<>>
Ended(s)  == s \in {"exited", "failed"}

(* From here on nothing of the admission matters any more.                  *)
Schedule ==
    /\ adm.pc = "admitted" /\ ~Started
    /\ st' = [i \in 1..N |-> "waiting"] /\ restarts' = [i \in 1..N |-> 0]
    /\ left' = [left EXCEPT !.other = 0, !.reload = 0, !.again = 0]
    /\ UNCHANGED <<input, admission, mounted, app>>

(* Containers start in order; the next one waits for the postStart hook of  *)
(* a sidecar, which waits for the mount.                                    *)
StartContainer(i) ==
    /\ Started /\ st[i] = "waiting"
    /\ \A j \in 1..(i - 1) : st[j] \notin {"waiting", "starting"}
    /\ st' = [st EXCEPT ![i] = IF IsSidecar(i) THEN "starting" ELSE "running"]
    /\ UNCHANGED <<input, admission, mounted, restarts, app, left>>

PostStart(i) ==
    /\ Started /\ st[i] = "starting"
    /\ \/ /\ st' = [st EXCEPT ![i] = "running"]
          /\ mounted' = mounted \cup {i} /\ UNCHANGED left
       \/ /\ Spend("fail")
          /\ st' = [st EXCEPT ![i] = "failed"] /\ UNCHANGED mounted
    /\ UNCHANGED <<input, admission, restarts, app>>

AppEnds(i) ==
    /\ Started /\ i \in AppCons /\ st[i] = "running"
    /\ \E r \in {"exited", "failed"} : st' = [st EXCEPT ![i] = r]
    /\ UNCHANGED <<input, admission, mounted, restarts, app, left>>

SidecarFails(i) ==
    /\ Started /\ i \in Sidecars /\ st[i] = "running" /\ Spend("fail")
    /\ st' = [st EXCEPT ![i] = "failed"] /\ mounted' = mounted \ {i}
    /\ UNCHANGED <<input, admission, restarts, app>>

(* The mount process ends when its file system is unmounted.                *)
SidecarExits(i) ==
    /\ Started /\ i \in Sidecars \ mounted /\ st[i] = "running"
    /\ st' = [st EXCEPT ![i] = "exited"]
    /\ UNCHANGED <<input, admission, mounted, restarts, app, left>>

RestartContainer(i) ==
    /\ Started /\ Spend("restart")
    /\ \/ input.policy = "Always" /\ Ended(st[i])
       \/ input.policy = "OnFailure" /\ st[i] = "failed"
    /\ st' = [st EXCEPT ![i] = IF IsSidecar(i) THEN "starting" ELSE "running"]
    /\ restarts' = [restarts EXCEPT ![i] = @ + 1]
    /\ UNCHANGED <<input, admission, mounted, app>>

-----------------------------------------------------------------------------
(* AppController                                                            *)

(* The phase the kubelet reports with the states.                           *)
PhaseRunning(s) ==
    /\ \A i \in DOMAIN s : s[i] # "waiting"
    /\ \E i \in DOMAIN s : ~Ended(s[i]) \/ (s[i] = "failed" /\ input.policy = "OnFailure")

(* Seeded fault: the pod must have more than two containers.                *)
ShouldInQueueThree(s) ==
    /\ ~pod.disabled /\ input.policy # "Always" /\ Sidecars # {}
    /\ PhaseRunning(s) /\ Len(s) > 2
    /\ \A i \in AppCons : Ended(s[i])
    /\ \A i \in Sidecars : s[i] = "running"

ShouldInQueue(s) ==
    /\ ~pod.disabled /\ input.policy # "Always" /\ Sidecars # {}
    /\ PhaseRunning(s) /\ Len(s) >= 2
    /\ \A i \in AppCons : Ended(s[i])
    /\ \A i \in Sidecars : s[i] = "running"

Observed == [st |-> st, restarts |-> restarts]

(* The kubelet reports and the watch sees it (SetupWithManager).            *)
Report ==
    /\ status # Observed
    /\ status' = Observed
    /\ queue' = (queue \/ ShouldInQueue(st))
    /\ UNCHANGED <<input, admission, running, at, left>>

(* A GetPod that fails puts the request back: nothing changes.              *)
Reconcile ==
    /\ queue /\ at = 0
    /\ queue' = FALSE
    /\ at' = IF ShouldInQueue(status.st) THEN 1 ELSE 0
    /\ UNCHANGED <<input, admission, running, status, left>>

HasHook == at \in Sidecars /\ pod.cons[at].preStop
Next1   == at' = IF at = N THEN 0 ELSE at + 1

(* A container that is not a sidecar, or has no preStop hook, is passed by. *)
SkipContainer ==
    /\ at # 0 /\ ~HasHook
    /\ Next1
    /\ UNCHANGED <<input, admission, running, status, queue, left>>

umountFuseSidecar ==
    /\ HasHook
    /\ st[at] = "running"
    /\ mounted' = mounted \ {at}
    /\ Next1
    /\ UNCHANGED <<input, admission, st, restarts, status, queue, left>>

(* The command fails, as it does in a container that has ended: the loop    *)
(* ends, and the request goes back to the queue.                            *)
umountFuseSidecarFails ==
    /\ HasHook
    /\ \/ st[at] # "running" /\ UNCHANGED left
       \/ st[at] = "running" /\ Spend("fail")
    /\ at' = 0 /\ queue' = TRUE
    /\ UNCHANGED <<input, admission, running, status>>

(* A new controller lists the pods it watches.                              *)
ControllerRestarts ==
    /\ status.st # <<>> /\ Spend("restart")
    /\ at' = 0 /\ queue' = ShouldInQueue(status.st)
    /\ UNCHANGED <<input, admission, running, status>>

-----------------------------------------------------------------------------
Next ==
    \/ Handle \/ Settings \/ GetSecret \/ PutSecret \/ Mutate \/ AskAgain \/ LoadConfig
    \/ \E c \in DOMAIN input.vol : OtherAdmission(c)
    \/ Schedule
    \/ \E i \in 1..N : \/ StartContainer(i) \/ PostStart(i) \/ AppEnds(i)
                       \/ SidecarFails(i) \/ SidecarExits(i) \/ RestartContainer(i)
    \/ Report \/ Reconcile \/ SkipContainer
    \/ umountFuseSidecar \/ umountFuseSidecarFails \/ ControllerRestarts

Spec == Init /\ [][Next]_vars

(* The kubelet reports states and the processes it runs go on; the          *)
(* controller's worker goes on.  Nothing says when an application ends.     *)
FairSpec ==
    /\ Spec
    /\ WF_vars(Report) /\ WF_vars(Reconcile) /\ WF_vars(SkipContainer)
    /\ WF_vars(umountFuseSidecar \/ umountFuseSidecarFails)
    /\ WF_vars(\E i \in 1..N : SidecarExits(i) \/ PostStart(i) \/ StartContainer(i))

-----------------------------------------------------------------------------
SidecarsFor(c)   == {i \in Sidecars : pod.cons[i].serves = c}
Source(name)     == {pod.vols[i].src : i \in {k \in DOMAIN pod.vols : pod.vols[k].name = name}}
Distinct(s)      == \A i, j \in DOMAIN s : s[i].name = s[j].name => i = j
ClaimsDistinct   == \A i, j \in DOMAIN input.claims : input.claims[i] = input.claims[j] => i = j
Admitted         == adm.pc = "admitted"

(* The volumes the builder of sidecar i made, as the pod should have them.  *)
Own(i) == LET c == pod.cons[i].serves
          IN  {Secret(c)} \cup {s \in {pod.vols[k].src : k \in DOMAIN pod.vols} :
                    \/ Len(s) > 1 /\ s[1] \in {"config", "cacheClaim", "emptyDir", "inline"} /\ s[2] \in {c, "of the pod"}
                    \/ s[1] = "hostPath"}

(* An admitted pod is wired as its volumes say: there is one sidecar per    *)
(* use of a JuiceFS claim, no two containers or volumes share a name, every *)
(* mount of a sidecar names one volume and that volume is its own           *)
(* builder's, and every mount of the application that named a JuiceFS claim *)
(* leads to the mount path of a sidecar that serves this claim, also when   *)
(* the webhook is asked again (Deduplicate, injectVolume).  A VCI pod may   *)
(* name a claim only once: its second sidecar would have no volume to share.*)
Wired ==
    Admitted /\ pod.done /\ (input.kind # "vci" \/ ClaimsDistinct) =>
        /\ \A c \in DOMAIN input.vol :
              Cardinality(SidecarsFor(c)) = Cardinality({i \in DOMAIN input.claims :
                                                input.claims[i] = c /\ input.vol[c].state = "bound"})
        /\ Distinct(pod.cons) /\ Distinct(pod.vols)
        /\ \A i \in Sidecars : \A j \in DOMAIN pod.cons[i].mounts :
              Source(pod.cons[i].mounts[j].vol) # {} /\ Source(pod.cons[i].mounts[j].vol) \subseteq Own(i)
        /\ \A k \in DOMAIN input.claims :
              LET c   == input.claims[k]
                  src == Source(<<"data", Digit(k)>>)
              IN  input.vol[c].state = "bound" =>
                    \E i \in SidecarsFor(c) :
                        \/ src \in {{<<"mountpoint", pod.cons[i].point>>}, {<<"cci", pod.cons[i].point>>}}
                        \/ /\ input.kind = "vci"
                           /\ \E j \in DOMAIN pod.cons[i].mounts : pod.cons[i].mounts[j].vol = <<"data", Digit(k)>>

(* Every cache directory the mount command names lies on a volume of the    *)
(* sidecar: of the host, of a claim, an empty dir or an inline volume. Only *)
(* "memory", and in serverless pods the directories of the cache-dir        *)
(* option, do not (ParseSetting, genCacheDirVolumes).                       *)
CachesBacked ==
    Admitted => \A i \in Sidecars :
        LET sc     == pod.cons[i]
            opts   == input.vol[sc.serves].opts
            listed == IF CacheOpt(opts) = 0 THEN <<>> ELSE opts[CacheOpt(opts)].v
        IN  \A d \in ToSet(CacheDirOption(sc.options)) \ ({Memory} \cup
                        (IF input.kind = "container" THEN {} ELSE ToSet(listed))) :
                \E j \in DOMAIN sc.mounts : sc.mounts[j].path = d /\ Source(sc.mounts[j].vol) # {}

(* The directory that gets the quota is the one the sidecar mounts, for     *)
(* every combination of subdir options and subPath (getQuotaPath reads the  *)
(* options before overwriteSubdirWithSubPath changes them).                 *)
QuotaOnMounted ==
    Admitted => \A i \in Sidecars :
        input.vol[pod.cons[i].serves].subPath # <<>> => pod.cons[i].quotaPath = Subdir(pod.cons[i].options)

(* As long as a container of the application runs for the first time, every *)
(* sidecar that did not fail is mounted: it was before the container        *)
(* started, and AppController does not unmount it before the container      *)
(* ends, whatever states it has read (injectContainer, ShouldInQueue).      *)
ServedWhileRunning ==
    Started => \A a \in AppCons, i \in Sidecars :
        st[a] = "running" /\ restarts[a] = 0 /\ st[i] # "failed" /\ restarts[i] = 0 => i \in mounted

AppsEnded == Started /\ Sidecars # {} /\ \A a \in AppCons : Ended(st[a])
Completed == Started /\ \A i \in Sidecars : Ended(st[i])
(* After a failure, or a restart of the controller between two sidecars,    *)
(* one has ended and another has not: AppController waits for all to run.   *)
Stranded  == /\ Started /\ (left.fail < MaxFail \/ left.restart < MaxRestart)
             /\ status = Observed /\ ~queue /\ at = 0
             /\ \E i, j \in Sidecars : Ended(st[i]) /\ st[j] = "running"

(* A pod that is not to be restarted completes after its application ended: *)
(* every sidecar is unmounted and ends, unless a container of the           *)
(* application runs again, a patched lifecycle has no preStop hook, or a    *)
(* failure or a restart of the controller has left some of several sidecars *)
(* behind.                                                                  *)
Completes ==
    (AppsEnded /\ ~pod.disabled /\ input.policy # "Always" /\ \A i \in Sidecars : pod.cons[i].preStop)
        ~> (Completed \/ ~AppsEnded \/ Stranded)

=============================================================================
