---------------------------- MODULE MountSidecar ----------------------------
(***************************************************************************)
(* What the webhook injects for one volume: the settings read from the     *)
(* PV, the claim and the driver's configuration (ParseSetting,             *)
(* GenPodAttrWithCfg), and the sidecar container that each of the four     *)
(* builders makes of them, with its volumes and mounts.                    *)
(*                                                                         *)
(* A name or a path is the sequence of its parts: the container            *)
(* "jfs-mount-1" is <<"jfs-mount", "1">>, renaming to "%s-%s" is \o.       *)
(* The source of a volume is a sequence that begins with its kind.         *)
(* A volume v that a claim is bound to is a record:                        *)
(*   attr    the attributes of the PV, under the keys of CtxKeys           *)
(*   ann     the annotations of the claim, which overwrite them            *)
(*   opts    the mount options, a sequence of [k, v]                       *)
(*   subPath the subPath attribute, which no annotation overwrites         *)
(*   rsa, init, configs  what its secret holds                             *)
(*   small   the claim asks for less than one GiB                          *)
(*   labelled, static    whether a selector matches the claim's labels,    *)
(*           and whether the PV has another name than its volume handle    *)
(*   immutable  config.Immutable, the same for all volumes of a pod        *)
(***************************************************************************)
EXTENDS Naturals, Sequences, SequencesExt, FiniteSetsExt, TLC

CtxKeys == {"cachePVC", "emptyDir", "inline", "hostPath"}

Digit(i)     == <<"0", "1", "2", "3", "4">>[i + 1]
When(b, s)   == IF b THEN s ELSE <<>>
Opt(k, v)    == [k |-> k, v |-> v]
IsOpt(o, k)  == o.k = k

(* The elements of a sequence at the positions of a set, in their order.    *)
KeepAt(s, at) ==
    LET kept[i \in 0..Len(s)] ==
            IF i = 0 THEN <<>> ELSE kept[i - 1] \o When(i \in at, <<s[i]>>)
    IN  kept[Len(s)]

(* A volume of the sidecar, and where the sidecar mounts it.                *)
Item(name, src, path) == [name |-> name, src |-> src, path |-> path]
VolsOf(items)   == [i \in DOMAIN items |-> [name |-> items[i].name, src |-> items[i].src]]
MountsOf(items) == [i \in DOMAIN items |-> [vol |-> items[i].name, path |-> items[i].path]]

-----------------------------------------------------------------------------
(* Settings                                                                 *)

(* The first cache-dir option, 0 when there is none.                        *)
CacheOpt(opts) == LET at == {i \in DOMAIN opts : IsOpt(opts[i], "cache-dir")}
                  IN  IF at = {} THEN 0 ELSE Min(at)

cachePVCPath(i) == <<"/var/jfsCache", Digit(i - 1)>>
emptyDirPath    == <<"/var/jfsCache", "emptyDir">>
inlinePath(i)   == <<"/var/jfsCache", "inlineVolume", Digit(i - 1)>>
defaultCacheDir == <<"/var/jfsCache">>
Memory          == <<"memory">>

(* The cache directories are those of claims, of an empty dir, of inline    *)
(* volumes and of the cache-dir option, in this order; the first cache-dir  *)
(* option is replaced by one at the end that names them all.                *)
ParseSetting(c, v) ==
    LET ctx    == v.ann @@ v.attr
        at     == CacheOpt(v.opts)
        listed == IF at = 0 THEN <<>> ELSE v.opts[at].v
        rest   == IF at = 0 THEN v.opts ELSE RemoveAt(v.opts, at)
        dirs   == [i \in 1..ctx.cachePVC |-> cachePVCPath(i)]
                  \o When(ctx.emptyDir, <<emptyDirPath>>)
                  \o [i \in 1..ctx.inline |-> inlinePath(i)]
                  \o listed
        host   == IF dirs = <<>> THEN <<defaultCacheDir>> ELSE listed
    IN  [Claim     |-> c,
         Options   |-> IF dirs = <<>> THEN v.opts ELSE Append(rest, Opt("cache-dir", dirs)),
         CacheDirs |-> KeepAt(host, {i \in DOMAIN host : host[i] # Memory}),
         CachePVCs |-> ctx.cachePVC, CacheEmptyDir |-> ctx.emptyDir,
         CacheInlineVolumes |-> ctx.inline, HostPath |-> ctx.hostPath,
         SubPath |-> v.subPath, EncryptRsaKey |-> v.rsa, InitConfig |-> v.init,
         Configs |-> v.configs, PVC |-> ~v.static, labelled |-> v.labelled,
         Immutable |-> v.immutable]

(* The last patch that matches and sets a lifecycle wins.  A patch with a   *)
(* selector is skipped when the settings do not know the claim.             *)
GenMountPodPatch(cfg, s) ==
    LET Matches(p) == ~p.selector \/ (s.PVC /\ s.labelled)
    IN  FoldLeft(LAMBDA got, p : IF Matches(p) /\ p.lifecycle # "none" THEN p.lifecycle ELSE got,
                 "none", cfg)

(* Without a patched lifecycle the container unmounts before it stops.      *)
HasPreStop(cfg, s) == GenMountPodPatch(cfg, s) \in {"none", "preStop"}

-----------------------------------------------------------------------------
(* The options of the mount command and the path of the quota               *)

(* Of an option that is given several times the last one counts.            *)
LastOpt(opts, k) == LET at == {i \in DOMAIN opts : IsOpt(opts[i], k)}
                    IN  IF at = {} THEN <<>> ELSE opts[Max(at)].v
Subdir(opts)     == LastOpt(opts, "subdir")
NoSubdir(opts)   == KeepAt(opts, {i \in DOMAIN opts : ~IsOpt(opts[i], "subdir")})

getQuotaPath(s) == Subdir(s.Options) \o s.SubPath

(* Seeded fault: the subdir option the user gave is lost.                   *)
overwriteSubdirAlone(s) ==
    IF s.SubPath = <<>> THEN s.Options
    ELSE Append(NoSubdir(s.Options), Opt("subdir", s.SubPath))

overwriteSubdirWithSubPath(s) ==
    IF s.SubPath = <<>> THEN s.Options
    ELSE Append(NoSubdir(s.Options), Opt("subdir", Subdir(s.Options) \o s.SubPath))

(* The cache directories the mount command ends with.                       *)
CacheDirOption(opts) == LastOpt(opts, "cache-dir")

-----------------------------------------------------------------------------
(* Volumes                                                                  *)

JfsDirName      == <<"jfs-dir">>
UpdateDBDirName == <<"updatedb">>
SharedNames     == {JfsDirName, UpdateDBDirName}
Secret(c)       == <<"secret", c>>
CheckMount(s)   == Item(<<"jfs-check-mount">>, Secret(s.Claim), <<"/usr/local/bin/check_mount.sh">>)
JfsDir          == Item(JfsDirName, <<"hostPath", "jfs-dir">>, <<"/jfs">>)

genJuiceVolumes(s) ==
    When(s.EncryptRsaKey, <<Item(<<"rsa-key">>, Secret(s.Claim), <<"/root/.rsa">>)>>)
    \o When(s.InitConfig, <<Item(<<"init-config">>, Secret(s.Claim), <<"/root/.config">>)>>)
    \o [i \in 1..s.Configs |-> Item(<<"config", Digit(i)>>, <<"config", s.Claim, Digit(i)>>,
                                    <<"/config", Digit(i)>>)]

(* jfs-dir, and updatedb.conf of the host unless the host is immutable.     *)
genPodVolumes(s) ==
    <<JfsDir>> \o When(~s.Immutable,
                       <<Item(UpdateDBDirName, <<"hostPath", "updatedb">>, <<"/etc/updatedb.conf">>)>>)

cacheHostDirs(s) ==
    [i \in DOMAIN s.CacheDirs |->
        Item(<<"cachedir", Digit(i - 1)>>, <<"hostPath">> \o s.CacheDirs[i], s.CacheDirs[i])]
cacheClaims(s) ==
    [i \in 1..s.CachePVCs |->
        Item(<<"cachedir", "pvc", Digit(i - 1)>>, <<"cacheClaim", s.Claim, Digit(i - 1)>>, cachePVCPath(i))]
    \o When(s.CacheEmptyDir, <<Item(<<"cachedir", "empty-dir">>, <<"emptyDir", s.Claim>>, emptyDirPath)>>)
cacheInline(s) ==
    [i \in 1..s.CacheInlineVolumes |->
        Item(<<"cachedir", "inline-volume", Digit(i - 1)>>, <<"inline", s.Claim, Digit(i - 1)>>, inlinePath(i))]

(* Seeded fault: the builder does not know inline volumes.                  *)
genServerlessCacheNoInline(s) == cacheClaims(s)

genServerlessCacheVolumes(s) == cacheClaims(s) \o cacheInline(s)
genCacheDirVolumes(s)        == cacheHostDirs(s) \o cacheClaims(s) \o cacheInline(s)

genHostPathVolumes(s) ==
    [i \in 1..s.HostPath |->
        Item(<<"hostpath", Digit(i - 1)>>, <<"hostPath", s.Claim, Digit(i - 1)>>, <<"/host", s.Claim, Digit(i - 1)>>)]

-----------------------------------------------------------------------------
(* Builders                                                                 *)

MountContainerName == <<"jfs-mount">>

(* What all four have in common.  point is the random mount path.           *)
Sidecar(name, s, cfg, point, items) ==
    [name |-> name, serves |-> s.Claim, point |-> point,
     vols |-> VolsOf(items), mounts |-> MountsOf(items),
     preStop |-> HasPreStop(cfg, s), quotaPath |-> getQuotaPath(s),
     options |-> overwriteSubdirWithSubPath(s)]

ContainerBuilder(s, cfg, point) ==
    Sidecar(MountContainerName, s, cfg, point,
            genJuiceVolumes(s) \o genPodVolumes(s) \o genCacheDirVolumes(s)
            \o genHostPathVolumes(s) \o <<CheckMount(s)>>)

ServerlessBuilder(s, cfg, point) ==
    Sidecar(MountContainerName, s, cfg, point,
            genJuiceVolumes(s) \o <<JfsDir, CheckMount(s)>> \o genServerlessCacheVolumes(s))

(* The sidecar mounts the last volume of the app that names the claim: no   *)
(* volume (an empty name) when an earlier injection has replaced them.      *)
VCIBuilder(s, cfg, point, appVols) ==
    LET at == {i \in DOMAIN appVols : appVols[i].src = <<"claim", s.Claim>>}
        sharedVolumeName == IF at = {} THEN <<>> ELSE appVols[Max(at)].name
        juice == genJuiceVolumes(s)
        items == <<CheckMount(s)>> \o genServerlessCacheVolumes(s)
    IN  [Sidecar(Append(MountContainerName, s.Claim), s, cfg, point, juice \o items)
            EXCEPT !.mounts = MountsOf(juice)
                              \o <<[vol |-> sharedVolumeName, path |-> <<"/jfs", point>>]>>
                              \o MountsOf(items)]

CCIBuilder(s, cfg, point) ==
    Sidecar(MountContainerName, s, cfg, point,
            genJuiceVolumes(s) \o <<CheckMount(s)>> \o genServerlessCacheVolumes(s))

NewMountSidecar(kind, s, cfg, point, appVols) ==
    CASE kind = "container"  -> ContainerBuilder(s, cfg, point)
      [] kind = "serverless" -> ServerlessBuilder(s, cfg, point)
      [] kind = "vci"        -> VCIBuilder(s, cfg, point, appVols)
      [] kind = "cci"        -> CCIBuilder(s, cfg, point)

(* What a volume of the app that names the claim becomes.                   *)
OverwriteVolumes(kind, vol, point) ==
    [vol EXCEPT !.src = CASE kind \in {"container", "serverless"} -> <<"mountpoint", point>>
                          [] kind = "vci" -> <<"emptyDir", "of the pod">>
                          [] kind = "cci" -> <<"cci", point>>]

=============================================================================
