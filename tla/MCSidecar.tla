----------------------------- MODULE MCSidecar -----------------------------
(* Pods with one or two claims, for all builders, restart policies and      *)
(* kinds of volumes.                                                        *)
EXTENDS Sidecar

Base == [attr |-> [cachePVC |-> 0, emptyDir |-> FALSE, inline |-> 0, hostPath |-> 0],
         ann |-> <<>>, opts |-> <<>>, subPath |-> <<>>, rsa |-> FALSE, init |-> FALSE,
         configs |-> 0, small |-> FALSE, labelled |-> TRUE, static |-> FALSE, state |-> "bound",
         immutable |-> FALSE]

(* Everything a volume may ask for, in the PV and in the claim.             *)
Rich == [Base EXCEPT !.attr = [cachePVC |-> 2, emptyDir |-> TRUE, inline |-> 0, hostPath |-> 1],
                     !.ann = [cachePVC |-> 1, inline |-> 2],
                     !.opts = <<Opt("subdir", <<"a">>), Opt("cache-dir", <<<<"/d">>, Memory>>),
                                Opt("ro", <<>>), Opt("subdir", <<"b">>)>>,
                     !.subPath = <<"s">>, !.rsa = TRUE, !.init = TRUE, !.configs = 2]
Static == [Base EXCEPT !.opts = <<Opt("cache-dir", <<Memory>>)>>, !.subPath = <<"s">>, !.static = TRUE]

Pod(kind, policy, claims, apps, vol) ==
    [kind |-> kind, policy |-> policy, claims |-> claims, apps |-> apps, vol |-> vol,
     clash |-> Len(claims) = 1, disabled |-> FALSE]
Vol(a, b) == [c1 |-> a, c2 |-> b]
Immutable(vol) == [c \in DOMAIN vol |-> [vol[c] EXCEPT !.immutable = TRUE]]

Kinds  == {"container", "serverless", "vci", "cci"}
Orders == {<<"c1">>, <<"c1", "c2">>, <<"c1", "c1">>}
Mixed  == <<"c2", "c1", "c2">>

(* How pods are wired: all builders and volumes.                            *)
Layouts == {Pod(k, "Always", o, 1, v) :
              k \in Kinds, o \in Orders, v \in {Vol(Rich, Static), Immutable(Vol(Base, Rich))}}
           \cup {Pod(k, "Always", Mixed, 1, Vol(Rich, Static)) : k \in {"container", "cci"}}

(* Which pods get sidecars.                                                 *)
Claims == {Pod("container", "Never", o, 1, Vol([Base EXCEPT !.state = s], [Rich EXCEPT !.small = m])) :
              o \in {<<"c1", "c2">>, Mixed}, m \in BOOLEAN,
              s \in {"bound", "other driver", "waits", "waits for JuiceFS", "class unknown"}}
          \cup {[Pod("container", "Never", <<"c1">>, 1, Vol(Base, Base)) EXCEPT !.disabled = TRUE]}

(* How pods end.                                                            *)
Jobs == {Pod("container", p, o, n, Vol(Base, Static)) :
           p \in {"Never", "OnFailure"}, o \in {<<"c1">>, <<"c1", "c2">>}, n \in 1..2}

MCInputs == Layouts \cup Claims \cup Jobs

Patch(s, l) == [selector |-> s, lifecycle |-> l]
MCConfigs == {<<>>, <<Patch(FALSE, "preStop"), Patch(TRUE, "other")>>}

=============================================================================
