------------------------------ MODULE MCEgress ------------------------------
(***************************************************************************)
(* Small instances of EgressProxy for TLC: a registry with a package       *)
(* index, the host of the artifact the index lists, which is rewritten to  *)
(* an allowed mirror, and the agent's tunneled API.                        *)
(***************************************************************************)
EXTENDS EgressProxy, TLC

CONSTANTS f1, f2, g1, g2, c1, c2, k1, k2

Six == "registry/six/"
Wheel == "cdn/six.whl"

MCHost ==
  "registry/" :> "registry" @@ Six :> "registry" @@ Wheel :> "cdn" @@
  "mirror/" :> "mirror" @@ "api/" :> "api"
MCURLs == DOMAIN MCHost
MCRoot == "registry" :> "registry/" @@ "cdn" :> Wheel @@ "mirror" :> "mirror/" @@ "api" :> "api/"
MCRewrite == [u \in MCURLs |-> IF u = Wheel THEN "mirror/" ELSE u]

MCMatches ==
  "registry/*" :> {"registry/", Six} @@ "registry/six/*" :> {Six} @@
  "cdn/*" :> {Wheel} @@ "mirror/*" :> {"mirror/"} @@ "api/*" :> {"api/"} @@ "registry" :> {}
MCPatterns == DOMAIN MCMatches
MCHostGlob ==
  "registry/" :> "registry/*" @@ Six :> "registry/*" @@ Wheel :> "cdn/*" @@
  "mirror/" :> "mirror/*" @@ "api/" :> "api/*"

MCArtifacts == Six :> {Wheel}
MCIndexOf == [p \in MCPatterns |-> IF p = "registry/six/*" THEN Six ELSE Nobody]
MCVerb == [g \in Gated |-> "pip.install"]
MCWanted == f1 :> {Six} @@ f2 :> {"registry/", Six}

HeldCast == {f1, f2, c1, c2}
PromptCast == {g1, g2, k1}
ProxyCast == {f1, k1, k2}
MCCasts == {HeldCast, PromptCast, ProxyCast}
SmallCasts == {{f1, k1}, {f1, c1}, {g1, k1}, {k1, k2}}
TwoFetches == {{f1, f2}}

MCStandings ==
  [who \in Casts |-> IF who \in {HeldCast, {k1, k2}} THEN {{}} ELSE {{}, {<<"deny", "registry/six/*">>}}]

=============================================================================
