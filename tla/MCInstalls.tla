---------------------------- MODULE MCInstalls -----------------------------
(***************************************************************************)
(* Instances of Installs: two sandboxes a and b of a fleet; requests of    *)
(* one line, of lines that share nothing but the cache, and of several     *)
(* package managers.                                                       *)
(***************************************************************************)
EXTENDS Installs, TLC

CONSTANTS j1, j2, j3

MCTrees == {"py-a", "py-b", "py-c", "venv", "jq", "jdk", "mvn", "repo", "cs", "cs-b", "jars",
            "rust", "vendor", "node", "modules", "app", "env", "wheels", "chan", "agent"}
MCParts == <<"bin", "lib">>
\* The interpreter needs its library; a node or rustc answers without it.
MCNeeded == [t \in MCTrees |-> IF t \in {"py-a", "py-b"} THEN {"bin", "lib"} ELSE {"bin"}]

MCFleet == FleetInstall({"py-a", "py-b"}, "python.tgz", "d1")

MCRequests ==
  {"none", "python on a", "python on b", "pip", "pip venv", "pip 3.11", "jq", "java", "maven",
   "launcher on a", "launcher on b",
   "maven.build", "maven online", "cargo online", "rust", "cargo.build", "node", "npm", "npm project",
   "conda", "conda relay", "conda file", "conda file relay", "prune", "prune stale",
   "agent"}

MCScript == [r \in MCRequests |->
  CASE r = "none" -> <<>>
    [] r = "python on a" -> MCFleet["py-a"]
    [] r = "python on b" -> MCFleet["py-b"]
    [] r = "pip" -> PipAuto("py-a", "wheels", "d1")
    [] r = "pip venv" -> PipVenv("venv", "d1")
    [] r = "pip 3.11" -> PipVenv("py-c", "d1")
    [] r = "jq" -> ToolInstall("jq", "jq.tgz", "d1")
    [] r = "java" -> RuntimeInstall("jdk", "jdk.tgz", "d1")
    [] r = "maven" -> MavenAuto("jdk", "cs", "jars", "coursier.jar", "d1")
    [] r = "launcher on a" -> Launcher("cs", "coursier.jar", "d1")
    [] r = "launcher on b" -> Launcher("cs-b", "coursier.jar", "d1")
    [] r = "maven.build" -> MavenBuild("jdk", "mvn", "repo", "d1")
    [] r = "maven online" -> MavenOnline("jdk", "mvn", "d1")
    [] r = "cargo online" -> CargoOnline("rust")
    [] r = "rust" -> RuntimeInstall("rust", "rust.tgz", "d1")
    [] r = "cargo.build" -> CargoRelay("rust", "vendor", "d1")
    [] r = "node" -> RuntimeInstall("node", "node.tgz", "d1")
    [] r = "npm" -> NpmAuto("node", "modules", "d1")
    [] r = "npm project" -> NpmProject("node", "app", "d1")
    [] r = "conda" -> CondaMirror("env", "d1")
    [] r = "conda relay" -> CondaRelay("env", "chan", "numpy.conda", "d1")
    [] r = "conda file" -> CondaManifest(FALSE, "env", "chan", "numpy.conda", "d1")
    [] r = "conda file relay" -> CondaManifest(TRUE, "env", "chan", "numpy.conda", "d1")
    [] r = "prune" -> Prune("all")
    [] r = "prune stale" -> Prune("stale")
    [] r = "agent" -> AgentInstall("agent", "agent.tgz", "d1")]

MCKey == [r \in MCRequests |->
  CASE r \in {"python on a", "pip", "pip venv"} -> "python:3.12"
    [] r = "python on b" -> "python:3.12 on b"
    [] r = "pip 3.11" -> "python:3.11"
    [] r = "jq" -> "tool:jq"
    [] r \in {"java", "maven"} -> "java:21"
    [] r \in {"maven.build", "maven online"} -> "java:app"
    [] r = "npm project" -> "node:app"
    [] r \in {"node", "npm"} -> "node:24"
    [] r \in {"conda", "conda relay"} -> "conda:3.12"
    [] r \in {"conda file", "conda file relay"} -> "conda:environment.yml"
    [] OTHER -> ""]

MCLink == [r \in MCRequests |->
             CASE r \in {"python on b", "launcher on b"} -> "b" [] r \in {"prune", "prune stale"} -> "operator" [] OTHER -> "a"]

Asked(a, b, c) == j1 :> a @@ j2 :> b @@ j3 :> c
MCCasts == {Asked("python on a", "python on b", "pip"), Asked("python on a", "python on b", "pip venv"),
            Asked("python on a", "pip", "pip"),
            Asked("jq", "jq", "prune stale"), Asked("jq", "none", "prune"),
            Asked("agent", "pip venv", "none"), Asked("java", "maven", "none"),
            Asked("java", "maven.build", "none"), Asked("java", "maven online", "none"),
            Asked("rust", "cargo online", "none"), Asked("rust", "cargo.build", "none"),
            Asked("node", "npm", "npm"), Asked("node", "npm project", "none"),
            Asked("conda", "conda relay", "none"), Asked("conda file", "conda file relay", "none")}

\* PROTOCOL.md's lines name rust.install, which has no key.
MCRusts == {Asked("rust", "rust", "none")}

\* Where the properties do not hold: two lines of Python beside each other share pip's
\* report (ReportedStays); a prune under two downloads of one file and two downloads of
\* the launcher, which takes no lock (HandsOverVerified, OneDownload).
MCLines == {Asked("pip venv", "pip 3.11", "none")}
MCPrunes == {Asked("python on a", "python on b", "prune")}
MCLaunchers == {Asked("launcher on a", "launcher on b", "none")}

\* The casts of the runs share of the cache what is made to be shared.
ASSUME ApartCasts == \A c \in Casts : Apart(c)

\* In those that are to hold, scripts let each other's results stand.
ASSUME SteadyCasts == \A c \in MCCasts : Steady(c)

\* A request is repeated once for each thing that may take it down: a fault, a prune.
MCMaxAsks == [c \in MCCasts \cup MCRusts \cup MCLines \cup MCPrunes \cup MCLaunchers |->
                IF \E j \in Fetchers : MCLink[c[j]] = "operator" THEN 2 ELSE 1]

=============================================================================
