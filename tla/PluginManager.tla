---------------------------- MODULE PluginManager ----------------------------
(***************************************************************************)
(* The `tanzu plugin` commands of pkg/v1/cli/command/core/plugin_manager.go *)
(* over the plugins installed on one machine.  Each command is one CLI    *)
(* process and so one action: list, describe, install, upgrade, delete    *)
(* and clean.                                                              *)
(*                                                                         *)
(* The repositories and the plugin installer belong to package cli, which *)
(* is not in this snapshot and is outside the spec's scope; the operators *)
(* standing for them (FindVersion, Find, InstallPlugin, ...) state only   *)
(* the contract the commands rely on.  A plugin version is a record of    *)
(* its semver core and whether it carries a prerelease suffix; the empty  *)
(* string that FindVersion returns when nothing matches is NoVersion.     *)
(***************************************************************************)
EXTENDS Integers, Sequences, SequencesExt, FiniteSets

CONSTANTS
    Plugins,        \* plugin names, CoreName among them
    CoreName,       \* cli.CoreName
    AllPlugins,     \* cli.AllPlugins, the name that installs everything
    VersionLatest,  \* cli.VersionLatest, the default of --version
    ConfigRepos,    \* the repositories of the client config, in order
    LocalRepos,     \* the repositories given with --local, in order
    Catalog,        \* [repository -> [plugin -> set of versions]]
    RepoSelector,   \* [repository -> {"stable", "any"}], VersionSelector()
    NameOrder       \* Plugins in the order of strings.ToLower(name) <

VARIABLES
    installed,      \* [Plugins -> versions \cup {NoVersion}]
    out             \* what the last command printed: the list table or nothing

vars == <<installed, out>>

NoVersion == [valid |-> FALSE, major |-> 0, minor |-> 0, patch |-> 0, pre |-> FALSE]

NoOutput == [cmd |-> "other", repos |-> {}, rows |-> <<>>, versions |-> {}, local |-> FALSE, unstable |-> FALSE]

\* golang.org/x/mod/semver.Compare: an invalid version ("") is below every
\* valid one; otherwise major, minor, patch, and a prerelease below its
\* release.
SemverCompare(v, w) ==
    LET key(x) == <<IF x.valid THEN 1 ELSE 0, x.major, x.minor, x.patch, IF x.pre THEN 0 ELSE 1>>
        a == key(v)
        b == key(w)
        i == CHOOSE k \in 1..5 : a[k] # b[k] /\ \A j \in 1..(k - 1) : a[j] = b[j]
    IN  IF a = b THEN 0 ELSE IF a[i] > b[i] THEN 1 ELSE -1

\* cli: Plugin.FindVersion, the highest version the selector admits.
FindVersion(versions, selector) ==
    LET ok == {v \in versions : selector = "any" \/ ~v.pre}
    IN  IF ok = {} THEN NoVersion
        ELSE CHOOSE v \in ok : \A w \in ok : SemverCompare(v, w) >= 0

\* getRepositories: the --local directories if any were given, else the
\* repositories of the client config.
GetRepositories(useLocal) == IF useLocal THEN LocalRepos ELSE ConfigRepos

\* cli: MultiRepo.Find, the first repository that has the plugin, or 0.
Find(repos, name) == SelectInSeq(repos, LAMBDA r : name \in DOMAIN Catalog[r])

\* cli: InstallPlugin and UpgradePlugin fetch the version from the
\* repository and replace the installed binary; a version the repository
\* does not have is an error that changes nothing.
InstallPlugin(name, v, repo) ==
    installed' = IF v \in Catalog[repo][name] THEN [installed EXCEPT ![name] = v] ELSE installed

\* cli: InstallAllMulti, every plugin of the repositories at the version the
\* selector picks in the first repository that has it.
InstallAllMulti(repos, selector) ==
    installed' = [p \in Plugins |->
                    LET i == Find(repos, p)
                        v == IF i = 0 THEN NoVersion ELSE FindVersion(Catalog[repos[i]][p], selector)
                    IN  IF v.valid THEN v ELSE installed[p]]

Selector(unstable, default) == IF unstable THEN "any" ELSE default

(***************************************************************************)
(* The list command.  ListRow is the body of the loop over one repository *)
(* plugin: the latest version under the repository's selector (or any    *)
(* with -u), and the status from the installed descriptor with that name. *)
(* An "upgrade available" row keeps currentVersion empty, as the code's   *)
(* continue does.  LocalRows are the installed plugins no repository row  *)
(* names (the two identical loops of the code add them once).  ByName is  *)
(* sort.SliceStable on the lower-cased name.                              *)
(***************************************************************************)
ListRow(p, repo, unstable) ==
    LET latest == FindVersion(Catalog[repo][p], Selector(unstable, RepoSelector[repo]))
        status == IF installed[p] = NoVersion THEN "not installed"
                  ELSE IF SemverCompare(latest, installed[p]) = 1 THEN "upgrade available"
                  ELSE "installed"
    IN  [name |-> p, latest |-> latest, repo |-> repo, status |-> status,
         version |-> IF status = "installed" THEN installed[p] ELSE NoVersion]

RepoRows(repo, unstable) ==
    LET ps == SelectSeq(NameOrder, LAMBDA p : p \in DOMAIN Catalog[repo] /\ p # CoreName)
    IN  [i \in 1..Len(ps) |-> ListRow(ps[i], repo, unstable)]

\* Mutation: the exists check of the local loop is missing.
LocalRowsNoExistsCheck(data) ==
    LET ps == SelectSeq(NameOrder, LAMBDA p : installed[p] # NoVersion)
    IN  [i \in 1..Len(ps) |-> [name |-> ps[i], latest |-> NoVersion, repo |-> "",
                               status |-> "installed", version |-> installed[ps[i]]]]

LocalRows(data) ==
    LET listed == {data[i].name : i \in 1..Len(data)}
        ps == SelectSeq(NameOrder, LAMBDA p : installed[p] # NoVersion /\ p \notin listed)
    IN  [i \in 1..Len(ps) |-> [name |-> ps[i], latest |-> NoVersion, repo |-> "",
                               status |-> "installed", version |-> installed[ps[i]]]]

ByName(rows) ==
    FoldLeft(LAMBDA acc, p : acc \o SelectSeq(rows, LAMBDA row : row.name = p), <<>>, NameOrder)

\* The map of repositories is iterated in any order.
ListTable(repoOrder, unstable) ==
    LET data == FoldLeft(LAMBDA acc, r : acc \o RepoRows(r, unstable), <<>>, repoOrder)
    IN  ByName(data \o LocalRows(data))

List(useLocal, unstable) ==
    LET repos == ToSet(GetRepositories(useLocal))
    IN  /\ \E order \in SetToSeqs(repos) :
              out' = [cmd |-> "list", repos |-> repos, rows |-> ListTable(order, unstable), versions |-> {},
                      local |-> useLocal, unstable |-> unstable]
        /\ UNCHANGED installed

\* cli.FilterVersions: the prerelease versions are dropped unless unstable
\* ones are included.
FilterVersions(versions, includeUnstable) == {v \in versions : includeUnstable \/ ~v.pre}

\* describe [name]: the plugin as the first repository that has it
\* describes it, with its versions filtered; an unknown name is an error.
Describe(useLocal, name, unstable) ==
    LET repos == GetRepositories(useLocal)
        i == Find(repos, name)
    IN  /\ out' = IF i = 0 THEN NoOutput
                  ELSE [cmd |-> "describe", repos |-> {repos[i]}, rows |-> <<>>,
                        versions |-> FilterVersions(Catalog[repos[i]][name], unstable),
                        local |-> useLocal, unstable |-> unstable]
        /\ UNCHANGED installed

\* install [name]: all plugins, or the plugin from the first repository that
\* has it at --version, VersionLatest resolving to the selector's choice.
Install(useLocal, name, version, unstable) ==
    LET repos == GetRepositories(useLocal)
        selector == Selector(unstable, "stable")
        i == Find(repos, name)
    IN  /\ IF name = AllPlugins THEN InstallAllMulti(repos, selector)
           ELSE IF i = 0 THEN UNCHANGED installed
           ELSE InstallPlugin(name,
                              IF version = VersionLatest
                              THEN FindVersion(Catalog[repos[i]][name], selector)
                              ELSE version,
                              repos[i])
        /\ out' = NoOutput

UpgradeVersion(useLocal, name, unstable) ==
    LET repos == GetRepositories(useLocal)
    IN  FindVersion(Catalog[repos[Find(repos, name)]][name], Selector(unstable, "stable"))

\* upgrade [name]: that version from that repository, whatever version is
\* installed.
Upgrade(useLocal, name, unstable) ==
    LET repos == GetRepositories(useLocal)
        i == Find(repos, name)
    IN  /\ IF i = 0 THEN UNCHANGED installed
           ELSE InstallPlugin(name, UpgradeVersion(useLocal, name, unstable), repos[i])
        /\ out' = NoOutput

\* delete [name]: cli.DeletePlugin removes the plugin binary.
Delete(name) ==
    /\ installed' = [installed EXCEPT ![name] = NoVersion]
    /\ out' = NoOutput

\* clean: cli.Clean removes every installed plugin.
Clean ==
    /\ installed' = [p \in Plugins |-> NoVersion]
    /\ out' = NoOutput

Versions == UNION {UNION {Catalog[r][p] : p \in DOMAIN Catalog[r]} : r \in DOMAIN Catalog}

Init ==
    /\ installed = [p \in Plugins |-> NoVersion]
    /\ out = NoOutput

Next ==
    \/ \E l, u \in BOOLEAN : List(l, u)
    \/ \E l, u \in BOOLEAN, n \in Plugins \cup {AllPlugins}, v \in Versions \cup {VersionLatest} :
          Install(l, n, v, u)
    \/ \E l, u \in BOOLEAN, n \in Plugins : Describe(l, n, u)
    \/ \E l, u \in BOOLEAN, n \in Plugins : Upgrade(l, n, u)
    \/ \E n \in Plugins : Delete(n)
    \/ Clean

Spec == Init /\ [][Next]_vars

Listed == out.cmd = "list"
Row(i) == out.rows[i]
Rows == DOMAIN out.rows
\* The plugins a repository row is printed for.
RepoPlugins(r) == DOMAIN Catalog[r] \ {CoreName}

ListRowsComplete ==
    Listed =>
      LET offered == UNION {RepoPlugins(r) : r \in out.repos}
          localOnly == {p \in Plugins : installed[p] # NoVersion /\ p \notin offered}
          pos(p) == SelectInSeq(NameOrder, LAMBDA q : q = p)
      IN  /\ IsSorted([i \in Rows |-> pos(Row(i).name)], <=)
          /\ \A r \in out.repos : \A p \in RepoPlugins(r) :
                Cardinality({i \in Rows : Row(i).name = p /\ Row(i).repo = r}) = 1
          /\ \A p \in localOnly : Cardinality({i \in Rows : Row(i).name = p /\ Row(i).repo = ""}) = 1
          /\ Len(out.rows) = Cardinality(localOnly)
                             + Cardinality(UNION {{<<r, p>> : p \in RepoPlugins(r)} : r \in out.repos})
=============================================================================
