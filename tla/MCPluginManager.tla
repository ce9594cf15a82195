--------------------------- MODULE MCPluginManager ---------------------------
(***************************************************************************)
(* The plugin commands over three plugins and three repositories.  The    *)
(* config repositories tkg and community both offer "cluster", so install *)
(* takes it from the first and list prints it twice; the local repository *)
(* dev offers a newer "cluster" and only a prerelease of "login", so a     *)
(* stable selector finds no version there; tkg has a prerelease above its *)
(* latest stable "cluster", so `install -u` leaves a version newer than   *)
(* what a later `list` calls latest; an old 0.0.1 of "cluster" in tkg     *)
(* lets list offer an upgrade from it.  core is offered and skipped.      *)
(***************************************************************************)
EXTENDS PluginManager

V(ma, mi, pa, pre) == [valid |-> TRUE, major |-> ma, minor |-> mi, patch |-> pa, pre |-> pre]

MCPlugins == {"cluster", "core", "login"}
MCNameOrder == <<"cluster", "core", "login">>
MCVersionLatest == [latest |-> TRUE]
MCConfigRepos == <<"tkg", "community">>
MCLocalRepos == <<"dev">>
MCCatalog ==
    [r \in {"tkg", "community", "dev"} |->
        CASE r = "tkg" -> [p \in {"cluster", "core", "login"} |->
                              CASE p = "cluster" -> {V(0, 0, 1, FALSE), V(0, 1, 0, FALSE), V(0, 2, 0, TRUE)}
                                [] OTHER -> {V(0, 1, 0, FALSE)}]
          [] r = "community" -> [p \in {"cluster"} |-> {V(0, 1, 1, FALSE)}]
          [] OTHER -> [p \in {"cluster", "login"} |->
                          IF p = "cluster" THEN {V(0, 3, 0, FALSE)} ELSE {V(0, 2, 0, TRUE)}]]
MCRepoSelector == [r \in {"tkg", "community", "dev"} |-> IF r = "community" THEN "any" ELSE "stable"]
=============================================================================
