------------------------------ MODULE KubeStore ------------------------------
(***************************************************************************)
(* The declarative store the reconcilers write through: a function from   *)
(* object keys <<cluster, kind, namespace, name>> to objects, and the two  *)
(* calls the reconcilers make on it, controllerutil.CreateOrPatch and      *)
(* client.Delete.  Each returns the SET of its possible outcomes           *)
(* [ok, store, failed]: any request to the API server may fail             *)
(* transiently (failed = TRUE) while the caller may still afford failures  *)
(* (canFail), and a request for an object with an empty name is always     *)
(* rejected.  This is the environment of the addon code, not part of it.   *)
(***************************************************************************)
EXTENDS Functions, TLC

NameOf(key) == key[4]

Result(ok, st, failed) == [ok |-> ok, store |-> st, failed |-> failed]

\* A transient API error, when one may still happen.
TransientError(store, canFail) ==
    IF canFail THEN {Result(FALSE, store, TRUE)} ELSE {}

(***************************************************************************)
(* CreateOrPatch(key, Mutate): Get the object (or start from the empty    *)
(* object when it is NotFound), apply Mutate, which returns [err, val];   *)
(* Create it when it was absent, Patch it when Mutate changed it, and do  *)
(* nothing when it is unchanged.  A Mutate error aborts before any write. *)
(***************************************************************************)
CreateOrPatch(store, canFail, key, empty, Mutate(_)) ==
    LET present == key \in DOMAIN store
        current == IF present THEN store[key] ELSE empty
        mutated == Mutate(current)
    IN  IF NameOf(key) = "" THEN {Result(FALSE, store, FALSE)}
        ELSE TransientError(store, canFail)                     \* Get fails
             \cup IF mutated.err THEN {Result(FALSE, store, FALSE)}
                  ELSE IF present /\ mutated.val = current
                  THEN {Result(TRUE, store, FALSE)}             \* unchanged
                  ELSE {Result(TRUE, (key :> mutated.val) @@ store, FALSE)}
                       \cup TransientError(store, canFail)       \* Create/Patch fails

\* The outcomes of client.Get: the object, NotFound, or an error (a
\* transient one, or the rejection of an empty name).
GetResult(err, notFound, val) == [err |-> err, notFound |-> notFound, val |-> val]

GetOutcomes(store, canFail, key) ==
    IF NameOf(key) = "" THEN {GetResult(TRUE, FALSE, <<>>)}
    ELSE (IF canFail THEN {GetResult(TRUE, FALSE, <<>>)} ELSE {})
         \cup IF key \in DOMAIN store THEN {GetResult(FALSE, FALSE, store[key])}
              ELSE {GetResult(TRUE, TRUE, <<>>)}

\* The outcomes of client.Delete; a NotFound error is reported as notFound.
DeleteResult(ok, st, failed, notFound) ==
    [ok |-> ok, store |-> st, failed |-> failed, notFound |-> notFound]

DeleteOutcomes(store, canFail, key) ==
    IF NameOf(key) = "" THEN {DeleteResult(FALSE, store, FALSE, FALSE)}
    ELSE (IF canFail THEN {DeleteResult(FALSE, store, TRUE, FALSE)} ELSE {})
         \cup IF key \in DOMAIN store
              THEN {DeleteResult(TRUE, Restrict(store, DOMAIN store \ {key}), FALSE, FALSE)}
              ELSE {DeleteResult(FALSE, store, FALSE, TRUE)}
=============================================================================
