------------------------------- MODULE MCAdmin -------------------------------
(***************************************************************************)
(* The life of an installation beside its requests: the start on a         *)
(* database file (Startup), the sessions and accounts of the panel         *)
(* (AdminSessions), and the configuration the panel writes (Catalog). They *)
(* share no variable; a behaviour follows one of the parts, the others     *)
(* stay where they start.                                                  *)
(***************************************************************************)
EXTENDS AdminSessions, TLC

CONSTANTS Tables, Version, Older, Rows, MaxCrashes,
          MaxRows, Names, ApiKeys, Raws, Priorities, Prices, Quotas, MaxWeight, MaxInt32,
          MaxEdits

VARIABLES
    part,
    at, tables, marker, admins, imported, fresh, inserted, crashes, foreign,
    models, channels, keys, discovered, bindings, logged, crossed, edits

startVars == <<at, tables, marker, admins, imported, fresh, inserted, crashes, foreign>>
catalogVars == <<models, channels, keys, discovered, bindings, logged, crossed, edits>>
allVars == <<part, vars, startVars, catalogVars>>

\* Of the two names one may be the other in capitals.
Folded == [n \in Names |-> IF n = "GPT" THEN "gpt" ELSE n]

Start == INSTANCE Startup WITH users <- admins
Tabled == INSTANCE Catalog

ASSUME AdminAssumption == Start!StartupAssumption /\ Tabled!CatalogAssumption

MCInit ==
    /\ part \in {"start", "sessions", "catalog"}
    /\ Init /\ Start!Init /\ Tabled!Init
    /\ foreign => part = "start"

FollowStart == part = "start" /\ Start!Next /\ UNCHANGED <<part, vars, catalogVars>>
FollowSessions == part = "sessions" /\ Next /\ UNCHANGED <<part, startVars, catalogVars>>
FollowCatalog == part = "catalog" /\ Tabled!Next /\ UNCHANGED <<part, vars, startVars>>

MCNext == FollowStart \/ FollowSessions \/ FollowCatalog

MCSpec == MCInit /\ [][MCNext]_allVars

Interchangeable == Permutations(Handlers)
----------------------------------------------------------------------------
(* The properties of the parts; LoggedOutStaysOut is that of              *)
(* AdminSessions.                                                          *)

\* Wherever earlier starts were killed: a server that serves has all tables, the
\* version it was built for and the whole YAML file or nothing of it; a file of
\* another release is left as it was; one that was marked is never refused; and
\* neither starts nor wizards, however they interleave, make a second first account
\* (ensure_default_admin, import_from_yaml, setup_initialize_handler).
StartsWhole ==
    /\ Start!TypeOK
    /\ Start!ServesWholeFile /\ Start!ForeignIsUntouched
    /\ Start!MarkedIsAccepted /\ Start!OneAdmin
    /\ SetupOnce

\* No handler leaves a reference to a row that is gone: bindings name a model and an
\* upstream model of the pool of their channel, usage rows the model, channel and key
\* they were written for, although ids are given out again. While keys are edited
\* under their own channel's path, no channel has the same secret twice
\* (delete_channel_handler, delete_discovered_model_handler, create_key_handler ...).
TablesHold ==
    /\ TypeOK /\ Tabled!TypeOK
    /\ Tabled!BindingsAreDiscovered /\ Tabled!LoggedRowsExist
    /\ Tabled!UniqueUnlessCrossed

\* Adding or importing what is there resets no quota and makes nothing free, and what
\* is new goes behind the rest (upsert_discovered_model, add_binding_with_weight,
\* create_key_auto_priority).
AddingDisturbsNothing == Tabled!AddingKeepsTheRest /\ Tabled!NewestIsLast

\* An account changes only by its own request, by a request that was admitted as an
\* administrator's, or by the wizard or a start when there is none; its password
\* changes by its own request only if the old one was given, unless it was renamed
\* meanwhile (session_middleware, update_my_password_handler).
AccountsAreGuarded == VerifiedUnlessRenamed /\ OthersByAdminsOnly
=============================================================================
