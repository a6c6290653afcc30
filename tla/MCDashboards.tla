---------------------------- MODULE MCDashboards ----------------------------
(***************************************************************************)
(* The dashboard pass for TLC: an app that changes and one, with its       *)
(* alerts off, that is removed.                                            *)
(***************************************************************************)
EXTENDS Integers

CONSTANTS Initial, Worlds, Presets, Other, MaxEvents

Released == [app : Nat \ {0}, env : {"staging", "prod"}, kind : {"web", "worker"}, alerts : {"", "none"}]

ASSUME DashboardsAssumption ==
  /\ \A world \in Worlds \cup {Initial} : world \subseteq Released
  /\ Other \notin Nat
  /\ MaxEvents \in Nat

VARIABLES git, cluster, click, made, record, pass, late, gone, excuses, events

Click == INSTANCE Dashboards

DashboardSpec == Click!Spec

(* What the console's record names is a dashboard ClickStack has.          *)
RecordNamesLive == Click!RecordNamesLive

(* A second object of one name takes two passes, a late request or a       *)
(* person.                                                                 *)
TwinsNeedExcuses == Click!TwinsNeedExcuses

(* One undisturbed pass repairs whatever was left behind.                  *)
OnePassRepairs == Click!OnePassRepairs

-----------------------------------------------------------------------------
Release(app, env, kind, alerts) == [app |-> app, env |-> env, kind |-> kind, alerts |-> alerts]

MCInitial == {Release(1, "staging", "web", ""), Release(2, "prod", "web", "none")}
MCWorlds == {{Release(1, "staging", "worker", "")}}

=============================================================================
