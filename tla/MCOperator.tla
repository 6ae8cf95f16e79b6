----------------------------- MODULE MCOperator -----------------------------
(***************************************************************************)
(* The parts an operator starts and works with, each a behaviour of its    *)
(* own: the setup wizard, the launcher of a vehicle, the two ground        *)
(* stations.  Which one moves is chosen at the beginning; of the others    *)
(* nothing fair is enabled in their initial states.                        *)
(***************************************************************************)
EXTENDS ControlPage, KeyCommander, Launcher, SetupWizard

VARIABLE part

Init == /\ PageInit /\ CliInit /\ LauncherInit /\ WizardInit
        /\ part \in {"page", "cli", "launcher", "wizard"}
        /\ (part # "launcher" => plan = <<"mission", "kernel">>)
Next == /\ UNCHANGED part
        /\ \/ part = "page" /\ PageNext /\ UNCHANGED <<cliVars, launcherVars, wizardVars>>
           \/ part = "cli" /\ CliNext /\ UNCHANGED <<pageVars, launcherVars, wizardVars>>
           \/ part = "launcher" /\ LauncherNext /\ UNCHANGED <<pageVars, cliVars, wizardVars>>
           \/ part = "wizard" /\ WizardNext /\ UNCHANGED <<pageVars, cliVars, launcherVars>>

Spec == /\ Init /\ [][Next]_<<pageVars, cliVars, launcherVars, wizardVars, part>>
        /\ LauncherFairness

(* The type invariants of the two ground stations. *)
TypesOK == PageTypeOK /\ CliTypeOK
=============================================================================
