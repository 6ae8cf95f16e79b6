---------------------------- MODULE SetupWizard ----------------------------
(***************************************************************************)
(* The setup wizard of the backend (backend/server/setup_wizard.py): a     *)
(* series of prompts, the download of a model, and the files the backend   *)
(* and the ground station are configured by.  It may be stopped anywhere   *)
(* and run again.  The answers themselves are left out, but for the model  *)
(* and the passwords; those of a run are its number.                       *)
(***************************************************************************)
EXTENDS Naturals, Sequences, FiniteSets

CONSTANT MaxRuns    \* bound: runs of the wizard
ASSUME WizardAssumption == MaxRuns \in Nat

(* TEMPLATES, in this order. *)
Template == <<".env", "redis.conf", "secrets.toml">>
Files == {Template[n] : n \in DOMAIN Template}

VARIABLES
    runs,
    wizard,         \* "off", "ask", "download", "passwords", "mkdir", "write"
    model,          \* CONTEXT["detection_model"]: "coco" or "custom"
    downloaded,     \* ./models/coco.pt: "none", "torn" or "whole"
    redisDir,       \* ./redis exists
    written,        \* templates written in this run
    files           \* run each file is of, 0 for none; torn when its writing was cut off

wizardVars == <<runs, wizard, model, downloaded, redisDir, written, files>>

None == [run |-> 0, torn |-> FALSE, model |-> "none"]
WizardInit ==
    /\ runs = 0 /\ wizard = "off" /\ model = "coco" /\ downloaded = "none"
    /\ redisDir = FALSE /\ written = 0 /\ files = [f \in Files |-> None]

----------------------------------------------------------------------------
RunWizard ==
    /\ wizard = "off" /\ runs < MaxRuns
    /\ runs' = runs + 1 /\ wizard' = "ask" /\ model' = "coco" /\ written' = 0
    /\ UNCHANGED <<downloaded, redisDir, files>>

(* The default configuration, or the prompts with a custom model or without. *)
ChooseCoco ==
    /\ wizard = "ask"
    /\ wizard' = "download"
    /\ UNCHANGED <<runs, model, downloaded, redisDir, written, files>>
ChooseCustom ==
    /\ wizard = "ask"
    /\ wizard' = "passwords" /\ model' = "custom"
    /\ UNCHANGED <<runs, downloaded, redisDir, written, files>>

(* download_coco_model: urlretrieve writes the file as it comes. *)
Download ==
    /\ wizard = "download"
    /\ downloaded' = "whole" /\ wizard' = "passwords"
    /\ UNCHANGED <<runs, model, redisDir, written, files>>
DownloadFails ==
    /\ wizard = "download"
    /\ downloaded' \in {downloaded, "torn"} /\ wizard' = "off"
    /\ UNCHANGED <<runs, model, redisDir, written, files>>

Passwords ==
    /\ wizard = "passwords"
    /\ wizard' = "mkdir"
    /\ UNCHANGED <<runs, model, downloaded, redisDir, written, files>>

(* Faulty variant: the directory may exist. *)
MakeRedisDirAgain ==
    /\ wizard = "mkdir"
    /\ redisDir' = TRUE /\ wizard' = "write"
    /\ UNCHANGED <<runs, model, downloaded, written, files>>

(* write_files: mkdir("redis") raises if the directory exists. *)
MakeRedisDir ==
    /\ wizard = "mkdir"
    /\ redisDir' = TRUE
    /\ wizard' = IF redisDir THEN "off" ELSE "write"
    /\ UNCHANGED <<runs, model, downloaded, written, files>>

WriteTemplate ==
    /\ wizard = "write" /\ written < Len(Template)
    /\ files' = [files EXCEPT ![Template[written + 1]] = [run |-> runs, torn |-> FALSE, model |-> model]]
    /\ written' = written + 1
    /\ wizard' = IF written' = Len(Template) THEN "off" ELSE "write"
    /\ UNCHANGED <<runs, model, downloaded, redisDir>>

(* The disk is full, or the process is killed, after the file was opened. *)
WriteFails ==
    /\ wizard = "write" /\ written < Len(Template)
    /\ files' = [files EXCEPT ![Template[written + 1]] = [run |-> runs, torn |-> TRUE, model |-> model]]
    /\ wizard' = "off"
    /\ UNCHANGED <<runs, model, downloaded, redisDir, written>>

(* Ctrl-C, or Cancel at a prompt for a number: int(None) raises. *)
WizardKilled ==
    /\ wizard # "off"
    /\ wizard' = "off"
    /\ UNCHANGED <<runs, model, downloaded, redisDir, written, files>>

WizardNext ==
    \/ RunWizard \/ ChooseCoco \/ ChooseCustom \/ Download \/ DownloadFails
    \/ Passwords \/ MakeRedisDir \/ WriteTemplate \/ WriteFails \/ WizardKilled

WizardSpec == WizardInit /\ [][WizardNext]_wizardVars

----------------------------------------------------------------------------
(***************************************************************************)
(* However often the wizard fails, is killed and run again, the backend    *)
(* and the ground station never have the passwords of different runs: that *)
(* is what the mkdir at the start of write_files comes to, which also      *)
(* keeps a later run from mending what an earlier one left.  And a         *)
(* configuration that names the coco model finds it in ./models, unless a  *)
(* later run has torn it.                                                  *)
(***************************************************************************)
SamePasswords ==
    /\ \A f, g \in Files : files[f].run = files[g].run \/ 0 \in {files[f].run, files[g].run}
    /\ \A f \in Files : files[f].model = "coco" => downloaded = "whole" \/ files[f].run < runs

=============================================================================
