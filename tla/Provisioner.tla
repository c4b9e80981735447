----------------------------- MODULE Provisioner -----------------------------
(***************************************************************************)
(* The development environment's identity: "dev.py bootstrap" and          *)
(* "recover-identity" register a project and an application at a local     *)
(* ZITADEL instance, and record them in identity.json and .env, after      *)
(* importing both from a checkout that kept them itself.  A command        *)
(* may die between any two of its writes and requests, a request may fail  *)
(* before or after it took effect, searches may lag behind creations, and  *)
(* between commands the developer deletes and restores volumes and files.  *)
(* The environment lock admits one command at a time.                      *)
(***************************************************************************)
EXTENDS Naturals, FiniteSets

CONSTANTS
    Instances,    \* ZITADEL instances that come to exist, one per database
    MaxCreated,   \* bound on the creations of one resource at one instance
    MaxMishaps,   \* bound on deletions, restorations and lost files
    Null

Resources == {"project", "app"}
\* The n-th project, or application, of an instance.
Ids == Instances \X (1 .. MaxCreated)

ConstantsAssumption ==
    /\ Instances # {} /\ Null \notin Instances \cup Ids \cup Resources
    /\ MaxCreated \in Nat \ {0}
    /\ MaxMishaps \in Nat
ASSUME ConstantsAssumption

VARIABLES
    iam,      \* the instance whose database volume is mounted, or Null
    used,     \* the instances that have existed
    made,     \* how many projects and applications were created at each
    visible,  \* how many of them a search finds
    data,     \* the instance whose subjects Docta's data volumes refer to
    file,     \* identity.json
    archive,  \* the copies that recover keeps of it
    env,      \* .env: whether it exists, and the identifiers in it
    legacy,   \* the profile that the checkout kept itself, or NoProfile
    import,   \* what migrate_legacy has published of it, .env aside
    cmd,      \* the command that runs
    lost,     \* the instances whose identity.json the developer deleted
    mishaps

provisionerVars ==
    <<iam, used, made, visible, data, file, archive, env, legacy, import, cmd, lost, mishaps>>
zitadel == <<iam, used, made, visible>>
disk == <<file, archive, env, import>>
world == <<data, legacy, lost, mishaps>>

NoState == [instance |-> Null, project |-> Null, app |-> Null, pending |-> Null]
State == [instance : Instances \cup {Null}, project : Ids \cup {Null},
          app : Ids \cup {Null}, pending : Resources \cup {Null}]
NoEnv == [there |-> "no", project |-> Null, client |-> Null]
Env == [there : {"no", "yes"}, project : Ids \cup {Null}, client : Ids \cup {Null}]
NoProfile == [file |-> NoState, env |-> NoEnv]
\* The profile of an environment whose version did not record instances.
OldProfile(i) ==
    [file |-> [NoState EXCEPT !.project = <<i, 1>>, !.app = <<i, 1>>],
     env |-> [there |-> "yes", project |-> <<i, 1>>, client |-> <<i, 1>>]]
NoCommand == [pc |-> "idle", recover |-> "no", instance |-> Null, state |-> NoState]

GoTo(pc) == cmd' = [cmd EXCEPT !.pc = pc]
\* save: the file is replaced by one rename.
Save(pc, s) == /\ cmd' = [cmd EXCEPT !.pc = pc, !.state = s]
               /\ file' = s

-----------------------------------------------------------------------------
(* main: migrate_legacy and the guards, up to ZITADEL's start. *)

BeginCommand ==
    /\ cmd.pc = "idle"
    /\ \E r \in {"no", "yes"} : cmd' = [NoCommand EXCEPT !.pc = "import", !.recover = r]
    /\ UNCHANGED <<zitadel, disk, world>>

\* State without configuration is refused: the developer restores .env.
Incomplete == env.there = "no" /\ import # "none"

\* Identifiers that both profiles record differ.
Conflicting ==
    \/ Null \notin {legacy.env.project, env.project} /\ legacy.env.project # env.project
    \/ \E k \in {"instance", "project", "app"} :
         Null \notin {legacy.file[k], file[k]} /\ legacy.file[k] # file[k]

\* An imported checkout is an archive, and is never compared again.
NothingToImport ==
    /\ cmd.pc = "import"
    /\ ~ Incomplete
    /\ \/ legacy = NoProfile
       \/ env.there = "yes" /\ (import = "provenance" \/ ~ Conflicting)
    /\ GoTo("guard")
    /\ UNCHANGED <<zitadel, disk, world>>

\* The three renames out of the staging directory; .env is the last.
ImportStarts ==
    /\ cmd.pc = "import"
    /\ ~ Incomplete
    /\ legacy # NoProfile /\ env.there = "no"

ImportState_EnvFirst ==
    /\ ImportStarts
    /\ env' = legacy.env /\ import' = "state"
    /\ GoTo("import provenance")
    /\ UNCHANGED <<zitadel, file, archive, world>>
ImportState ==
    /\ ImportStarts
    /\ file' = legacy.file /\ import' = "state"
    /\ GoTo("import provenance")
    /\ UNCHANGED <<zitadel, archive, env, world>>

ImportProvenance ==
    /\ cmd.pc = "import provenance"
    /\ import' = "provenance"
    /\ GoTo("import env")
    /\ UNCHANGED <<zitadel, file, archive, env, world>>

ImportEnv ==
    /\ cmd.pc = "import env"
    /\ env' = legacy.env
    /\ GoTo("guard")
    /\ UNCHANGED <<zitadel, file, archive, import, world>>

\* guard_identity_recovery
DataAbsent_Unchecked == TRUE
DataAbsent == data = Null

\* A configured environment: a database that is gone is not replaced while
\* Docta's data is retained.
Configured ==
    /\ cmd.pc = "guard" /\ env.there = "yes"
    /\ iam = Null /\ env.project # Null => DataAbsent
    /\ GoTo("start")
    /\ UNCHANGED <<zitadel, disk, world>>

\* guard_environment_creation, then configure: credentials are generated where
\* there are no volumes.
VolumesAbsent == iam = Null /\ DataAbsent
Configure ==
    /\ cmd.pc = "guard" /\ env.there = "no" /\ cmd.recover = "no"
    /\ VolumesAbsent
    /\ env' = [NoEnv EXCEPT !.there = "yes"]
    /\ GoTo("start")
    /\ UNCHANGED <<zitadel, file, archive, import, world>>

\* start_iam: a missing database is initialized as a new instance.
StartIam ==
    /\ cmd.pc = "start"
    /\ \/ iam # Null /\ UNCHANGED <<iam, used>>
       \/ /\ iam = Null
          /\ \E i \in Instances \ used : iam' = i /\ used' = used \cup {i}
    /\ GoTo("read")
    /\ UNCHANGED <<made, visible, disk, world>>

-----------------------------------------------------------------------------
(* Provisioner.provision *)

\* What __init__ reads; an environment whose state file was lost keeps its project.
Loaded == IF file = NoState THEN [file EXCEPT !.project = env.project] ELSE file

Exists(id, r) == id[1] = iam /\ id[2] <= made[iam][r]

\* The instance is another one than the file's.
InstanceChanged ==
    /\ cmd.pc = "read"
    /\ Loaded.instance \notin {Null, iam}
    /\ cmd' = [cmd EXCEPT !.pc = "recover", !.instance = iam, !.state = Loaded]
    /\ UNCHANGED <<zitadel, disk, world>>

\* Requested recovery: a state without instance or pending creation whose
\* project is gone; every other request for it is refused.
RecoveryRequested ==
    /\ cmd.pc = "read" /\ cmd.recover = "yes"
    /\ Loaded.instance = Null /\ Loaded.pending = Null /\ Loaded.project # Null
    /\ ~ Exists(Loaded.project, "project")
    /\ cmd' = [cmd EXCEPT !.pc = "recover", !.instance = iam, !.state = Loaded]
    /\ UNCHANGED <<zitadel, disk, world>>

Known ==
    /\ cmd.pc = "read" /\ cmd.recover = "no"
    /\ Loaded.instance \in {Null, iam}
    /\ IF Loaded = NoState
         THEN LET s == [NoState EXCEPT !.instance = iam] IN
              /\ file' = s
              /\ cmd' = [cmd EXCEPT !.pc = "project", !.instance = iam, !.state = s]
         ELSE /\ UNCHANGED file
              /\ cmd' = [cmd EXCEPT !.pc = "project", !.instance = iam, !.state = Loaded]
    /\ UNCHANGED <<zitadel, archive, env, import, world>>

\* recover: nothing is replaced while Docta's data is retained, and what is
\* replaced is archived first.
Archive ==
    /\ cmd.pc = "recover"
    /\ DataAbsent
    /\ archive' = IF file = NoState THEN archive ELSE archive \cup {file}
    /\ GoTo("reset")
    /\ UNCHANGED <<zitadel, file, env, import, world>>

Fresh(s, i) == [NoState EXCEPT !.instance = i]

Reset ==
    /\ cmd.pc = "reset"
    /\ Save("project", Fresh(cmd.state, cmd.instance))
    /\ UNCHANGED <<zitadel, archive, env, import, world>>

-----------------------------------------------------------------------------
(* ensure(r), for the project and then for the application. *)

After(r) == IF r = "project" THEN "verify" ELSE "publish"

EnsureSaved(r) ==
    /\ cmd.pc = r /\ cmd.state[r] # Null
    /\ GoTo(After(r))
    /\ UNCHANGED <<zitadel, disk, world>>

Recorded(s, r, id) == [s EXCEPT ![r] = id, !.pending = Null]

\* A search by name finds one: it is adopted.  Two are refused (StepFails).
EnsureFound(r) ==
    /\ cmd.pc = r /\ cmd.state[r] = Null
    /\ visible[iam][r] = 1
    /\ Save(After(r), Recorded(cmd.state, r, <<iam, 1>>))
    /\ UNCHANGED <<zitadel, archive, env, import, world>>

\* A creation whose outcome is unknown is not repeated.
MayCreate_Again(s) == TRUE
MayCreate(s) == s.pending = Null

Marked_InMemory(s, r) == file
Marked(s, r) == [s EXCEPT !.pending = r]

EnsurePending(r) ==
    /\ cmd.pc = r /\ cmd.state[r] = Null
    /\ visible[iam][r] = 0
    /\ MayCreate(cmd.state)
    /\ file' = Marked(cmd.state, r)
    /\ cmd' = [cmd EXCEPT !.pc = IF r = "project" THEN "create project" ELSE "create app",
                          !.state = [@ EXCEPT !.pending = r]]
    /\ UNCHANGED <<zitadel, archive, env, import, world>>

Creating(r) == cmd.pc = IF r = "project" THEN "create project" ELSE "create app"

\* The POST takes effect; whether its answer arrives is another step.
CreateResource(r) ==
    /\ Creating(r)
    /\ made[iam][r] < MaxCreated
    /\ made' = [made EXCEPT ![iam] = [@ EXCEPT ![r] = made[iam][r] + 1]]
    /\ GoTo(IF r = "project" THEN "record project" ELSE "record app")
    /\ UNCHANGED <<iam, used, visible, disk, world>>

Record(r) ==
    /\ cmd.pc = IF r = "project" THEN "record project" ELSE "record app"
    /\ Save(After(r), Recorded(cmd.state, r, <<iam, made[iam][r]>>))
    /\ UNCHANGED <<zitadel, archive, env, import, world>>

\* The project is read back; a state without instance gets it now.
VerifyProject ==
    /\ cmd.pc = "verify"
    /\ Exists(cmd.state.project, "project")
    /\ IF cmd.state.instance = Null
         THEN Save("app", [cmd.state EXCEPT !.instance = cmd.instance])
         ELSE GoTo("app") /\ UNCHANGED file
    /\ UNCHANGED <<zitadel, archive, env, import, world>>

\* The application is read back, and .env is replaced by one rename.
Publish ==
    /\ cmd.pc = "publish"
    /\ Exists(cmd.state.app, "app")
    /\ env' = [there |-> "yes", project |-> cmd.state.project, client |-> cmd.state.app]
    /\ GoTo("infra")
    /\ UNCHANGED <<zitadel, file, archive, import, world>>

\* Docta's own services start; their volumes are created if they are absent.
StartInfra ==
    /\ cmd.pc = "infra"
    /\ data' = IF data = Null THEN iam ELSE data
    /\ cmd' = NoCommand
    /\ UNCHANGED <<zitadel, disk, legacy, lost, mishaps>>

\* An error, a refusal (every guard above that does not hold) or a crash.
StepFails ==
    /\ cmd.pc # "idle"
    /\ cmd' = NoCommand
    /\ UNCHANGED <<zitadel, disk, world>>

-----------------------------------------------------------------------------
(* ZITADEL and the developer. *)

SearchCatchesUp(r) ==
    /\ iam # Null
    /\ visible[iam][r] < made[iam][r]
    /\ visible' = [visible EXCEPT ![iam] = [@ EXCEPT ![r] = visible[iam][r] + 1]]
    /\ UNCHANGED <<iam, used, made, disk, cmd, world>>

Mishap == cmd.pc = "idle" /\ mishaps < MaxMishaps /\ mishaps' = mishaps + 1

DeleteIam ==
    /\ Mishap
    /\ iam # Null /\ iam' = Null
    /\ UNCHANGED <<used, made, visible, disk, data, legacy, cmd, lost>>

\* The matching backup of the database is restored; its searches catch up
\* while it starts.
RestoreIam ==
    /\ Mishap
    /\ \E i \in used \ {iam} :
        /\ iam' = i
        /\ visible' = [visible EXCEPT ![i] = made[i]]
    /\ UNCHANGED <<used, made, disk, data, legacy, cmd, lost>>

DeleteData ==
    /\ Mishap
    /\ data # Null /\ data' = Null
    /\ UNCHANGED <<zitadel, disk, legacy, cmd, lost>>

\* identity.json is deleted, not within moments of a creation.
LoseFile ==
    /\ Mishap
    /\ file # NoState /\ file' = NoState
    /\ visible = made
    /\ lost' = lost \cup ({file.instance} \ {Null})
                   \cup {file[r][1] : r \in {r \in Resources : file[r] # Null}}
    /\ UNCHANGED <<zitadel, archive, env, import, data, legacy, cmd>>

\* The matching .env of an interrupted import is put back by hand.
RestoreEnv ==
    /\ cmd.pc = "idle"
    /\ Incomplete
    /\ env' = legacy.env
    /\ UNCHANGED <<zitadel, file, archive, import, cmd, world>>

\* Nothing yet; or an old environment, kept in the checkout, shared, or both.
ProvisionerInit ==
    /\ archive = {} /\ import = "none" /\ cmd = NoCommand /\ lost = {} /\ mishaps = 0
    /\ \/ /\ iam = Null /\ used = {} /\ data = Null
          /\ legacy = NoProfile /\ file = NoState /\ env = NoEnv
          /\ made = [i \in Instances |-> [r \in Resources |-> 0]]
       \/ \E i \in Instances :
          /\ iam = i /\ used = {i} /\ data = i
          /\ \E l, p \in {NoProfile, OldProfile(i)} :
               /\ OldProfile(i) \in {l, p}
               /\ legacy = l /\ file = p.file /\ env = p.env
          /\ made = [j \in Instances |-> [r \in Resources |-> IF j = i THEN 1 ELSE 0]]
    /\ visible = made

ProvisionerNext ==
    \/ BeginCommand \/ NothingToImport \/ ImportState \/ ImportProvenance \/ ImportEnv
    \/ Configured \/ Configure \/ StartIam
    \/ InstanceChanged \/ RecoveryRequested \/ Known
    \/ Archive \/ Reset \/ VerifyProject \/ Publish \/ StartInfra \/ StepFails
    \/ \E r \in Resources :
         \/ EnsureSaved(r) \/ EnsureFound(r) \/ EnsurePending(r)
         \/ CreateResource(r) \/ Record(r) \/ SearchCatchesUp(r)
    \/ DeleteIam \/ RestoreIam \/ DeleteData \/ LoseFile \/ RestoreEnv

ProvisionerSpec == ProvisionerInit /\ [][ProvisionerNext]_provisionerVars

-----------------------------------------------------------------------------
(* Properties. *)

\* The state is one the code gives a meaning to; in identity.json a resource is
\* pending only until its identifier is recorded (ensure pops it in one save).
ProvisionerTypeOK ==
    /\ iam \in used \cup {Null} /\ used \subseteq Instances
    /\ made \in [Instances -> [Resources -> 0 .. MaxCreated]]
    /\ visible \in [Instances -> [Resources -> 0 .. MaxCreated]]
    /\ data \in used \cup {Null}
    /\ file \in State /\ archive \subseteq State
    /\ env \in Env /\ legacy \in [file : State, env : Env]
    /\ import \in {"none", "state", "provenance"}
    /\ cmd \in [pc : {"idle", "import", "import provenance", "import env", "guard",
                      "start", "read", "recover", "reset", "project", "create project",
                      "record project", "verify", "app", "create app", "record app",
                      "publish", "infra"},
                recover : {"no", "yes"}, instance : Instances \cup {Null}, state : State]
    /\ lost \subseteq Instances
    /\ mishaps \in 0 .. MaxMishaps
    /\ file.pending # Null => file[file.pending] = Null

\* Provisioning registers one project and one application at an instance,
\* whatever crashes, lost answers and lagging searches it meets (ensure).
NoSecondCreate == \A i \in Instances : \A r \in Resources : made[i][r] <= 1

\* The states that a developer can look in.
Kept == archive \cup {file} \cup (IF import = "none" THEN {legacy.file} ELSE {})
Knows(s, i, r) == s[r] = <<i, 1>> \/ (s.instance = i /\ s.pending = r)

\* What was created is recorded, or marked as a creation of unknown outcome, in
\* the state, an archived state or a checkout: no crash, import or recovery
\* forgets it.
NothingForgotten ==
    \A i \in Instances \ lost : \A r \in Resources :
        made[i][r] > 0 => \E s \in Kept : Knows(s, i, r)

\* "New identity subjects must not be attached to retained application data"
\* (guard_identity_recovery): while Docta accepts the running instance's tokens,
\* the data it keeps was made with that instance's subjects.
SubjectsKeepData ==
    iam # Null /\ data # Null /\ env.project # Null /\ env.project[1] = iam => data = iam

\* "A partial import never appears to be a configured profile" (migrate_legacy):
\* the project that .env names is one that the state, or an archived state, records.
ConfiguredHasState ==
    env.project # Null /\ env.project[1] \notin lost =>
        \E s \in archive \cup {file} : s.project = env.project
=============================================================================
