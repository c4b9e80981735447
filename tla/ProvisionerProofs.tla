-------------------------- MODULE ProvisionerProofs --------------------------
(***************************************************************************)
(* Proofs about the development environment's identity, for any instances  *)
(* and any number of crashes and mishaps.                                  *)
(***************************************************************************)
EXTENDS Provisioner, TLAPS

\* Where a command registers resources, and where it is past the import.
Registering ==
    {"project", "create project", "record project", "verify", "app", "create app",
     "record app", "publish", "infra"}
Running == {"start", "read", "recover", "reset"} \cup Registering
Importing == {"import provenance", "import env"}

\* An identifier names something that was created.
Real(id, r) == id[1] \in used /\ id[2] = 1 /\ made[id[1]][r] >= 1

\* What an identity state says is true, of one instance, the project before the
\* application, and of the instance that Docta's data belongs to.
Sound(s) ==
    /\ \A r \in Resources : s[r] # Null => Real(s[r], r)
    /\ s.instance # Null => /\ s.instance \in used
                            /\ \A r \in Resources : s[r] # Null => s[r][1] = s.instance
    /\ s.instance = Null => /\ s.pending = Null
                            /\ s.app # Null => s.app[1] = s.project[1]
    /\ s.app # Null \/ s.pending = "app" => s.project # Null
    /\ s.pending # Null => s[s.pending] = Null
    /\ data # Null => /\ s.instance # Null => s.instance = data
                      /\ s.project # Null => s.project[1] = data

InstancesOK ==
    /\ \A i \in Instances : \A r \in Resources :
         /\ visible[i][r] <= made[i][r] /\ made[i][r] <= 1
         /\ i \notin used => made[i][r] = 0
    /\ iam # Null => \A r \in Resources : visible[iam][r] < made[iam][r] => Knows(file, iam, r)

\* .env names a real project, that of Docta's data if there is any.
EnvOK ==
    /\ env.project # Null => /\ Real(env.project, "project")
                             /\ data # Null => env.project[1] = data
    /\ env.there = "yes" /\ data # Null => env.project # Null
    /\ env.there = "no" => env = NoEnv

\* A checkout's profile is imported before anything else happens.
ImportOK ==
    /\ legacy = NoProfile \/ \E i \in used : legacy = OldProfile(i) /\ \A r \in Resources : made[i][r] = 1
    /\ legacy = NoProfile => import = "none" /\ cmd.pc \notin Importing
    /\ legacy = NoProfile /\ env.there = "no" =>
         used = {} /\ file = NoState /\ cmd.pc \in {"idle", "import", "guard"}
    /\ legacy # NoProfile /\ env.there = "no" =>
         /\ cmd.pc \in {"idle", "import"} \cup Importing
         /\ data \in {Null, legacy.file.project[1]}
         /\ IF import = "none"
              THEN file = NoState /\ cmd.pc \notin Importing
              ELSE file = legacy.file \/ legacy.file.project[1] \in lost
    /\ cmd.pc \in Importing => env.there = "no" /\ import # "none" /\ file = legacy.file

\* Between reading identity.json and the last write the command knows what is
\* in the file; only a project taken from .env is not in it yet.
CommandOK ==
    /\ cmd.pc \in {"read", "recover", "reset"} \cup Registering => iam # Null
    /\ cmd.pc \in {"recover", "reset"} \cup Registering => cmd.instance = iam
    /\ cmd.pc \in {"recover", "reset"} => \A r \in Resources : ~ Knows(file, iam, r)
    /\ cmd.pc = "reset" => data = Null /\ (file = NoState \/ file \in archive)
    /\ cmd.pc \in Registering =>
         /\ Sound(cmd.state)
         /\ cmd.state.instance \in {Null, iam}
         /\ cmd.state.instance = Null => cmd.pc \in {"project", "verify"} /\ cmd.state.project # Null
         /\ \/ file = cmd.state
            \/ file = NoState /\ cmd.state = [NoState EXCEPT !.project = env.project]
         /\ cmd.pc \notin {"project", "create project", "record project"} => cmd.state.project # Null
         /\ cmd.pc \in {"publish", "infra"} => cmd.state.app # Null
         /\ cmd.pc = "infra" => env.project = cmd.state.project
    /\ \A r \in Resources :
         /\ Creating(r) => cmd.state.pending = r /\ made[iam][r] = 0
         /\ cmd.pc = (IF r = "project" THEN "record project" ELSE "record app") =>
              cmd.state.pending = r /\ made[iam][r] = 1

ProvisionerInv ==
    /\ ProvisionerTypeOK
    /\ Sound(file)
    /\ InstancesOK
    /\ EnvOK
    /\ ImportOK
    /\ CommandOK
    /\ NothingForgotten
    /\ ConfiguredHasState

USE ConstantsAssumption DEF Resources

Pcs == {"idle", "import", "guard"} \cup Importing \cup Running
Commands == [pc : Pcs, recover : {"no", "yes"}, instance : Instances \cup {Null}, state : State]

(***************************************************************************)
(* Records.                                                                *)
(***************************************************************************)

LEMMA NoStateFacts ==
    /\ NoState \in State
    /\ NoState.instance = Null /\ NoState.pending = Null
    /\ NoState.project = Null /\ NoState.app = Null
    /\ \A r \in Resources : NoState[r] = Null
    /\ \A i \in Instances : \A r \in Resources : ~ Knows(NoState, i, r)
<1>1. NoState \in State /\ NoState.instance = Null /\ NoState.pending = Null
      /\ NoState.project = Null /\ NoState.app = Null
  BY DEF NoState, State
<1>2. \A r \in Resources : NoState[r] = Null
  BY <1>1
<1>3. \A i \in Instances : \A r \in Resources : ~ Knows(NoState, i, r)
  BY <1>1, <1>2 DEF Knows, ConstantsAssumption, Ids
<1> QED
  BY <1>1, <1>2, <1>3

\* The states kept are those that were, and perhaps more.
LEMMA StillKept ==
    ASSUME NothingForgotten, UNCHANGED <<made, lost>>, Kept \subseteq Kept'
    PROVE  NothingForgotten'
<1> SUFFICES ASSUME NEW i \in (Instances \ lost)', NEW r \in Resources, (made[i][r] > 0)'
             PROVE  (\E t \in Kept : Knows(t, i, r))'
  BY DEF NothingForgotten
<1>1. PICK t \in Kept : Knows(t, i, r)
  BY DEF NothingForgotten
<1> QED
  BY <1>1 DEF Knows

LEMMA NoStateSound == Sound(NoState)
BY NoStateFacts DEF Sound, ConstantsAssumption

LEMMA ResourceOf ==
    ASSUME NEW s \in State
    PROVE  /\ \A r \in Resources : s[r] = IF r = "project" THEN s.project ELSE s.app
           /\ s.project \in Ids \cup {Null} /\ s.app \in Ids \cup {Null}
           /\ s.instance \in Instances \cup {Null} /\ s.pending \in Resources \cup {Null}
BY DEF State

LEMMA OldFacts ==
    ASSUME NEW i \in Instances
    PROVE  LET p == OldProfile(i) IN
           /\ p.file \in State /\ p.env \in Env /\ p \in [file : State, env : Env]
           /\ p.file.instance = Null /\ p.file.pending = Null
           /\ p.file.project = <<i, 1>> /\ p.file.app = <<i, 1>>
           /\ p.env.there = "yes" /\ p.env.project = <<i, 1>>
           /\ p # NoProfile /\ <<i, 1>> # Null
<1>1. <<i, 1>> \in Ids /\ <<i, 1>> # Null
  BY DEF Ids, ConstantsAssumption
<1> QED
  BY <1>1 DEF OldProfile, NoState, State, Env, NoProfile, NoEnv

\* Moving on, and saving, change the parts of the command they name.
LEMMA GoToOK ==
    ASSUME cmd \in Commands, NEW p \in Pcs, GoTo(p)
    PROVE  /\ cmd' \in Commands /\ cmd'.pc = p /\ cmd'.recover = cmd.recover
           /\ cmd'.instance = cmd.instance /\ cmd'.state = cmd.state
BY DEF Commands, GoTo

LEMMA SaveOK ==
    ASSUME cmd \in Commands, NEW p \in Pcs, NEW s \in State, Save(p, s)
    PROVE  /\ cmd' \in Commands /\ cmd'.pc = p /\ cmd'.recover = cmd.recover
           /\ cmd'.instance = cmd.instance /\ cmd'.state = s /\ file' = s
BY DEF Commands, Save

LEMMA RecordedFacts ==
    ASSUME NEW s \in State, NEW r \in Resources, NEW id \in Ids
    PROVE  LET t == Recorded(s, r, id) IN
           /\ t \in State /\ t[r] = id /\ t.pending = Null /\ t.instance = s.instance
           /\ \A q \in Resources : q # r => t[q] = s[q]
BY DEF Recorded, State

LEMMA MarkedFacts ==
    ASSUME NEW s \in State, NEW r \in Resources
    PROVE  LET t == [s EXCEPT !.pending = r] IN
           /\ t \in State /\ t.pending = r /\ t.instance = s.instance
           /\ \A q \in Resources : t[q] = s[q]
BY DEF State

LEMMA Typed ==
    ASSUME ProvisionerTypeOK
    PROVE  /\ cmd \in Commands /\ cmd.pc \in Pcs /\ cmd.state \in State /\ cmd.instance \in Instances \cup {Null}
           /\ file \in State /\ archive \subseteq State
           /\ env \in Env /\ env.there \in {"no", "yes"} /\ env.project \in Ids \cup {Null}
           /\ env.client \in Ids \cup {Null}
           /\ iam \in used \cup {Null} /\ used \subseteq Instances /\ data \in used \cup {Null}
           /\ \A i \in Instances : \A r \in Resources : made[i][r] \in Nat /\ visible[i][r] \in Nat
<1>1. cmd \in Commands
  BY DEF ProvisionerTypeOK, Commands, Pcs, Importing, Running, Registering
<1>2. env \in Env
  BY DEF ProvisionerTypeOK
<1>3. \A i \in Instances : \A r \in Resources : made[i][r] \in Nat /\ visible[i][r] \in Nat
  <2>1. /\ made \in [Instances -> [Resources -> 0 .. MaxCreated]]
        /\ visible \in [Instances -> [Resources -> 0 .. MaxCreated]]
    BY DEF ProvisionerTypeOK
  <2>2. \A f \in [Instances -> [Resources -> 0 .. MaxCreated]] :
          \A i \in Instances : \A r \in Resources : f[i][r] \in 0 .. MaxCreated
    OBVIOUS
  <2>3. 0 .. MaxCreated \subseteq Nat
    BY DEF ConstantsAssumption
  <2> QED
    BY <2>1, <2>2, <2>3
<1> QED
  BY <1>1, <1>2, <1>3 DEF ProvisionerTypeOK, Commands, Env

(***************************************************************************)
(* Kinds of steps.                                                         *)
(***************************************************************************)

LEMMA RunningOK ==
    ASSUME ProvisionerInv, cmd.pc \in Running
    PROVE  env.there = "yes"
<1>1. env.there \in {"no", "yes"}
  BY Typed DEF ProvisionerInv
<1>2. cmd.pc \notin {"idle", "import", "guard"} \cup Importing
  BY DEF Running, Registering, Importing
<1> QED
  BY <1>1, <1>2 DEF ProvisionerInv, ImportOK

\* A step of the command that writes nothing.
LEMMA CommandStep ==
    ASSUME ProvisionerInv,
           UNCHANGED <<iam, used, made, visible, file, archive, env, import, data, legacy, lost, mishaps>>,
           cmd' \in Commands,
           cmd'.pc \in Importing => cmd.pc \in Importing,
           cmd'.pc \in Running => env.there = "yes",
           cmd'.pc = "guard" => env.there = "yes" \/ legacy = NoProfile,
           CommandOK'
    PROVE  ProvisionerInv'
<1>1. ProvisionerTypeOK'
  BY DEF ProvisionerInv, ProvisionerTypeOK, Commands, Pcs, Importing, Running, Registering
<1>2. Sound(file)' /\ InstancesOK' /\ EnvOK'
  BY DEF ProvisionerInv, Sound, Real, InstancesOK, Knows, EnvOK
<1>3. cmd'.pc \in {"idle", "import", "guard"} \cup Importing \cup Running
  BY DEF Commands, Pcs
<1>4. ImportOK'
  BY <1>3 DEF ProvisionerInv, ImportOK
<1>5. NothingForgotten' /\ ConfiguredHasState'
  BY DEF ProvisionerInv, NothingForgotten, Kept, Knows, ConfiguredHasState
<1> QED
  BY <1>1, <1>2, <1>4, <1>5 DEF ProvisionerInv

\* A step of the command that replaces identity.json: what the old one knew is
\* known to the new one, or archived.
LEMMA FileStep ==
    ASSUME ProvisionerInv, cmd.pc \in Running,
           UNCHANGED <<iam, used, made, visible, archive, env, import, data, legacy, lost, mishaps>>,
           cmd' \in Commands, cmd'.pc \in Running,
           NEW s \in State, file' = s, Sound(s),
           \A r \in Resources : iam # Null /\ Knows(file, iam, r) => Knows(s, iam, r),
           \/ file \in archive
           \/ /\ \A i \in Instances : \A r \in Resources : Knows(file, i, r) => Knows(s, i, r)
              /\ file.project = Null \/ s.project = file.project,
           CommandOK'
    PROVE  ProvisionerInv'
<1>1. env.there = "yes" /\ cmd'.pc \notin Importing
  BY RunningOK DEF Running, Registering, Importing
<1>2. ProvisionerTypeOK'
  <2>1. s.pending # Null => s[s.pending] = Null
    BY DEF Sound
  <2> QED
    BY <2>1 DEF ProvisionerInv, ProvisionerTypeOK, Commands, Pcs, Importing, Running, Registering
<1>3. Sound(file)'
  BY DEF Sound, Real
<1>4. InstancesOK'
  BY DEF ProvisionerInv, InstancesOK, Knows
<1>5. EnvOK'
  BY DEF ProvisionerInv, EnvOK, Real
<1>6. ImportOK'
  BY <1>1 DEF ProvisionerInv, ImportOK
<1>7. NothingForgotten'
  <2> SUFFICES ASSUME NEW i \in (Instances \ lost)', NEW r \in Resources, (made[i][r] > 0)'
               PROVE  (\E t \in Kept : Knows(t, i, r))'
    BY DEF NothingForgotten
  <2>1. PICK t \in Kept : Knows(t, i, r)
    BY DEF ProvisionerInv, NothingForgotten
  <2>2. t # file \/ t \in archive => t \in Kept'
    BY DEF Kept
  <2>3. s \in Kept'
    BY DEF Kept
  <2> QED
    BY <2>1, <2>2, <2>3 DEF Knows
<1>8. ConfiguredHasState'
  <2>1. ASSUME env.project # Null, env.project[1] \notin lost
        PROVE  \E t \in archive \cup {s} : t.project = env.project
    BY <2>1 DEF ProvisionerInv, ConfiguredHasState
  <2> QED
    BY <2>1 DEF ConfiguredHasState
<1> QED
  BY <1>2, <1>3, <1>4, <1>5, <1>6, <1>7, <1>8 DEF ProvisionerInv

\* Outside the steps of a command nothing is expected of what it knows.
LEMMA OutsideCommand ==
    ASSUME cmd'.pc \in {"idle", "import", "guard", "start"} \cup Importing
    PROVE  CommandOK'
<1>1. /\ cmd'.pc \notin {"read", "recover", "reset"} \cup Registering
      /\ cmd'.pc \notin {"create project", "record project", "create app", "record app"}
  BY DEF Importing, Registering
<1>2. \A r \in Resources : ~ Creating(r)'
  BY <1>1 DEF Creating
<1> QED
  BY <1>1, <1>2 DEF CommandOK

(***************************************************************************)
(* main: before the provisioner runs.                                      *)
(***************************************************************************)

LEMMA BeginOK == ProvisionerInv /\ BeginCommand => ProvisionerInv'
<1> SUFFICES ASSUME ProvisionerInv, BeginCommand PROVE ProvisionerInv'
  OBVIOUS
<1>1. UNCHANGED <<iam, used, made, visible, file, archive, env, import, data, legacy, lost, mishaps>>
  BY DEF BeginCommand, zitadel, disk, world
<1>2. PICK r \in {"no", "yes"} : cmd' = [NoCommand EXCEPT !.pc = "import", !.recover = r]
  BY DEF BeginCommand
<1>3. cmd' \in Commands /\ cmd'.pc = "import"
  BY <1>2, NoStateFacts DEF NoCommand, Commands, Pcs
<1>4. cmd'.pc \notin Importing \cup Running \cup {"guard"}
  BY <1>3 DEF Importing, Running, Registering
<1>5. CommandOK'
  BY <1>3, OutsideCommand
<1> QED
  BY <1>1, <1>3, <1>4, <1>5, CommandStep

LEMMA StepFailsOK == ProvisionerInv /\ StepFails => ProvisionerInv'
<1> SUFFICES ASSUME ProvisionerInv, StepFails PROVE ProvisionerInv'
  OBVIOUS
<1>1. UNCHANGED <<iam, used, made, visible, file, archive, env, import, data, legacy, lost, mishaps>>
  BY DEF StepFails, zitadel, disk, world
<1>2. cmd' = NoCommand
  BY DEF StepFails
<1>3. cmd' \in Commands /\ cmd'.pc = "idle"
  BY <1>2, NoStateFacts DEF NoCommand, Commands, Pcs
<1>4. cmd'.pc \notin Importing \cup Running \cup {"guard"}
  BY <1>3 DEF Importing, Running, Registering
<1>5. CommandOK'
  BY <1>3, OutsideCommand
<1> QED
  BY <1>1, <1>3, <1>4, <1>5, CommandStep

LEMMA NothingToImportOK == ProvisionerInv /\ NothingToImport => ProvisionerInv'
<1> SUFFICES ASSUME ProvisionerInv, NothingToImport PROVE ProvisionerInv'
  OBVIOUS
<1>1. UNCHANGED <<iam, used, made, visible, file, archive, env, import, data, legacy, lost, mishaps>>
  BY DEF NothingToImport, zitadel, disk, world
<1>2. GoTo("guard") /\ (legacy = NoProfile \/ env.there = "yes")
  BY DEF NothingToImport
<1>3. cmd \in Commands /\ "guard" \in Pcs
  BY Typed DEF ProvisionerInv, Pcs
<1>4. cmd' \in Commands /\ cmd'.pc = "guard"
  BY <1>2, <1>3, GoToOK
<1>5. cmd'.pc \notin Importing \cup Running
  BY <1>4 DEF Importing, Running, Registering
<1>6. CommandOK'
  BY <1>4, OutsideCommand
<1> QED
  BY <1>1, <1>2, <1>4, <1>5, <1>6, CommandStep

LEMMA ConfiguredOK == ProvisionerInv /\ Configured => ProvisionerInv'
<1> SUFFICES ASSUME ProvisionerInv, Configured PROVE ProvisionerInv'
  OBVIOUS
<1>1. UNCHANGED <<iam, used, made, visible, file, archive, env, import, data, legacy, lost, mishaps>>
  BY DEF Configured, zitadel, disk, world
<1>2. GoTo("start") /\ env.there = "yes"
  BY DEF Configured
<1>3. cmd \in Commands /\ "start" \in Pcs
  BY Typed DEF ProvisionerInv, Pcs, Running
<1>4. cmd' \in Commands /\ cmd'.pc = "start"
  BY <1>2, <1>3, GoToOK
<1>5. cmd'.pc \notin Importing \cup {"guard"}
  BY <1>4 DEF Importing
<1>6. CommandOK'
  BY <1>4, OutsideCommand
<1> QED
  BY <1>1, <1>2, <1>4, <1>5, <1>6, CommandStep

(***************************************************************************)
(* Importing a checkout's profile, and configuring.                        *)
(***************************************************************************)

LEMMA LegacyOK ==
    ASSUME ProvisionerInv, legacy # NoProfile
    PROVE  \E i \in used : /\ i \in Instances /\ \A r \in Resources : made[i][r] = 1
                           /\ legacy.file \in State /\ legacy.env \in Env
                           /\ legacy.file.instance = Null /\ legacy.file.pending = Null
                           /\ legacy.file.project = <<i, 1>> /\ legacy.file.app = <<i, 1>>
                           /\ legacy.env.there = "yes" /\ legacy.env.project = <<i, 1>>
                           /\ <<i, 1>> # Null
<1>1. PICK i \in used : legacy = OldProfile(i) /\ \A r \in Resources : made[i][r] = 1
  BY DEF ProvisionerInv, ImportOK
<1>2. i \in Instances
  BY Typed DEF ProvisionerInv
<1> QED
  BY <1>1, <1>2, OldFacts

LEMMA ImportStateOK == ProvisionerInv /\ ImportState => ProvisionerInv'
<1> SUFFICES ASSUME ProvisionerInv, ImportState PROVE ProvisionerInv'
  OBVIOUS
<1>1. /\ cmd.pc = "import" /\ legacy # NoProfile /\ env.there = "no" /\ import = "none"
      /\ GoTo("import provenance") /\ file' = legacy.file /\ import' = "state"
      /\ UNCHANGED <<iam, used, made, visible, archive, env, data, legacy, lost, mishaps>>
  BY DEF ImportState, ImportStarts, Incomplete, zitadel, world
<1>2. /\ file = NoState /\ env = NoEnv /\ data \in {Null, legacy.file.project[1]}
  BY <1>1 DEF ProvisionerInv, ImportOK, EnvOK
<1>3. PICK i \in used : /\ i \in Instances /\ \A r \in Resources : made[i][r] = 1
                        /\ legacy.file \in State
                        /\ legacy.file.instance = Null /\ legacy.file.pending = Null
                        /\ legacy.file.project = <<i, 1>> /\ legacy.file.app = <<i, 1>>
                        /\ <<i, 1>> # Null
  BY <1>1, LegacyOK
<1>4. cmd' \in Commands /\ cmd'.pc = "import provenance"
  BY <1>1, Typed, GoToOK DEF ProvisionerInv, Pcs, Importing
<1>5. ProvisionerTypeOK'
  BY <1>1, <1>3, <1>4 DEF ProvisionerInv, ProvisionerTypeOK, Commands, Pcs, Importing, Running, Registering
<1>6. Sound(file)'
  <2>1. \A r \in Resources : legacy.file[r] = <<i, 1>>
    BY <1>3, ResourceOf
  <2>2. Real(<<i, 1>>, "project") /\ Real(<<i, 1>>, "app")
    BY <1>3 DEF Real
  <2>3. Sound(legacy.file)
    BY <1>2, <1>3, <2>1, <2>2 DEF Sound
  <2> QED
    BY <1>1, <2>3 DEF Sound, Real
<1>7. InstancesOK'
  BY <1>1, <1>2, NoStateFacts, Typed DEF ProvisionerInv, InstancesOK
<1>8. EnvOK'
  BY <1>1 DEF ProvisionerInv, EnvOK, Real
<1>9. ImportOK'
  BY <1>1, <1>2, <1>4 DEF ProvisionerInv, ImportOK, Importing
<1>10. CommandOK'
  BY <1>4, OutsideCommand DEF Importing
<1>11. NothingForgotten'
  <2> SUFFICES ASSUME NEW j \in (Instances \ lost)', NEW r \in Resources, (made[j][r] > 0)'
               PROVE  (\E t \in Kept : Knows(t, j, r))'
    BY DEF NothingForgotten
  <2>1. PICK t \in Kept : Knows(t, j, r)
    BY <1>1 DEF ProvisionerInv, NothingForgotten
  <2>2. t # NoState
    BY <2>1, NoStateFacts
  <2>3. t \in Kept'
    BY <1>1, <1>2, <2>2 DEF Kept
  <2> QED
    BY <2>1, <2>3 DEF Knows
<1>12. ConfiguredHasState'
  BY <1>1, <1>2 DEF ConfiguredHasState, NoEnv
<1> QED
  BY <1>5, <1>6, <1>7, <1>8, <1>9, <1>10, <1>11, <1>12 DEF ProvisionerInv

LEMMA ImportProvenanceOK == ProvisionerInv /\ ImportProvenance => ProvisionerInv'
<1> SUFFICES ASSUME ProvisionerInv, ImportProvenance PROVE ProvisionerInv'
  OBVIOUS
<1>1. /\ cmd.pc = "import provenance" /\ GoTo("import env") /\ import' = "provenance"
      /\ UNCHANGED <<iam, used, made, visible, file, archive, env, data, legacy, lost, mishaps>>
  BY DEF ImportProvenance, zitadel, world
<1>2. env.there = "no" /\ import # "none" /\ file = legacy.file /\ legacy # NoProfile
  BY <1>1 DEF ProvisionerInv, ImportOK, Importing
<1>3. cmd' \in Commands /\ cmd'.pc = "import env"
  BY <1>1, Typed, GoToOK DEF ProvisionerInv, Pcs, Importing
<1>4. ProvisionerTypeOK'
  BY <1>1, <1>3 DEF ProvisionerInv, ProvisionerTypeOK, Commands, Pcs, Importing, Running, Registering
<1>5. Sound(file)' /\ InstancesOK' /\ EnvOK'
  BY <1>1 DEF ProvisionerInv, Sound, Real, InstancesOK, Knows, EnvOK
<1>6. ImportOK'
  BY <1>1, <1>2, <1>3 DEF ProvisionerInv, ImportOK, Importing
<1>7. CommandOK'
  BY <1>3, OutsideCommand DEF Importing
<1>8. NothingForgotten' /\ ConfiguredHasState'
  <2>1. Kept \subseteq Kept'
    BY <1>1, <1>2 DEF Kept
  <2> QED
    BY <1>1, <2>1, StillKept DEF ProvisionerInv, ConfiguredHasState
<1> QED
  BY <1>4, <1>5, <1>6, <1>7, <1>8 DEF ProvisionerInv

\* .env is put in place: by the last step of an import, or by hand.
LEMMA EnvStep ==
    ASSUME ProvisionerInv, legacy # NoProfile, env.there = "no", import # "none", env' = legacy.env,
           UNCHANGED <<iam, used, made, visible, file, archive, import, data, legacy, lost, mishaps>>,
           cmd' \in Commands, cmd'.pc \in {"idle", "guard"}
    PROVE  ProvisionerInv'
<1>1. PICK i \in used : /\ i \in Instances /\ \A r \in Resources : made[i][r] = 1
                        /\ legacy.env \in Env /\ legacy.file.project = <<i, 1>> /\ <<i, 1>> # Null
                        /\ legacy.env.there = "yes" /\ legacy.env.project = <<i, 1>>
                        /\ <<i, 1>> # Null
  BY LegacyOK
<1>2. data \in {Null, i} /\ (file = legacy.file \/ i \in lost)
  BY <1>1 DEF ProvisionerInv, ImportOK
<1>3. cmd'.pc \notin Importing \cup Running
  BY DEF Importing, Running, Registering
<1>4. ProvisionerTypeOK'
  BY <1>1 DEF ProvisionerInv, ProvisionerTypeOK, Commands, Pcs, Importing, Running, Registering
<1>5. Sound(file)' /\ InstancesOK'
  BY DEF ProvisionerInv, Sound, Real, InstancesOK, Knows
<1>6. EnvOK'
  <2>1. env'.there = "yes" /\ env'.project = <<i, 1>>
    BY <1>1
  <2>2. env'.project[1] = i /\ env'.project[2] = 1
    BY <2>1
  <2>3. Real(env.project, "project")'
    BY <1>1, <2>2 DEF Real
  <2>4. data' # Null => env'.project[1] = data'
    BY <1>2, <2>2
  <2> QED
    BY <1>1, <2>1, <2>3, <2>4 DEF EnvOK
<1>7. ImportOK'
  BY <1>1, <1>3 DEF ProvisionerInv, ImportOK
<1>8. CommandOK'
  BY OutsideCommand
<1>9. NothingForgotten'
  <2>1. Kept \subseteq Kept'
    BY DEF Kept
  <2> QED
    BY <2>1, StillKept DEF ProvisionerInv
<1>10. ConfiguredHasState'
  BY <1>1, <1>2 DEF ConfiguredHasState
<1> QED
  BY <1>4, <1>5, <1>6, <1>7, <1>8, <1>9, <1>10 DEF ProvisionerInv

LEMMA ImportEnvOK == ProvisionerInv /\ ImportEnv => ProvisionerInv'
<1> SUFFICES ASSUME ProvisionerInv, ImportEnv PROVE ProvisionerInv'
  OBVIOUS
<1>1. /\ cmd.pc = "import env" /\ GoTo("guard") /\ env' = legacy.env
      /\ UNCHANGED <<iam, used, made, visible, file, archive, import, data, legacy, lost, mishaps>>
  BY DEF ImportEnv, zitadel, world
<1>2. env.there = "no" /\ import # "none" /\ legacy # NoProfile
  BY <1>1 DEF ProvisionerInv, ImportOK, Importing
<1>3. cmd' \in Commands /\ cmd'.pc = "guard"
  BY <1>1, Typed, GoToOK DEF ProvisionerInv, Pcs
<1> QED
  BY <1>1, <1>2, <1>3, EnvStep

LEMMA RestoreEnvOK == ProvisionerInv /\ RestoreEnv => ProvisionerInv'
<1> SUFFICES ASSUME ProvisionerInv, RestoreEnv PROVE ProvisionerInv'
  OBVIOUS
<1>1. /\ cmd.pc = "idle" /\ env.there = "no" /\ import # "none" /\ env' = legacy.env
      /\ UNCHANGED <<iam, used, made, visible, file, archive, import, data, legacy, lost, mishaps, cmd>>
  BY DEF RestoreEnv, Incomplete, zitadel, world
<1>2. legacy # NoProfile /\ cmd' \in Commands
  BY <1>1, Typed DEF ProvisionerInv, ImportOK
<1> QED
  BY <1>1, <1>2, EnvStep

LEMMA ConfigureOK == ProvisionerInv /\ Configure => ProvisionerInv'
<1> SUFFICES ASSUME ProvisionerInv, Configure PROVE ProvisionerInv'
  OBVIOUS
<1>1. /\ cmd.pc = "guard" /\ env.there = "no" /\ iam = Null /\ data = Null /\ GoTo("start")
      /\ env' = [NoEnv EXCEPT !.there = "yes"]
      /\ UNCHANGED <<iam, used, made, visible, file, archive, import, data, legacy, lost, mishaps>>
  BY DEF Configure, VolumesAbsent, DataAbsent, zitadel, world
<1>2. env' \in Env /\ env'.there = "yes" /\ env'.project = Null
  BY <1>1 DEF NoEnv, Env
<1>3. cmd' \in Commands /\ cmd'.pc = "start"
  BY <1>1, Typed, GoToOK DEF ProvisionerInv, Pcs, Running
<1>4. ProvisionerTypeOK'
  BY <1>1, <1>2, <1>3 DEF ProvisionerInv, ProvisionerTypeOK, Commands, Pcs, Importing, Running, Registering
<1>5. Sound(file)' /\ InstancesOK'
  BY <1>1 DEF ProvisionerInv, Sound, Real, InstancesOK, Knows
<1>6. EnvOK' /\ ConfiguredHasState'
  BY <1>1, <1>2 DEF EnvOK, ConfiguredHasState
<1>7. ImportOK'
  BY <1>1, <1>2, <1>3 DEF ProvisionerInv, ImportOK, Importing
<1>8. CommandOK'
  BY <1>3, OutsideCommand
<1>9. NothingForgotten'
  <2>1. Kept \subseteq Kept'
    BY <1>1 DEF Kept
  <2> QED
    BY <1>1, <2>1, StillKept DEF ProvisionerInv
<1> QED
  BY <1>4, <1>5, <1>6, <1>7, <1>8, <1>9 DEF ProvisionerInv

LEMMA StartIamOK == ProvisionerInv /\ StartIam => ProvisionerInv'
<1> SUFFICES ASSUME ProvisionerInv, StartIam PROVE ProvisionerInv'
  OBVIOUS
<1>1. /\ cmd.pc = "start" /\ GoTo("read")
      /\ \/ iam # Null /\ iam' = iam /\ used' = used
         \/ iam = Null /\ \E i \in Instances \ used : iam' = i /\ used' = used \cup {i}
      /\ UNCHANGED <<made, visible, file, archive, env, import, data, legacy, lost, mishaps>>
  BY DEF StartIam, disk, world
<1>2. env.there = "yes"
  BY <1>1, RunningOK DEF Running
<1>3. cmd' \in Commands /\ cmd'.pc = "read"
  BY <1>1, Typed, GoToOK DEF ProvisionerInv, Pcs, Running
<1>4. iam' \in used' /\ used \subseteq used' /\ used' \subseteq Instances /\ iam' # Null
  BY <1>1, Typed DEF ProvisionerInv, ConstantsAssumption
<1>5. ProvisionerTypeOK'
  BY <1>1, <1>3, <1>4 DEF ProvisionerInv, ProvisionerTypeOK, Commands, Pcs, Importing, Running, Registering
<1>6. Sound(file)' /\ EnvOK'
  BY <1>1, <1>4 DEF ProvisionerInv, Sound, Real, EnvOK
<1>7. InstancesOK'
  <2>1. \A i \in Instances : \A r \in Resources :
         /\ visible[i][r] <= made[i][r] /\ made[i][r] <= 1
         /\ i \notin used => made[i][r] = 0
         /\ visible[i][r] \in Nat /\ made[i][r] \in Nat
    BY Typed DEF ProvisionerInv, InstancesOK
  <2>2. \A r \in Resources : visible[iam'][r] < made[iam'][r] => Knows(file, iam', r)
    <3>1. CASE iam # Null /\ iam' = iam
      BY <3>1 DEF ProvisionerInv, InstancesOK
    <3>2. CASE iam' \in Instances \ used
      BY <2>1, <3>2
    <3> QED
      BY <1>1, <3>1, <3>2
  <2> QED
    BY <1>1, <1>4, <2>1, <2>2 DEF InstancesOK, Knows
<1>8. ImportOK'
  BY <1>1, <1>2, <1>3, <1>4 DEF ProvisionerInv, ImportOK, Importing
<1>9. CommandOK'
  BY <1>3, <1>4 DEF CommandOK, Creating, Registering
<1>10. NothingForgotten' /\ ConfiguredHasState'
  <2>1. Kept \subseteq Kept'
    BY <1>1 DEF Kept
  <2> QED
    BY <1>1, <2>1, StillKept DEF ProvisionerInv, ConfiguredHasState
<1> QED
  BY <1>5, <1>6, <1>7, <1>8, <1>9, <1>10 DEF ProvisionerInv

(***************************************************************************)
(* provision: reading the state, and replacing it.                         *)
(***************************************************************************)

LEMMA NoStateIs ==
    ASSUME NEW s \in State, s.instance = Null, s.pending = Null, s.project = Null, s.app = Null
    PROVE  s = NoState
BY DEF State, NoState

LEMMA LoadedOK ==
    ASSUME ProvisionerInv, cmd.pc \in Running
    PROVE  /\ Loaded \in State /\ Sound(Loaded)
           /\ file # NoState => Loaded = file
           /\ file = NoState => /\ Loaded = [NoState EXCEPT !.project = env.project]
                                /\ Loaded.instance = Null /\ Loaded.pending = Null
                                /\ Loaded.app = Null /\ Loaded.project = env.project
           /\ Loaded = NoState => file = NoState /\ env.project = Null /\ data = Null
           /\ Loaded # NoState /\ Loaded.instance = Null => Loaded.project # Null
<1>1. file \in State /\ Sound(file) /\ env.project \in Ids \cup {Null} /\ env.there = "yes"
  BY Typed, RunningOK DEF ProvisionerInv
<1>2. CASE file # NoState
  <2>1. Loaded = file
    BY <1>2 DEF Loaded
  <2>2. ASSUME file.instance = Null, file.project = Null PROVE file = NoState
    <3>1. file.pending = Null /\ file.app = Null
      BY <1>1, <2>2 DEF Sound
    <3> QED
      BY <1>1, <2>2, <3>1, NoStateIs
  <2> QED
    BY <1>1, <1>2, <2>1, <2>2
<1>3. CASE file = NoState
  <2> DEFINE s == [NoState EXCEPT !.project = env.project]
  <2>1. /\ s \in State /\ s.instance = Null /\ s.pending = Null /\ s.app = Null
        /\ s.project = env.project /\ s["project"] = env.project /\ s["app"] = Null
    BY <1>1 DEF NoState, State
  <2>2. Loaded = s
    BY <1>3 DEF Loaded
  <2> HIDE DEF s
  <2>3. env.project # Null => Real(env.project, "project") /\ (data # Null => env.project[1] = data)
    BY DEF ProvisionerInv, EnvOK
  <2>4. Sound(s)
    BY <2>1, <2>3 DEF Sound, ConstantsAssumption
  <2>5. s = NoState => env.project = Null /\ data = Null
    BY <1>1, <2>1, NoStateFacts DEF ProvisionerInv, EnvOK
  <2>6. s # NoState => env.project # Null
    BY <2>1, NoStateIs
  <2> QED
    BY <1>3, <2>1, <2>2, <2>4, <2>5, <2>6 DEF s
<1> QED
  BY <1>2, <1>3

\* Replacing the identity begins where the running instance is not the state's.
LEMMA RecoverStep ==
    ASSUME ProvisionerInv, cmd.pc = "read",
           cmd' = [cmd EXCEPT !.pc = "recover", !.instance = iam, !.state = Loaded],
           UNCHANGED <<iam, used, made, visible, file, archive, env, import, data, legacy, lost, mishaps>>,
           \A r \in Resources : ~ Knows(file, iam, r)
    PROVE  ProvisionerInv'
<1>1. /\ cmd \in Commands /\ iam # Null /\ iam \in Instances /\ cmd.pc \in Running
      /\ Loaded \in State
  <2>1. cmd \in Commands /\ cmd.pc \in Running
    BY Typed DEF ProvisionerInv, Running
  <2>2. iam # Null /\ iam \in Instances
    BY Typed DEF ProvisionerInv, CommandOK
  <2> QED
    BY <2>1, <2>2, LoadedOK
<1>2. cmd' \in Commands /\ cmd'.pc = "recover" /\ cmd'.instance = iam
  BY <1>1 DEF Commands, Pcs, Running
<1>3. env.there = "yes"
  BY <1>1, RunningOK
<1>4. cmd'.pc \notin Importing /\ cmd'.pc # "guard" /\ cmd'.pc \notin Registering
  BY <1>2 DEF Importing, Registering
<1>5. CommandOK'
  <2>1. iam' # Null /\ cmd'.instance = iam'
    BY <1>1, <1>2
  <2>2. \A r \in Resources : ~ Knows(file', iam', r)
    OBVIOUS
  <2>3. \A r \in Resources : ~ Creating(r)'
    BY <1>2 DEF Creating
  <2> QED
    BY <1>2, <1>4, <2>1, <2>2, <2>3 DEF CommandOK, Knows
<1> QED
  BY <1>2, <1>3, <1>4, <1>5, CommandStep


LEMMA InstanceChangedOK == ProvisionerInv /\ InstanceChanged => ProvisionerInv'
<1> SUFFICES ASSUME ProvisionerInv, InstanceChanged PROVE ProvisionerInv'
  OBVIOUS
<1>1. /\ cmd.pc = "read" /\ Loaded.instance \notin {Null, iam}
      /\ cmd' = [cmd EXCEPT !.pc = "recover", !.instance = iam, !.state = Loaded]
      /\ UNCHANGED <<iam, used, made, visible, file, archive, env, import, data, legacy, lost, mishaps>>
  BY DEF InstanceChanged, zitadel, disk, world
<1>2. cmd.pc \in Running
  BY <1>1 DEF Running
<1>3. Loaded = file /\ Sound(file) /\ file.instance \notin {Null, iam}
  BY <1>1, <1>2, LoadedOK DEF ProvisionerInv
<1>4. ASSUME NEW r \in Resources, Knows(file, iam, r) PROVE FALSE
  <2>1. file[r] = <<iam, 1>>
    BY <1>3, <1>4 DEF Knows
  <2>2. iam \in Instances
    BY <1>1, Typed DEF ProvisionerInv, CommandOK
  <2>3. file[r] # Null /\ file[r][1] = iam
    BY <2>1, <2>2 DEF Ids, ConstantsAssumption
  <2> QED
    BY <1>3, <2>3 DEF Sound
<1> QED
  BY <1>1, <1>4, RecoverStep

LEMMA RecoveryRequestedOK == ProvisionerInv /\ RecoveryRequested => ProvisionerInv'
<1> SUFFICES ASSUME ProvisionerInv, RecoveryRequested PROVE ProvisionerInv'
  OBVIOUS
<1>1. /\ cmd.pc = "read" /\ Loaded.instance = Null /\ Loaded.pending = Null
      /\ Loaded.project # Null /\ ~ Exists(Loaded.project, "project")
      /\ cmd' = [cmd EXCEPT !.pc = "recover", !.instance = iam, !.state = Loaded]
      /\ UNCHANGED <<iam, used, made, visible, file, archive, env, import, data, legacy, lost, mishaps>>
  BY DEF RecoveryRequested, zitadel, disk, world
<1>2. cmd.pc \in Running
  BY <1>1 DEF Running
<1>3. iam \in Instances /\ iam # Null
  BY <1>1, Typed DEF ProvisionerInv, CommandOK
<1>4. Loaded.project[1] # iam
  <2>1. Loaded["project"] = Loaded.project
    BY <1>2, LoadedOK DEF State
  <2>2. Real(Loaded.project, "project")
    BY <1>1, <1>2, <2>1, LoadedOK DEF Sound
  <2>3. \A n \in Nat : n >= 1 => 1 <= n
    OBVIOUS
  <2>4. made[iam]["project"] \in Nat
    BY <1>3, Typed DEF ProvisionerInv
  <2> QED
    BY <1>1, <2>2, <2>3, <2>4 DEF Real, Exists
<1>5. ASSUME NEW r \in Resources, Knows(file, iam, r) PROVE FALSE
  <2>1. file # NoState
    BY <1>3, <1>5, NoStateFacts
  <2>2. Loaded = file
    BY <1>2, <2>1, LoadedOK
  <2>3. file[r] = <<iam, 1>>
    BY <1>1, <1>3, <1>5, <2>2 DEF Knows
  <2>4. file[r] # Null /\ file[r][1] = iam
    BY <1>3, <2>3 DEF Ids, ConstantsAssumption
  <2>5. file.app # Null => file.app[1] = file.project[1]
    BY <1>1, <2>2 DEF ProvisionerInv, Sound
  <2>6. file \in State
    BY Typed DEF ProvisionerInv
  <2> QED
    BY <1>4, <2>2, <2>4, <2>5, <2>6, ResourceOf
<1> QED
  BY <1>1, <1>5, RecoverStep

LEMMA ArchiveOK == ProvisionerInv /\ Archive => ProvisionerInv'
<1> SUFFICES ASSUME ProvisionerInv, Archive PROVE ProvisionerInv'
  OBVIOUS
<1>1. /\ cmd.pc = "recover" /\ data = Null /\ GoTo("reset")
      /\ archive' = IF file = NoState THEN archive ELSE archive \cup {file}
      /\ UNCHANGED <<iam, used, made, visible, file, env, import, data, legacy, lost, mishaps>>
  BY DEF Archive, DataAbsent, zitadel, world
<1>2. cmd.pc \in Running /\ env.there = "yes"
  BY <1>1, RunningOK DEF Running
<1>3. cmd' \in Commands /\ cmd'.pc = "reset" /\ cmd'.instance = cmd.instance
  BY <1>1, Typed, GoToOK DEF ProvisionerInv, Pcs, Running
<1>4. archive' \subseteq State /\ archive \subseteq archive' /\ (file = NoState \/ file \in archive')
  BY <1>1, Typed DEF ProvisionerInv
<1>5. ProvisionerTypeOK'
  BY <1>1, <1>3, <1>4 DEF ProvisionerInv, ProvisionerTypeOK, Commands, Pcs, Importing, Running, Registering
<1>6. Sound(file)' /\ InstancesOK' /\ EnvOK'
  BY <1>1 DEF ProvisionerInv, Sound, Real, InstancesOK, Knows, EnvOK
<1>7. ImportOK'
  BY <1>1, <1>2, <1>3 DEF ProvisionerInv, ImportOK, Importing
<1>8. CommandOK'
  <2>1. /\ iam # Null /\ cmd.instance = iam /\ \A r \in Resources : ~ Knows(file, iam, r)
    BY <1>1 DEF ProvisionerInv, CommandOK
  <2>2. \A r \in Resources : ~ Creating(r)'
    BY <1>3 DEF Creating
  <2>3. cmd'.pc \notin Registering
    BY <1>3 DEF Registering
  <2> QED
    BY <1>1, <1>3, <1>4, <2>1, <2>2, <2>3 DEF CommandOK, Knows
<1>9. NothingForgotten' /\ ConfiguredHasState'
  <2>1. Kept \subseteq Kept'
    BY <1>1, <1>4 DEF Kept
  <2> QED
    BY <1>1, <1>4, <2>1, StillKept DEF ProvisionerInv, ConfiguredHasState
<1> QED
  BY <1>5, <1>6, <1>7, <1>8, <1>9 DEF ProvisionerInv

\* What is to be shown of a command that registers.
LEMMA Registers ==
    ASSUME iam' # Null, cmd'.instance = iam', cmd'.pc \in Registering,
           Sound(cmd.state)', cmd'.state.instance \in {Null, iam'},
           cmd'.state.instance = Null => cmd'.pc \in {"project", "verify"} /\ cmd'.state.project # Null,
           \/ file' = cmd'.state
           \/ file' = NoState /\ cmd'.state = [NoState EXCEPT !.project = env'.project],
           cmd'.pc \in {"project", "create project", "record project"} \/ cmd'.state.project # Null,
           cmd'.pc \in {"publish", "infra"} => cmd'.state.app # Null,
           cmd'.pc = "infra" => env'.project = cmd'.state.project,
           \A r \in Resources :
              /\ Creating(r)' => cmd'.state.pending = r /\ made'[iam'][r] = 0
              /\ cmd'.pc = (IF r = "project" THEN "record project" ELSE "record app") =>
                   cmd'.state.pending = r /\ made'[iam'][r] = 1
    PROVE  CommandOK'
<1>1. cmd'.pc \notin {"read", "recover", "reset"}
  BY DEF Registering
<1> QED
  BY <1>1 DEF CommandOK

LEMMA FreshOK ==
    ASSUME ProvisionerInv, iam \in used, data = Null
    PROVE  LET s == [NoState EXCEPT !.instance = iam] IN
           /\ s \in State /\ s.instance = iam /\ s.pending = Null /\ s.project = Null /\ Sound(s)
<1>1. iam \in Instances
  BY Typed DEF ProvisionerInv
<1> DEFINE s == [NoState EXCEPT !.instance = iam]
<1>2. /\ s \in State /\ s.instance = iam /\ s.pending = Null /\ s.project = Null /\ s.app = Null
      /\ \A r \in Resources : s[r] = Null
  BY <1>1 DEF NoState, State
<1> HIDE DEF s
<1>3. Sound(s)
  BY <1>1, <1>2 DEF Sound, ConstantsAssumption
<1> QED
  BY <1>2, <1>3 DEF s

LEMMA ResetOK == ProvisionerInv /\ Reset => ProvisionerInv'
<1> SUFFICES ASSUME ProvisionerInv, Reset PROVE ProvisionerInv'
  OBVIOUS
<1>1. /\ cmd.pc = "reset" /\ Save("project", Fresh(cmd.state, cmd.instance))
      /\ UNCHANGED <<iam, used, made, visible, archive, env, import, data, legacy, lost, mishaps>>
  BY DEF Reset, zitadel, world
<1>2. /\ iam # Null /\ cmd.instance = iam /\ data = Null /\ (file = NoState \/ file \in archive)
      /\ \A r \in Resources : ~ Knows(file, iam, r)
  BY <1>1 DEF ProvisionerInv, CommandOK
<1>3. iam \in used /\ cmd \in Commands /\ cmd.pc \in Running
  BY <1>1, <1>2, Typed DEF ProvisionerInv, Running
<1>4. PICK s : s = [NoState EXCEPT !.instance = iam]
  OBVIOUS
<1>5. s \in State /\ s.instance = iam /\ s.pending = Null /\ s.project = Null /\ Sound(s)
  BY <1>2, <1>3, <1>4, FreshOK
<1>6. Save("project", s)
  BY <1>1, <1>2, <1>4 DEF Fresh
<1>7. cmd' \in Commands /\ cmd'.pc = "project" /\ cmd'.instance = iam /\ cmd'.state = s /\ file' = s
  BY <1>2, <1>3, <1>5, <1>6, SaveOK DEF Pcs, Running, Registering
<1>8. cmd'.pc \in Running /\ cmd'.pc \in Registering
  BY <1>7 DEF Running, Registering
<1>9. CommandOK'
  <2>1. Sound(cmd.state)'
    BY <1>1, <1>5, <1>7 DEF Sound, Real
  <2>2. \A r \in Resources : ~ Creating(r)'
    BY <1>7 DEF Creating
  <2> QED
    BY <1>1, <1>2, <1>5, <1>7, <1>8, <2>1, <2>2, Registers
<1>10. \/ file \in archive
       \/ /\ \A i \in Instances : \A r \in Resources : Knows(file, i, r) => Knows(s, i, r)
          /\ file.project = Null
  BY <1>2, NoStateFacts
<1> QED
  BY <1>1, <1>2, <1>3, <1>5, <1>7, <1>8, <1>9, <1>10, FileStep

LEMMA KnownOK == ProvisionerInv /\ Known => ProvisionerInv'
<1> SUFFICES ASSUME ProvisionerInv, Known PROVE ProvisionerInv'
  OBVIOUS
<1>1. /\ cmd.pc = "read" /\ Loaded.instance \in {Null, iam}
      /\ UNCHANGED <<iam, used, made, visible, archive, env, import, data, legacy, lost, mishaps>>
  BY DEF Known, zitadel, world
<1>2. cmd.pc \in Running /\ cmd \in Commands /\ iam # Null /\ iam \in used /\ iam \in Instances
  BY <1>1, Typed DEF ProvisionerInv, CommandOK, Running
<1>3. env.there = "yes"
  BY <1>2, RunningOK
<1>4. PICK s : s = IF Loaded = NoState THEN [NoState EXCEPT !.instance = iam] ELSE Loaded
  OBVIOUS
<1>5. /\ cmd' = [cmd EXCEPT !.pc = "project", !.instance = iam, !.state = s]
      /\ file' = IF Loaded = NoState THEN s ELSE file
  BY <1>4 DEF Known
<1>6. /\ s \in State /\ Sound(s) /\ s.instance \in {Null, iam}
      /\ s.instance = Null => s.project # Null
  <2>1. CASE Loaded = NoState
    BY <1>2, <1>4, <2>1, LoadedOK, FreshOK
  <2>2. CASE Loaded # NoState
    BY <1>1, <1>2, <1>4, <2>2, LoadedOK
  <2> QED
    BY <2>1, <2>2
<1>7. cmd' \in Commands /\ cmd'.pc = "project" /\ cmd'.instance = iam /\ cmd'.state = s
  BY <1>2, <1>5, <1>6 DEF Commands, Pcs, Running, Registering
<1>8. cmd'.pc \in Running /\ cmd'.pc \in Registering /\ cmd'.pc \notin Importing
  BY <1>7 DEF Running, Registering, Importing
<1>9. file' = s \/ (file' = NoState /\ s = [NoState EXCEPT !.project = env.project])
  BY <1>2, <1>4, <1>5, LoadedOK
<1>10. CommandOK'
  <2>1. Sound(cmd.state)'
    BY <1>1, <1>6, <1>7 DEF Sound, Real
  <2>2. \A r \in Resources : ~ Creating(r)'
    BY <1>7 DEF Creating
  <2> QED
    BY <1>1, <1>2, <1>6, <1>7, <1>8, <1>9, <2>1, <2>2, Registers
<1>11. CASE Loaded = NoState
  <2>1. file = NoState /\ file' = s
    BY <1>2, <1>5, <1>11, LoadedOK
  <2>2. /\ \A i \in Instances : \A r \in Resources : Knows(file, i, r) => Knows(s, i, r)
        /\ file.project = Null
    BY <2>1, NoStateFacts
  <2> QED
    BY <1>1, <1>2, <1>6, <1>7, <1>8, <1>10, <2>1, <2>2, FileStep
<1>12. CASE Loaded # NoState
  <2>1. file' = file
    BY <1>5, <1>12
  <2> QED
    BY <1>1, <1>3, <1>7, <1>8, <1>10, <2>1, CommandStep
<1> QED
  BY <1>11, <1>12

(***************************************************************************)
(* ensure, for the project and the application.                            *)
(***************************************************************************)

LEMMA WorkingOK ==
    ASSUME ProvisionerInv, cmd.pc \in Registering
    PROVE  /\ iam # Null /\ iam \in used /\ iam \in Instances /\ cmd.instance = iam
           /\ cmd \in Commands /\ cmd.state \in State /\ Sound(cmd.state)
           /\ cmd.pc \in Running /\ env.there = "yes"
           /\ cmd.state.instance \in {Null, iam}
           /\ cmd.state.instance = Null => cmd.pc \in {"project", "verify"} /\ cmd.state.project # Null
           /\ \/ file = cmd.state
              \/ file = NoState /\ cmd.state = [NoState EXCEPT !.project = env.project]
                                /\ cmd.state.instance = Null /\ cmd.state.app = Null
           /\ cmd.pc \in {"project", "create project", "record project"} \/ cmd.state.project # Null
           /\ cmd.pc \in {"publish", "infra"} => cmd.state.app # Null
           /\ cmd.pc = "infra" => env.project = cmd.state.project
           /\ <<iam, 1>> \in Ids /\ <<iam, 1>> # Null
<1>1. cmd.pc \in Running
  BY DEF Running
<1>2. env.there = "yes"
  BY <1>1, RunningOK
<1>3. iam # Null /\ cmd.instance = iam
  BY DEF ProvisionerInv, CommandOK
<1>4. iam \in used /\ iam \in Instances /\ cmd \in Commands /\ cmd.state \in State
      /\ env.project \in Ids \cup {Null}
  BY <1>3, Typed DEF ProvisionerInv
<1>5. <<iam, 1>> \in Ids /\ <<iam, 1>> # Null
  BY <1>4 DEF Ids, ConstantsAssumption
<1>6. LET s == [NoState EXCEPT !.project = env.project] IN s.instance = Null /\ s.app = Null
  BY <1>4 DEF NoState
<1>7. \/ file = cmd.state
      \/ file = NoState /\ cmd.state = [NoState EXCEPT !.project = env.project]
                        /\ cmd.state.instance = Null /\ cmd.state.app = Null
  BY <1>6 DEF ProvisionerInv, CommandOK
<1> QED
  BY <1>1, <1>2, <1>3, <1>4, <1>5, <1>7 DEF ProvisionerInv, CommandOK

\* The command goes on without writing, between two places where it registers.
LEMMA RegistersOn ==
    ASSUME ProvisionerInv, cmd.pc \in Registering, NEW p, GoTo(p),
           p \in {"verify", "app", "publish"},
           UNCHANGED <<iam, used, made, visible, file, archive, env, import, data, legacy, lost, mishaps>>,
           cmd.state.project # Null,
           p # "verify" => cmd.state.instance # Null,
           p = "publish" => cmd.state.app # Null
    PROVE  ProvisionerInv'
<1>1. p \in Registering /\ p \in Pcs /\ p \in Running /\ p \notin Importing /\ p # "guard" /\ p # "infra"
      /\ p \notin {"create project", "record project", "create app", "record app"}
  BY DEF Registering, Pcs, Running, Importing
<1>2. cmd' \in Commands /\ cmd'.pc = p /\ cmd'.instance = cmd.instance /\ cmd'.state = cmd.state
  BY <1>1, WorkingOK, GoToOK
<1>3. CommandOK'
  <2>1. Sound(cmd.state)'
    BY <1>2, WorkingOK DEF Sound, Real
  <2>2. \A r \in Resources : ~ Creating(r)'
    BY <1>1, <1>2 DEF Creating
  <2>3. /\ cmd'.state.instance \in {Null, iam'}
        /\ cmd'.state.instance = Null => cmd'.pc \in {"project", "verify"} /\ cmd'.state.project # Null
        /\ \/ file' = cmd'.state
           \/ file' = NoState /\ cmd'.state = [NoState EXCEPT !.project = env'.project]
    BY <1>2, WorkingOK
  <2> QED
    BY <1>1, <1>2, <2>1, <2>2, <2>3, WorkingOK, Registers
<1>4. env.there = "yes"
  BY WorkingOK
<1> QED
  BY <1>1, <1>2, <1>3, <1>4, CommandStep

LEMMA EnsureSavedOK ==
    ASSUME ProvisionerInv, NEW r \in Resources, EnsureSaved(r)
    PROVE  ProvisionerInv'
<1>1. /\ cmd.pc = r /\ cmd.state[r] # Null /\ GoTo(After(r))
      /\ UNCHANGED <<iam, used, made, visible, file, archive, env, import, data, legacy, lost, mishaps>>
  BY DEF EnsureSaved, zitadel, disk, world
<1>2. cmd.pc \in Registering
  BY <1>1 DEF Registering
<1>3. cmd.state[r] = IF r = "project" THEN cmd.state.project ELSE cmd.state.app
  BY <1>2, WorkingOK, ResourceOf
<1>4. cmd.state.project # Null
  BY <1>1, <1>2, <1>3, WorkingOK
<1>5. CASE r = "project"
  <2>1. GoTo("verify")
    BY <1>1, <1>5 DEF After
  <2> QED
    BY <1>1, <1>2, <1>4, <2>1, RegistersOn
<1>6. CASE r = "app"
  <2>1. GoTo("publish")
    BY <1>1, <1>6 DEF After
  <2>2. cmd.state.instance # Null /\ cmd.state.app # Null
    BY <1>1, <1>2, <1>3, <1>6, WorkingOK
  <2> QED
    BY <1>1, <1>2, <1>4, <2>1, <2>2, RegistersOn
<1> QED
  BY <1>5, <1>6

\* The only resource of its kind is recorded.
LEMMA RecordStep ==
    ASSUME ProvisionerInv, cmd.pc \in Registering, NEW r \in Resources,
           cmd.state.instance # Null, cmd.state[r] = Null, cmd.state.pending \in {Null, r},
           r = "app" => cmd.state.project # Null,
           made[iam][r] = 1, Save(After(r), Recorded(cmd.state, r, <<iam, 1>>)),
           UNCHANGED <<iam, used, made, visible, archive, env, import, data, legacy, lost, mishaps>>
    PROVE  ProvisionerInv'
<1>1. /\ iam # Null /\ iam \in used /\ iam \in Instances /\ cmd.instance = iam
      /\ cmd \in Commands /\ cmd.state \in State /\ Sound(cmd.state)
      /\ cmd.pc \in Running /\ cmd.state.instance = iam /\ file = cmd.state
      /\ <<iam, 1>> \in Ids /\ <<iam, 1>> # Null
  BY WorkingOK
<1>2. PICK s : s = Recorded(cmd.state, r, <<iam, 1>>)
  OBVIOUS
<1>3. /\ s \in State /\ s[r] = <<iam, 1>> /\ s.pending = Null /\ s.instance = iam
      /\ \A q \in Resources : q # r => s[q] = file[q]
  BY <1>1, <1>2, RecordedFacts
<1>4. s.project = s["project"] /\ s.app = s["app"] /\ file.project = file["project"] /\ file.app = file["app"]
  BY <1>1, <1>3 DEF State
<1>5. Sound(s)
  <2>1. \A q \in Resources : s[q] # Null => Real(s[q], q) /\ s[q][1] = iam
    <3>1. Real(<<iam, 1>>, r)
      BY <1>1 DEF Real
    <3>2. \A q \in Resources : file[q] # Null => Real(file[q], q) /\ file[q][1] = iam
      BY <1>1 DEF Sound
    <3> QED
      BY <1>3, <3>1, <3>2
  <2>2. s.project # Null
    BY <1>1, <1>3, <1>4
  <2>3. data # Null => iam = data
    BY <1>1 DEF Sound
  <2> QED
    BY <1>1, <1>3, <1>4, <2>1, <2>2, <2>3 DEF Sound
<1>6. After(r) \in Pcs /\ After(r) \in Running /\ After(r) \in Registering
      /\ After(r) \in {"verify", "publish"} /\ (After(r) = "publish" => r = "app")
  BY DEF After, Pcs, Running, Registering
<1>7. cmd' \in Commands /\ cmd'.pc = After(r) /\ cmd'.instance = iam /\ cmd'.state = s /\ file' = s
  BY <1>1, <1>2, <1>3, <1>6, SaveOK
<1>8. CommandOK'
  <2>1. Sound(cmd.state)'
    BY <1>5, <1>7 DEF Sound, Real
  <2>2. \A q \in Resources : ~ Creating(q)'
    BY <1>6, <1>7 DEF Creating
  <2>3. s.project # Null /\ (After(r) = "publish" => s.app # Null)
    BY <1>1, <1>3, <1>4, <1>6
  <2>4. cmd'.pc \notin {"infra", "record project", "record app"}
    BY <1>6, <1>7
  <2> QED
    BY <1>1, <1>3, <1>6, <1>7, <2>1, <2>2, <2>3, <2>4, Registers
<1>9. /\ \A i \in Instances : \A q \in Resources : Knows(file, i, q) => Knows(s, i, q)
      /\ file.project = Null \/ s.project = file.project
  <2>1. ASSUME NEW i \in Instances, NEW q \in Resources, Knows(file, i, q) PROVE Knows(s, i, q)
    <3>1. <<i, 1>> # Null
      BY DEF Ids, ConstantsAssumption
    <3>2. CASE q = r
      BY <1>1, <1>3, <2>1, <3>1, <3>2 DEF Knows
    <3>3. CASE q # r
      BY <1>1, <1>3, <2>1, <3>3 DEF Knows, ConstantsAssumption
    <3> QED
      BY <3>2, <3>3
  <2> QED
    BY <1>1, <1>3, <1>4, <2>1
<1> QED
  BY <1>1, <1>3, <1>5, <1>6, <1>7, <1>8, <1>9, FileStep

\* A resource that is not recorded yet: the state names its instance, and only
\* this resource may be pending.
LEMMA UnrecordedOK ==
    ASSUME ProvisionerInv, NEW r \in Resources, cmd.pc = r, cmd.state[r] = Null
    PROVE  /\ cmd.pc \in Registering /\ cmd.state.instance # Null /\ file = cmd.state
           /\ cmd.state.pending \in {Null, r}
           /\ r = "app" => cmd.state.project # Null
<1>1. cmd.pc \in Registering
  BY DEF Registering
<1>2. cmd.state[r] = IF r = "project" THEN cmd.state.project ELSE cmd.state.app
  BY <1>1, WorkingOK, ResourceOf
<1>3. cmd.state.instance # Null /\ (r = "app" => cmd.state.project # Null)
  BY <1>1, <1>2, WorkingOK
<1>4. file = cmd.state
  BY <1>1, <1>3, WorkingOK
<1>5. cmd.state.pending \in Resources \cup {Null} /\ cmd.state["project"] = cmd.state.project
  BY <1>1, WorkingOK, ResourceOf
<1>6. cmd.state.pending # Null => cmd.state[cmd.state.pending] = Null
  BY <1>1, WorkingOK DEF Sound
<1>7. cmd.state.pending = "app" => cmd.state.project # Null
  BY <1>1, WorkingOK DEF Sound
<1>8. cmd.state.pending \in {Null, r}
  BY <1>2, <1>3, <1>5, <1>6, <1>7
<1> QED
  BY <1>1, <1>3, <1>4, <1>8

LEMMA CountsOK ==
    ASSUME ProvisionerInv, NEW i \in Instances, NEW r \in Resources
    PROVE  made[i][r] \in {0, 1} /\ visible[i][r] \in {0, 1} /\ visible[i][r] <= made[i][r]
<1>1. made[i][r] \in Nat /\ visible[i][r] \in Nat
  BY Typed DEF ProvisionerInv
<1>2. visible[i][r] <= made[i][r] /\ made[i][r] <= 1
  BY DEF ProvisionerInv, InstancesOK
<1> QED
  BY <1>1, <1>2

LEMMA EnsureFoundOK ==
    ASSUME ProvisionerInv, NEW r \in Resources, EnsureFound(r)
    PROVE  ProvisionerInv'
<1>1. /\ cmd.pc = r /\ cmd.state[r] = Null /\ visible[iam][r] = 1
      /\ Save(After(r), Recorded(cmd.state, r, <<iam, 1>>))
      /\ UNCHANGED <<iam, used, made, visible, archive, env, import, data, legacy, lost, mishaps>>
  BY DEF EnsureFound, zitadel, world
<1>2. /\ cmd.pc \in Registering /\ cmd.state.instance # Null
      /\ cmd.state.pending \in {Null, r}
      /\ r = "app" => cmd.state.project # Null
  BY <1>1, UnrecordedOK
<1>3. made[iam][r] = 1
  <2>1. iam \in Instances
    BY <1>2, WorkingOK
  <2>2. made[iam][r] \in {0, 1} /\ visible[iam][r] <= made[iam][r]
    BY <2>1, CountsOK
  <2> QED
    BY <1>1, <2>2
<1> QED
  BY <1>1, <1>2, <1>3, RecordStep

\* A creation that was marked: the file knows of it.
LEMMA CreatingOK ==
    ASSUME ProvisionerInv, NEW r \in Resources,
           \/ Creating(r)
           \/ cmd.pc = IF r = "project" THEN "record project" ELSE "record app"
    PROVE  /\ cmd.pc \in Registering /\ cmd.state.instance # Null /\ file = cmd.state
           /\ cmd.state.pending = r /\ cmd.state[r] = Null
           /\ r = "app" => cmd.state.project # Null
<1>1. cmd.pc \in Registering /\ cmd.pc \notin {"project", "verify"}
      /\ (r = "app" => cmd.pc \notin {"project", "create project", "record project"})
  BY DEF Registering, Creating
<1>2. cmd.state.pending = r
  BY DEF ProvisionerInv, CommandOK
<1>3. cmd.state.instance # Null /\ (r = "app" => cmd.state.project # Null)
  BY <1>1, WorkingOK
<1>4. file = cmd.state
  BY <1>1, <1>3, WorkingOK
<1>5. cmd.state[r] = Null
  BY <1>1, <1>2, WorkingOK DEF Sound, ConstantsAssumption
<1> QED
  BY <1>1, <1>2, <1>3, <1>4, <1>5

LEMMA RecordOK ==
    ASSUME ProvisionerInv, NEW r \in Resources, Record(r)
    PROVE  ProvisionerInv'
<1>1. /\ cmd.pc = IF r = "project" THEN "record project" ELSE "record app"
      /\ Save(After(r), Recorded(cmd.state, r, <<iam, made[iam][r]>>))
      /\ UNCHANGED <<iam, used, made, visible, archive, env, import, data, legacy, lost, mishaps>>
  BY DEF Record, zitadel, world
<1>2. /\ cmd.pc \in Registering /\ cmd.state.instance # Null
      /\ cmd.state.pending = r /\ cmd.state[r] = Null
      /\ r = "app" => cmd.state.project # Null
  BY <1>1, CreatingOK
<1>3. made[iam][r] = 1
  BY <1>1 DEF ProvisionerInv, CommandOK
<1> QED
  BY <1>1, <1>2, <1>3, RecordStep

LEMMA EnsurePendingOK ==
    ASSUME ProvisionerInv, NEW r \in Resources, EnsurePending(r)
    PROVE  ProvisionerInv'
<1>1. /\ cmd.pc = r /\ cmd.state[r] = Null /\ visible[iam][r] = 0 /\ cmd.state.pending = Null
      /\ UNCHANGED <<iam, used, made, visible, archive, env, import, data, legacy, lost, mishaps>>
  BY DEF EnsurePending, MayCreate, zitadel, world
<1>2. /\ cmd.pc \in Registering /\ cmd.state.instance # Null /\ file = cmd.state
      /\ r = "app" => cmd.state.project # Null
  BY <1>1, UnrecordedOK
<1>3. /\ iam # Null /\ iam \in used /\ iam \in Instances /\ cmd.instance = iam
      /\ cmd \in Commands /\ cmd.state \in State /\ Sound(cmd.state)
      /\ cmd.pc \in Running /\ cmd.state.instance = iam /\ <<iam, 1>> # Null
  BY <1>2, WorkingOK
<1>4. PICK p : p = IF r = "project" THEN "create project" ELSE "create app"
  OBVIOUS
<1>5. PICK s : s = [cmd.state EXCEPT !.pending = r]
  OBVIOUS
<1>6. /\ s \in State /\ s.pending = r /\ s.instance = iam
      /\ \A q \in Resources : s[q] = file[q]
  BY <1>2, <1>3, <1>5, MarkedFacts
<1>7. s.project = s["project"] /\ s.app = s["app"] /\ file.project = file["project"] /\ file.app = file["app"]
  BY <1>2, <1>3, <1>6 DEF State
<1>8. p \in Pcs /\ p \in Running /\ p \in Registering
  BY <1>4 DEF Pcs, Running, Registering
<1>9. cmd' \in Commands /\ cmd'.pc = p /\ cmd'.instance = iam /\ cmd'.state = s /\ file' = s
  <2>1. cmd' = [cmd EXCEPT !.pc = p, !.state = [@ EXCEPT !.pending = r]] /\ file' = s
    BY <1>4, <1>5 DEF EnsurePending, Marked
  <2>2. cmd' = [cmd EXCEPT !.pc = p, !.state = s]
    BY <1>3, <1>5, <2>1 DEF Commands
  <2> QED
    BY <1>3, <1>6, <1>8, <2>1, <2>2 DEF Commands
<1>10. Sound(s)
  BY <1>1, <1>2, <1>3, <1>6, <1>7 DEF Sound
<1>11. made[iam][r] = 0
  <2>1. ~ Knows(file, iam, r)
    BY <1>1, <1>2, <1>3 DEF Knows, ConstantsAssumption
  <2> QED
    BY <1>1, <1>3, <2>1, CountsOK DEF ProvisionerInv, InstancesOK
<1>12. CommandOK'
  <2>1. Sound(cmd.state)'
    BY <1>1, <1>9, <1>10 DEF Sound, Real
  <2>2. \A q \in Resources : Creating(q)' => q = r
    BY <1>4, <1>9 DEF Creating
  <2>3. p \notin {"verify", "app", "publish", "infra", "record project", "record app"}
        /\ (p # "create project" => s.project # Null)
    BY <1>2, <1>4, <1>6, <1>7
  <2> QED
    BY <1>1, <1>3, <1>4, <1>6, <1>8, <1>9, <1>11, <2>1, <2>2, <2>3, Registers
<1>13. /\ \A i \in Instances : \A q \in Resources : Knows(file, i, q) => Knows(s, i, q)
       /\ s.project = file.project
  BY <1>1, <1>2, <1>6, <1>7 DEF Knows, ConstantsAssumption
<1> QED
  BY <1>1, <1>3, <1>6, <1>8, <1>9, <1>10, <1>12, <1>13, FileStep

\* The counts of one resource at one instance go up by one.
LEMMA CreatedFacts ==
    ASSUME NEW m \in [Instances -> [Resources -> 0 .. MaxCreated]],
           NEW i \in Instances, NEW r \in Resources, m[i][r] < MaxCreated
    PROVE  LET n == [m EXCEPT ![i] = [@ EXCEPT ![r] = m[i][r] + 1]] IN
           /\ n \in [Instances -> [Resources -> 0 .. MaxCreated]]
           /\ \A j \in Instances : \A q \in Resources :
                n[j][q] = IF j = i /\ q = r THEN m[j][q] + 1 ELSE m[j][q]
<1>1. m[i][r] + 1 \in 0 .. MaxCreated
  BY DEF ConstantsAssumption
<1>2. [m[i] EXCEPT ![r] = m[i][r] + 1] \in [Resources -> 0 .. MaxCreated]
  BY <1>1
<1> QED
  BY <1>2

LEMMA CreateOK ==
    ASSUME ProvisionerInv, NEW r \in Resources, CreateResource(r)
    PROVE  ProvisionerInv'
<1>1. /\ Creating(r) /\ made[iam][r] < MaxCreated
      /\ made' = [made EXCEPT ![iam] = [@ EXCEPT ![r] = made[iam][r] + 1]]
      /\ UNCHANGED <<iam, used, visible, file, archive, env, import, data, legacy, lost, mishaps>>
  BY DEF CreateResource, disk, world
<1>2. /\ cmd.pc \in Registering /\ cmd.state.instance # Null /\ file = cmd.state
      /\ cmd.state.pending = r /\ cmd.state[r] = Null
      /\ r = "app" => cmd.state.project # Null
  BY <1>1, CreatingOK
<1>3. /\ iam # Null /\ iam \in used /\ iam \in Instances /\ cmd.instance = iam
      /\ cmd \in Commands /\ cmd.state \in State /\ Sound(cmd.state)
      /\ cmd.pc \in Running /\ cmd.state.instance = iam /\ env.there = "yes"
  BY <1>2, WorkingOK
<1>4. made[iam][r] = 0
  BY <1>1 DEF ProvisionerInv, CommandOK
<1>5. /\ made' \in [Instances -> [Resources -> 0 .. MaxCreated]]
      /\ \A j \in Instances : \A q \in Resources :
           made'[j][q] = IF j = iam /\ q = r THEN 1 ELSE made[j][q]
  <2>1. made \in [Instances -> [Resources -> 0 .. MaxCreated]]
    BY DEF ProvisionerInv, ProvisionerTypeOK
  <2>2. PICK m \in [Instances -> [Resources -> 0 .. MaxCreated]] : m = made
    BY <2>1
  <2>3. PICK i \in Instances : i = iam
    BY <1>3
  <2>4. PICK n : n = [m EXCEPT ![i] = [@ EXCEPT ![r] = m[i][r] + 1]]
    OBVIOUS
  <2>5. /\ n \in [Instances -> [Resources -> 0 .. MaxCreated]]
        /\ \A j \in Instances : \A q \in Resources :
             n[j][q] = IF j = i /\ q = r THEN m[j][q] + 1 ELSE m[j][q]
    BY <1>1, <2>2, <2>3, <2>4, CreatedFacts
  <2>6. made' = n
    BY <1>1, <2>2, <2>3, <2>4
  <2> QED
    BY <1>4, <2>2, <2>3, <2>5, <2>6
<1>6. PICK p : p = IF r = "project" THEN "record project" ELSE "record app"
  OBVIOUS
<1>7. p \in Pcs /\ p \in Registering /\ p \notin {"idle", "import", "guard"} \cup Importing
  BY <1>6 DEF Pcs, Running, Registering, Importing
<1>8. cmd' \in Commands /\ cmd'.pc = p /\ cmd'.instance = iam /\ cmd'.state = cmd.state
  BY <1>3, <1>6, <1>7, GoToOK DEF CreateResource
<1>9. \A i \in Instances : \A q \in Resources : made[i][q] = 1 => made'[i][q] = 1
  BY <1>4, <1>5
<1>10. \A id \in Ids : \A q \in Resources :
         Real(id, q) => id[1] \in used' /\ id[2] = 1 /\ made'[id[1]][q] >= 1
  <2> SUFFICES ASSUME NEW id \in Ids, NEW q \in Resources, Real(id, q)
               PROVE  id[1] \in used' /\ id[2] = 1 /\ made'[id[1]][q] >= 1
    OBVIOUS
  <2>1. id[1] \in Instances
    BY DEF Ids
  <2>2. made[id[1]][q] \in {0, 1}
    BY <2>1, CountsOK
  <2>3. made[id[1]][q] = 1
    BY <2>2 DEF Real
  <2>4. made'[id[1]][q] = 1
    BY <1>9, <2>1, <2>3
  <2> QED
    BY <1>1, <2>4 DEF Real
<1>11. Sound(file)'
  <2>1. \A q \in Resources : file[q] # Null => file[q] \in Ids
    BY <1>2, <1>3, ResourceOf
  <2>2. \A q \in Resources : file[q] # Null => Real(file[q], q)
    BY <1>2, <1>3 DEF Sound
  <2>3. \A q \in Resources : file'[q] # Null =>
          file'[q][1] \in used' /\ file'[q][2] = 1 /\ made'[file'[q][1]][q] >= 1
    BY <1>1, <1>10, <2>1, <2>2
  <2> QED
    BY <1>1, <1>2, <1>3, <2>3 DEF Sound, Real
<1>12. ProvisionerTypeOK'
  BY <1>1, <1>5, <1>8 DEF ProvisionerInv, ProvisionerTypeOK, Commands, Pcs, Importing, Running, Registering
<1>13. InstancesOK'
  <2>1. ASSUME NEW i \in Instances, NEW q \in Resources
        PROVE  visible[i][q] <= made'[i][q] /\ made'[i][q] <= 1 /\ (i \notin used => made'[i][q] = 0)
    <3>1. made[i][q] \in {0, 1} /\ visible[i][q] \in {0, 1} /\ visible[i][q] <= made[i][q]
      BY CountsOK
    <3>2. i \notin used => made[i][q] = 0
      BY DEF ProvisionerInv, InstancesOK
    <3> QED
      BY <1>3, <1>5, <3>1, <3>2
  <2>2. ASSUME NEW q \in Resources, visible[iam][q] < made'[iam][q] PROVE Knows(file, iam, q)
    <3>1. CASE q = r
      BY <1>2, <1>3, <3>1 DEF Knows
    <3>2. CASE q # r
      <4>1. visible[iam][q] < made[iam][q]
        BY <1>3, <1>5, <2>2, <3>2
      <4> QED
        BY <1>3, <4>1 DEF ProvisionerInv, InstancesOK
    <3> QED
      BY <3>1, <3>2
  <2> QED
    BY <1>1, <2>1, <2>2 DEF InstancesOK, Knows
<1>14. EnvOK'
  <2>1. env.project # Null => env.project \in Ids /\ Real(env.project, "project")
    BY Typed DEF ProvisionerInv, EnvOK
  <2>2. env'.project # Null =>
          env'.project[1] \in used' /\ env'.project[2] = 1 /\ made'[env'.project[1]]["project"] >= 1
    BY <1>1, <1>10, <2>1
  <2> QED
    BY <1>1, <2>2 DEF ProvisionerInv, EnvOK, Real
<1>15. ImportOK'
  <2>1. cmd'.pc \notin Importing /\ env'.there = "yes"
    BY <1>1, <1>3, <1>7, <1>8
  <2>2. legacy = NoProfile \/ \E i \in used : legacy = OldProfile(i) /\ \A q \in Resources : made'[i][q] = 1
    <3>1. legacy = NoProfile \/ \E i \in used : legacy = OldProfile(i) /\ \A q \in Resources : made[i][q] = 1
      BY DEF ProvisionerInv, ImportOK
    <3>2. used \subseteq Instances
      BY Typed DEF ProvisionerInv
    <3> QED
      BY <1>9, <3>1, <3>2
  <2> QED
    BY <1>1, <2>1, <2>2 DEF ProvisionerInv, ImportOK
<1>16. CommandOK'
  <2>1. Sound(cmd.state)'
    BY <1>1, <1>2, <1>8, <1>11 DEF Sound
  <2>2. \A q \in Resources : ~ Creating(q)'
    BY <1>6, <1>8 DEF Creating
  <2>3. p \notin {"verify", "app", "publish", "infra"} /\ (p # "record project" => cmd.state.project # Null)
    BY <1>2, <1>6
  <2>4. \A q \in Resources :
          p = (IF q = "project" THEN "record project" ELSE "record app") => q = r
    <3>1. r = "project" => p = "record project"
      BY <1>6
    <3>2. r = "app" => p = "record app"
      BY <1>6
    <3> QED
      BY <3>1, <3>2
  <2>5. made'[iam][r] = 1
    BY <1>3, <1>5
  <2> QED
    BY <1>1, <1>2, <1>3, <1>7, <1>8, <2>1, <2>2, <2>3, <2>4, <2>5, Registers
<1>17. NothingForgotten'
  <2> SUFFICES ASSUME NEW i \in (Instances \ lost)', NEW q \in Resources, (made[i][q] > 0)'
               PROVE  (\E t \in Kept : Knows(t, i, q))'
    BY DEF NothingForgotten
  <2>1. CASE i = iam /\ q = r
    <3>1. Knows(file, i, q)'
      BY <1>1, <1>2, <1>3, <2>1 DEF Knows
    <3> QED
      BY <3>1 DEF Kept
  <2>2. CASE ~ (i = iam /\ q = r)
    <3>1. made[i][q] > 0
      BY <1>5, <2>2
    <3>2. PICK t \in Kept : Knows(t, i, q)
      BY <1>1, <3>1 DEF ProvisionerInv, NothingForgotten
    <3>3. t \in Kept'
      BY <1>1, <3>2 DEF Kept
    <3> QED
      BY <3>2, <3>3 DEF Knows
  <2> QED
    BY <2>1, <2>2
<1>18. ConfiguredHasState'
  BY <1>1 DEF ProvisionerInv, ConfiguredHasState
<1> QED
  BY <1>11, <1>12, <1>13, <1>14, <1>15, <1>16, <1>17, <1>18 DEF ProvisionerInv

(***************************************************************************)
(* The end of a command.                                                   *)
(***************************************************************************)

LEMMA VerifyProjectOK == ProvisionerInv /\ VerifyProject => ProvisionerInv'
<1> SUFFICES ASSUME ProvisionerInv, VerifyProject PROVE ProvisionerInv'
  OBVIOUS
<1>1. /\ cmd.pc = "verify" /\ Exists(cmd.state.project, "project")
      /\ UNCHANGED <<iam, used, made, visible, archive, env, import, data, legacy, lost, mishaps>>
  BY DEF VerifyProject, zitadel, world
<1>2. cmd.pc \in Registering
  BY <1>1 DEF Registering
<1>3. /\ iam # Null /\ iam \in used /\ iam \in Instances /\ cmd.instance = iam
      /\ cmd \in Commands /\ cmd.state \in State /\ Sound(cmd.state) /\ cmd.pc \in Running
      /\ cmd.state.project # Null
  BY <1>1, <1>2, WorkingOK
<1>4. CASE cmd.state.instance # Null
  <2>1. GoTo("app") /\ UNCHANGED file
    BY <1>4 DEF VerifyProject
  <2> QED
    BY <1>1, <1>2, <1>3, <1>4, <2>1, RegistersOn
<1>5. CASE cmd.state.instance = Null
  <2>1. PICK s : s = [cmd.state EXCEPT !.instance = iam]
    OBVIOUS
  <2>2. Save("app", s)
    BY <1>3, <1>5, <2>1 DEF VerifyProject
  <2>3. /\ s \in State /\ s.instance = iam /\ s.pending = cmd.state.pending
        /\ s.project = cmd.state.project /\ s.app = cmd.state.app
        /\ \A q \in Resources : s[q] = cmd.state[q]
    BY <1>3, <2>1 DEF State
  <2>4. cmd.state.pending = Null /\ (cmd.state.app # Null => cmd.state.app[1] = cmd.state.project[1])
        /\ cmd.state.project[1] = iam
    BY <1>1, <1>3, <1>5 DEF Sound, Exists
  <2>5. \A q \in Resources : s[q] = IF q = "project" THEN s.project ELSE s.app
    BY <2>3, ResourceOf
  <2>6. Sound(s)
    <3>1. \A q \in Resources : s[q] # Null => Real(s[q], q) /\ s[q][1] = iam
      BY <1>3, <2>3, <2>4, <2>5 DEF Sound
    <3>2. data # Null => iam = data
      BY <1>3, <2>4 DEF Sound
    <3> QED
      BY <1>3, <2>3, <2>4, <3>1, <3>2 DEF Sound
  <2>7. "app" \in Pcs /\ "app" \in Running /\ "app" \in Registering
    BY DEF Pcs, Running, Registering
  <2>8. cmd' \in Commands /\ cmd'.pc = "app" /\ cmd'.instance = iam /\ cmd'.state = s /\ file' = s
    BY <1>3, <2>2, <2>3, <2>7, SaveOK
  <2>9. CommandOK'
    <3>1. Sound(cmd.state)'
      BY <1>1, <2>6, <2>8 DEF Sound, Real
    <3>2. \A q \in Resources : ~ Creating(q)'
      BY <2>8 DEF Creating
    <3> QED
      BY <1>1, <1>3, <2>3, <2>7, <2>8, <3>1, <3>2, Registers
  <2>10. /\ \A i \in Instances : \A q \in Resources : Knows(file, i, q) => Knows(s, i, q)
         /\ file.project = Null \/ s.project = file.project
    <3>1. CASE file = cmd.state
      BY <1>5, <2>3, <2>4, <3>1 DEF Knows, ConstantsAssumption
    <3>2. CASE file = NoState
      BY <3>2, NoStateFacts
    <3> QED
      BY <1>2, <3>1, <3>2, WorkingOK
  <2> QED
    BY <1>1, <1>3, <2>3, <2>6, <2>7, <2>8, <2>9, <2>10, FileStep
<1> QED
  BY <1>4, <1>5

LEMMA PublishOK == ProvisionerInv /\ Publish => ProvisionerInv'
<1> SUFFICES ASSUME ProvisionerInv, Publish PROVE ProvisionerInv'
  OBVIOUS
<1>1. /\ cmd.pc = "publish" /\ GoTo("infra")
      /\ env' = [there |-> "yes", project |-> cmd.state.project, client |-> cmd.state.app]
      /\ UNCHANGED <<iam, used, made, visible, file, archive, import, data, legacy, lost, mishaps>>
  BY DEF Publish, zitadel, world
<1>2. cmd.pc \in Registering
  BY <1>1 DEF Registering
<1>3. /\ iam # Null /\ cmd.instance = iam /\ cmd \in Commands /\ cmd.state \in State /\ Sound(cmd.state)
      /\ cmd.state.instance = iam /\ file = cmd.state
      /\ cmd.state.project # Null /\ cmd.state.app # Null
  BY <1>1, <1>2, WorkingOK
<1>4. env' \in Env /\ env'.there = "yes" /\ env'.project = cmd.state.project
  BY <1>1, <1>3, ResourceOf DEF Env
<1>5. "infra" \in Pcs /\ "infra" \in Registering /\ "infra" \notin Importing
  BY DEF Pcs, Running, Registering, Importing
<1>6. cmd' \in Commands /\ cmd'.pc = "infra" /\ cmd'.instance = iam /\ cmd'.state = cmd.state
  BY <1>1, <1>3, <1>5, GoToOK
<1>7. ProvisionerTypeOK'
  BY <1>1, <1>4, <1>6 DEF ProvisionerInv, ProvisionerTypeOK, Commands, Pcs, Importing, Running, Registering
<1>8. Sound(file)' /\ InstancesOK'
  BY <1>1 DEF ProvisionerInv, Sound, Real, InstancesOK, Knows
<1>9. EnvOK'
  <2>1. cmd.state["project"] = cmd.state.project
    BY <1>3, ResourceOf
  <2>2. Real(env'.project, "project") /\ (data # Null => env'.project[1] = data)
    BY <1>3, <1>4, <2>1 DEF Sound
  <2> QED
    BY <1>1, <1>3, <1>4, <2>2 DEF EnvOK, Real
<1>10. ImportOK'
  BY <1>1, <1>4, <1>5, <1>6 DEF ProvisionerInv, ImportOK
<1>11. CommandOK'
  <2>1. Sound(cmd.state)'
    BY <1>1, <1>3, <1>6 DEF Sound, Real
  <2>2. \A r \in Resources : ~ Creating(r)'
    BY <1>6 DEF Creating
  <2> QED
    BY <1>1, <1>3, <1>4, <1>5, <1>6, <2>1, <2>2, Registers
<1>12. NothingForgotten'
  <2>1. Kept \subseteq Kept'
    BY <1>1 DEF Kept
  <2> QED
    BY <1>1, <2>1, StillKept DEF ProvisionerInv
<1>13. ConfiguredHasState'
  BY <1>1, <1>3, <1>4 DEF ConfiguredHasState
<1> QED
  BY <1>7, <1>8, <1>9, <1>10, <1>11, <1>12, <1>13 DEF ProvisionerInv

LEMMA StartInfraOK == ProvisionerInv /\ StartInfra => ProvisionerInv'
<1> SUFFICES ASSUME ProvisionerInv, StartInfra PROVE ProvisionerInv'
  OBVIOUS
<1>1. /\ cmd.pc = "infra" /\ cmd' = NoCommand
      /\ data' = IF data = Null THEN iam ELSE data
      /\ UNCHANGED <<iam, used, made, visible, file, archive, env, import, legacy, lost, mishaps>>
  BY DEF StartInfra, zitadel, disk
<1>2. cmd.pc \in Registering
  BY <1>1 DEF Registering
<1>3. /\ iam # Null /\ iam \in used /\ cmd.state \in State /\ Sound(cmd.state)
      /\ cmd.state.instance = iam /\ file = cmd.state
      /\ cmd.state.project # Null /\ env.project = cmd.state.project /\ env.there = "yes"
  BY <1>1, <1>2, WorkingOK
<1>4. data' = iam
  BY <1>1, <1>3 DEF Sound
<1>5. cmd' \in Commands /\ cmd'.pc = "idle"
  BY <1>1, NoStateFacts DEF NoCommand, Commands, Pcs
<1>6. cmd.state.project[1] = iam
  <2>1. cmd.state["project"] = cmd.state.project
    BY <1>3, ResourceOf
  <2> QED
    BY <1>3, <2>1 DEF Sound
<1>7. ProvisionerTypeOK'
  BY <1>1, <1>3, <1>4, <1>5 DEF ProvisionerInv, ProvisionerTypeOK, Commands, Pcs, Importing, Running, Registering
<1>8. Sound(file)'
  BY <1>1, <1>3, <1>4, <1>6 DEF Sound, Real
<1>9. InstancesOK'
  BY <1>1 DEF ProvisionerInv, InstancesOK, Knows
<1>10. EnvOK'
  BY <1>1, <1>3, <1>4, <1>6 DEF ProvisionerInv, EnvOK, Real
<1>11. ImportOK'
  BY <1>1, <1>3, <1>5 DEF ProvisionerInv, ImportOK, Importing
<1>12. CommandOK'
  BY <1>5, OutsideCommand
<1>13. NothingForgotten' /\ ConfiguredHasState'
  <2>1. Kept \subseteq Kept'
    BY <1>1 DEF Kept
  <2> QED
    BY <1>1, <2>1, StillKept DEF ProvisionerInv, ConfiguredHasState
<1> QED
  BY <1>7, <1>8, <1>9, <1>10, <1>11, <1>12, <1>13 DEF ProvisionerInv

(***************************************************************************)
(* ZITADEL and the developer.                                              *)
(***************************************************************************)

\* A step that only changes the counter of mishaps, the database that is
\* mounted, and what searches find.
LEMMA ZitadelStep ==
    ASSUME ProvisionerInv, UNCHANGED <<used, made, file, archive, env, import, data, legacy, lost, cmd>>,
           iam' \in used \cup {Null}, mishaps' \in 0 .. MaxMishaps,
           iam' = iam \/ cmd.pc = "idle",
           visible' \in [Instances -> [Resources -> 0 .. MaxCreated]],
           \A i \in Instances : \A r \in Resources :
              visible'[i][r] <= made[i][r],
           \A r \in Resources :
              iam' # Null /\ visible'[iam'][r] < made[iam'][r] => Knows(file, iam', r)
    PROVE  ProvisionerInv'
<1>1. ProvisionerTypeOK'
  BY DEF ProvisionerInv, ProvisionerTypeOK
<1>2. Sound(file)' /\ EnvOK' /\ ImportOK'
  BY DEF ProvisionerInv, Sound, Real, EnvOK, ImportOK
<1>3. InstancesOK'
  BY DEF ProvisionerInv, InstancesOK, Knows
<1>4. CommandOK'
  <2>1. CASE cmd.pc = "idle"
    BY <2>1, OutsideCommand
  <2>2. CASE iam' = iam
    BY <2>2 DEF ProvisionerInv, CommandOK, Knows, Sound, Real, Creating
  <2> QED
    BY <2>1, <2>2
<1>5. NothingForgotten' /\ ConfiguredHasState'
  <2>1. Kept \subseteq Kept'
    BY DEF Kept
  <2> QED
    BY <2>1, StillKept DEF ProvisionerInv, ConfiguredHasState
<1> QED
  BY <1>1, <1>2, <1>3, <1>4, <1>5 DEF ProvisionerInv

LEMMA MishapOK ==
    ASSUME ProvisionerInv, Mishap
    PROVE  cmd.pc = "idle" /\ mishaps' \in 0 .. MaxMishaps
<1>1. mishaps \in 0 .. MaxMishaps
  BY DEF ProvisionerInv, ProvisionerTypeOK
<1>2. cmd.pc = "idle" /\ mishaps < MaxMishaps /\ mishaps' = mishaps + 1
  BY DEF Mishap
<1>3. MaxMishaps \in Nat
  BY DEF ConstantsAssumption
<1> QED
  BY <1>1, <1>2, <1>3

LEMMA SearchCatchesUpOK ==
    ASSUME ProvisionerInv, NEW r \in Resources, SearchCatchesUp(r)
    PROVE  ProvisionerInv'
<1>1. /\ iam # Null /\ visible[iam][r] < made[iam][r]
      /\ visible' = [visible EXCEPT ![iam] = [@ EXCEPT ![r] = visible[iam][r] + 1]]
      /\ UNCHANGED <<iam, used, made, file, archive, env, import, data, legacy, lost, cmd, mishaps>>
  BY DEF SearchCatchesUp, disk, world
<1>2. iam \in Instances
  BY <1>1, Typed DEF ProvisionerInv
<1>3. /\ visible \in [Instances -> [Resources -> 0 .. MaxCreated]]
      /\ made[iam][r] \in 0 .. MaxCreated /\ visible[iam][r] \in 0 .. MaxCreated
  <2>1. /\ made \in [Instances -> [Resources -> 0 .. MaxCreated]]
        /\ visible \in [Instances -> [Resources -> 0 .. MaxCreated]]
    BY DEF ProvisionerInv, ProvisionerTypeOK
  <2>2. \A f \in [Instances -> [Resources -> 0 .. MaxCreated]] :
          \A i \in Instances : \A q \in Resources : f[i][q] \in 0 .. MaxCreated
    OBVIOUS
  <2> QED
    BY <1>2, <2>1, <2>2
<1>4. /\ visible' \in [Instances -> [Resources -> 0 .. MaxCreated]]
      /\ \A j \in Instances : \A q \in Resources :
           visible'[j][q] = IF j = iam /\ q = r THEN visible[j][q] + 1 ELSE visible[j][q]
  <2>1. PICK m \in [Instances -> [Resources -> 0 .. MaxCreated]] : m = visible
    BY <1>3
  <2>2. PICK i \in Instances : i = iam
    BY <1>2
  <2>3. PICK n : n = [m EXCEPT ![i] = [@ EXCEPT ![r] = m[i][r] + 1]]
    OBVIOUS
  <2>4. m[i][r] < MaxCreated
    BY <1>1, <1>3, <2>1, <2>2 DEF ConstantsAssumption
  <2>5. /\ n \in [Instances -> [Resources -> 0 .. MaxCreated]]
        /\ \A j \in Instances : \A q \in Resources :
             n[j][q] = IF j = i /\ q = r THEN m[j][q] + 1 ELSE m[j][q]
    BY <2>3, <2>4, CreatedFacts
  <2>6. visible' = n
    BY <1>1, <2>1, <2>2, <2>3
  <2> QED
    BY <2>1, <2>2, <2>5, <2>6
<1>5. ASSUME NEW i \in Instances, NEW q \in Resources
      PROVE  /\ visible'[i][q] <= made[i][q]
             /\ visible'[i][q] < made[i][q] => visible[i][q] < made[i][q]
  <2>1. made[i][q] \in {0, 1} /\ visible[i][q] \in {0, 1} /\ visible[i][q] <= made[i][q]
    BY CountsOK
  <2> QED
    BY <1>1, <1>4, <2>1
<1>6. ASSUME NEW q \in Resources, iam' # Null, visible'[iam'][q] < made[iam'][q]
      PROVE  Knows(file, iam', q)
  <2>1. visible[iam][q] < made[iam][q]
    BY <1>1, <1>2, <1>5, <1>6
  <2>2. Knows(file, iam, q)
    BY <1>1, <2>1 DEF ProvisionerInv, InstancesOK
  <2> QED
    BY <1>1, <2>2
<1>7. iam' \in used \cup {Null} /\ mishaps' \in 0 .. MaxMishaps
  BY <1>1 DEF ProvisionerInv, ProvisionerTypeOK
<1> QED
  BY <1>1, <1>4, <1>5, <1>6, <1>7, ZitadelStep

LEMMA DeleteIamOK == ProvisionerInv /\ DeleteIam => ProvisionerInv'
<1> SUFFICES ASSUME ProvisionerInv, DeleteIam PROVE ProvisionerInv'
  OBVIOUS
<1>1. /\ iam' = Null /\ Mishap
      /\ UNCHANGED <<used, made, visible, file, archive, env, import, data, legacy, lost, cmd>>
  BY DEF DeleteIam, disk
<1>2. visible' \in [Instances -> [Resources -> 0 .. MaxCreated]]
  BY <1>1 DEF ProvisionerInv, ProvisionerTypeOK
<1>3. \A i \in Instances : \A r \in Resources : visible'[i][r] <= made[i][r]
  BY <1>1 DEF ProvisionerInv, InstancesOK
<1> QED
  BY <1>1, <1>2, <1>3, MishapOK, ZitadelStep

LEMMA RestoreIamOK == ProvisionerInv /\ RestoreIam => ProvisionerInv'
<1> SUFFICES ASSUME ProvisionerInv, RestoreIam PROVE ProvisionerInv'
  OBVIOUS
<1>1. /\ Mishap
      /\ UNCHANGED <<used, made, file, archive, env, import, data, legacy, lost, cmd>>
  BY DEF RestoreIam, disk
<1>2. PICK i \in used \ {iam} : iam' = i /\ visible' = [visible EXCEPT ![i] = made[i]]
  BY DEF RestoreIam
<1>3. i \in Instances
  BY Typed DEF ProvisionerInv
<1>4. /\ made \in [Instances -> [Resources -> 0 .. MaxCreated]]
      /\ visible \in [Instances -> [Resources -> 0 .. MaxCreated]]
  BY DEF ProvisionerInv, ProvisionerTypeOK
<1>5. /\ visible' \in [Instances -> [Resources -> 0 .. MaxCreated]]
      /\ \A j \in Instances : visible'[j] = IF j = i THEN made[j] ELSE visible[j]
  BY <1>2, <1>3, <1>4
<1>6. \A j \in Instances : \A r \in Resources : visible'[j][r] <= made[j][r]
  <2> SUFFICES ASSUME NEW j \in Instances, NEW r \in Resources PROVE visible'[j][r] <= made[j][r]
    OBVIOUS
  <2>1. made[j][r] \in {0, 1} /\ visible[j][r] <= made[j][r]
    BY CountsOK
  <2> QED
    BY <1>5, <2>1
<1>7. \A r \in Resources : ~ (visible'[iam'][r] < made[iam'][r])
  <2> SUFFICES ASSUME NEW r \in Resources PROVE ~ (visible'[i][r] < made[i][r])
    BY <1>2
  <2>1. made[i][r] \in {0, 1}
    BY <1>3, CountsOK
  <2> QED
    BY <1>3, <1>5, <2>1
<1> QED
  BY <1>1, <1>2, <1>5, <1>6, <1>7, MishapOK, ZitadelStep

LEMMA DeleteDataOK == ProvisionerInv /\ DeleteData => ProvisionerInv'
<1> SUFFICES ASSUME ProvisionerInv, DeleteData PROVE ProvisionerInv'
  OBVIOUS
<1>1. /\ Mishap /\ data' = Null
      /\ UNCHANGED <<iam, used, made, visible, file, archive, env, import, legacy, lost, cmd>>
  BY DEF DeleteData, zitadel, disk
<1>2. cmd.pc = "idle" /\ mishaps' \in 0 .. MaxMishaps
  BY <1>1, MishapOK
<1>3. ProvisionerTypeOK'
  BY <1>1, <1>2 DEF ProvisionerInv, ProvisionerTypeOK
<1>4. Sound(file)' /\ InstancesOK' /\ EnvOK'
  BY <1>1 DEF ProvisionerInv, Sound, Real, InstancesOK, Knows, EnvOK
<1>5. ImportOK'
  BY <1>1 DEF ProvisionerInv, ImportOK
<1>6. CommandOK'
  BY <1>1, <1>2, OutsideCommand
<1>7. NothingForgotten' /\ ConfiguredHasState'
  <2>1. Kept \subseteq Kept'
    BY <1>1 DEF Kept
  <2> QED
    BY <1>1, <2>1, StillKept DEF ProvisionerInv, ConfiguredHasState
<1> QED
  BY <1>3, <1>4, <1>5, <1>6, <1>7 DEF ProvisionerInv

LEMMA LoseFileOK == ProvisionerInv /\ LoseFile => ProvisionerInv'
<1> SUFFICES ASSUME ProvisionerInv, LoseFile PROVE ProvisionerInv'
  OBVIOUS
<1>1. /\ Mishap /\ file # NoState /\ file' = NoState /\ visible = made
      /\ UNCHANGED <<iam, used, made, visible, archive, env, import, data, legacy, cmd>>
  BY DEF LoseFile, zitadel
<1>2. cmd.pc = "idle" /\ mishaps' \in 0 .. MaxMishaps
  BY <1>1, MishapOK
<1>3. /\ lost' = lost \cup ({file.instance} \ {Null})
                      \cup {file[r][1] : r \in {r \in Resources : file[r] # Null}}
      /\ lost \subseteq lost'
      /\ file.instance # Null => file.instance \in lost'
      /\ \A r \in Resources : file[r] # Null => file[r][1] \in lost'
  BY DEF LoseFile
<1>4. file \in State /\ (\A r \in Resources : file[r] = IF r = "project" THEN file.project ELSE file.app)
      /\ file.instance \in Instances \cup {Null} /\ file.project \in Ids \cup {Null} /\ file.app \in Ids \cup {Null}
  BY Typed, ResourceOf DEF ProvisionerInv
<1>5. lost' \subseteq Instances
  <2>1. \A r \in Resources : file[r] # Null => file[r][1] \in Instances
    BY <1>4 DEF Ids
  <2> QED
    BY <1>3, <1>4, <2>1 DEF ProvisionerInv, ProvisionerTypeOK
<1>6. ProvisionerTypeOK'
  BY <1>1, <1>2, <1>5, NoStateFacts DEF ProvisionerInv, ProvisionerTypeOK
<1>7. Sound(file)'
  BY <1>1, NoStateFacts DEF Sound, ConstantsAssumption
<1>8. InstancesOK'
  <2>1. \A i \in Instances : \A r \in Resources : ~ (visible[i][r] < made[i][r])
    <3> SUFFICES ASSUME NEW i \in Instances, NEW r \in Resources PROVE ~ (visible[i][r] < made[i][r])
      OBVIOUS
    <3> QED
      BY <1>1, CountsOK
  <2>2. iam # Null => iam \in Instances
    BY Typed DEF ProvisionerInv
  <2> QED
    BY <1>1, <2>1, <2>2 DEF ProvisionerInv, InstancesOK
<1>9. EnvOK'
  BY <1>1 DEF ProvisionerInv, EnvOK, Real
<1>10. ImportOK'
  <2>1. legacy # NoProfile /\ env.there = "no" => import # "none" /\ legacy.file.project[1] \in lost'
    <3> SUFFICES ASSUME legacy # NoProfile, env.there = "no"
                 PROVE  import # "none" /\ legacy.file.project[1] \in lost'
      OBVIOUS
    <3>1. import # "none" /\ (file = legacy.file \/ legacy.file.project[1] \in lost)
      BY <1>1 DEF ProvisionerInv, ImportOK
    <3>2. legacy.file.project # Null
      BY LegacyOK
    <3> QED
      BY <1>3, <1>4, <3>1, <3>2
  <2>2. cmd.pc \notin Importing
    BY <1>2 DEF Importing
  <2> QED
    BY <1>1, <1>2, <2>1, <2>2 DEF ProvisionerInv, ImportOK
<1>11. CommandOK'
  BY <1>1, <1>2, OutsideCommand
<1>12. NothingForgotten'
  <2> SUFFICES ASSUME NEW i \in (Instances \ lost)', NEW r \in Resources, (made[i][r] > 0)'
               PROVE  (\E t \in Kept : Knows(t, i, r))'
    BY DEF NothingForgotten
  <2>1. PICK t \in Kept : Knows(t, i, r)
    BY <1>1, <1>3 DEF ProvisionerInv, NothingForgotten
  <2>2. ~ Knows(file, i, r)
    <3>1. i \in Instances /\ i \notin lost' /\ i # Null /\ <<i, 1>> # Null
      BY DEF ConstantsAssumption, Ids
    <3>2. file.instance # i
      BY <1>3, <3>1
    <3>3. file[r] # <<i, 1>>
      <4>1. <<i, 1>>[1] = i
        OBVIOUS
      <4>2. file[r] # Null => file[r][1] # i
        BY <1>3, <3>1
      <4> QED
        BY <3>1, <4>1, <4>2
    <3> QED
      BY <3>2, <3>3 DEF Knows
  <2>3. t \in Kept'
    BY <1>1, <2>1, <2>2 DEF Kept
  <2> QED
    BY <2>1, <2>3 DEF Knows
<1>13. ConfiguredHasState'
  BY <1>1, <1>3, <1>4 DEF ProvisionerInv, ConfiguredHasState
<1> QED
  BY <1>6, <1>7, <1>8, <1>9, <1>10, <1>11, <1>12, <1>13 DEF ProvisionerInv

LEMMA StutterOK == ProvisionerInv /\ UNCHANGED provisionerVars => ProvisionerInv'
<1> SUFFICES ASSUME ProvisionerInv, UNCHANGED provisionerVars PROVE ProvisionerInv'
  OBVIOUS
<1>1. UNCHANGED <<iam, used, made, visible, file, archive, env, import, data, legacy, lost, cmd, mishaps>>
  BY DEF provisionerVars
<1>2. iam' \in used \cup {Null} /\ mishaps' \in 0 .. MaxMishaps
      /\ visible' \in [Instances -> [Resources -> 0 .. MaxCreated]]
  BY <1>1 DEF ProvisionerInv, ProvisionerTypeOK
<1>3. /\ \A i \in Instances : \A r \in Resources : visible'[i][r] <= made[i][r]
      /\ \A r \in Resources :
           iam' # Null /\ visible'[iam'][r] < made[iam'][r] => Knows(file, iam', r)
  BY <1>1 DEF ProvisionerInv, InstancesOK
<1> QED
  BY <1>1, <1>2, <1>3, ZitadelStep

LEMMA NextOK == ProvisionerInv /\ [ProvisionerNext]_provisionerVars => ProvisionerInv'
<1> SUFFICES ASSUME ProvisionerInv, [ProvisionerNext]_provisionerVars PROVE ProvisionerInv'
  OBVIOUS
<1>1. ASSUME NEW r \in Resources,
             \/ EnsureSaved(r) \/ EnsureFound(r) \/ EnsurePending(r)
             \/ CreateResource(r) \/ Record(r) \/ SearchCatchesUp(r)
      PROVE  ProvisionerInv'
  BY <1>1, EnsureSavedOK, EnsureFoundOK, EnsurePendingOK, CreateOK, RecordOK, SearchCatchesUpOK
<1>2. CASE \/ BeginCommand \/ NothingToImport \/ ImportState \/ ImportProvenance \/ ImportEnv
           \/ Configured \/ Configure \/ StartIam
  BY <1>2, BeginOK, NothingToImportOK, ImportStateOK, ImportProvenanceOK, ImportEnvOK,
     ConfiguredOK, ConfigureOK, StartIamOK
<1>3. CASE \/ InstanceChanged \/ RecoveryRequested \/ Known
           \/ Archive \/ Reset \/ VerifyProject \/ Publish \/ StartInfra \/ StepFails
  BY <1>3, InstanceChangedOK, RecoveryRequestedOK, KnownOK, ArchiveOK, ResetOK,
     VerifyProjectOK, PublishOK, StartInfraOK, StepFailsOK
<1>4. CASE DeleteIam \/ RestoreIam \/ DeleteData \/ LoseFile \/ RestoreEnv
  BY <1>4, DeleteIamOK, RestoreIamOK, DeleteDataOK, LoseFileOK, RestoreEnvOK
<1>5. CASE UNCHANGED provisionerVars
  BY <1>5, StutterOK
<1> QED
  BY <1>1, <1>2, <1>3, <1>4, <1>5 DEF ProvisionerNext

(***************************************************************************)
(* The first state: nothing yet, or an old environment in use.             *)
(***************************************************************************)

LEMMA InitOK == ProvisionerInit => ProvisionerInv
<1> SUFFICES ASSUME ProvisionerInit PROVE ProvisionerInv
  OBVIOUS
<1>1. archive = {} /\ import = "none" /\ cmd = NoCommand /\ lost = {} /\ mishaps = 0 /\ visible = made
  BY DEF ProvisionerInit
<1>2. cmd \in Commands /\ cmd.pc = "idle"
  BY <1>1, NoStateFacts DEF NoCommand, Commands, Pcs
<1>3. CommandOK
  <2>1. /\ cmd.pc \notin {"read", "recover", "reset"} \cup Registering
        /\ cmd.pc \notin {"create project", "record project", "create app", "record app"}
    BY <1>2 DEF Registering
  <2>2. \A r \in Resources : ~ Creating(r)
    BY <2>1 DEF Creating
  <2> QED
    BY <2>1, <2>2 DEF CommandOK
<1>4. 0 \in 0 .. MaxCreated /\ 1 \in 0 .. MaxCreated /\ 0 \in 0 .. MaxMishaps
  BY DEF ConstantsAssumption
<1>5. NoEnv \in Env /\ NoEnv.there = "no" /\ NoEnv.project = Null
  BY DEF NoEnv, Env
<1>6. NoProfile.file = NoState /\ NoProfile.env = NoEnv /\ NoProfile \in [file : State, env : Env]
  BY <1>5, NoStateFacts DEF NoProfile
<1>7. CASE /\ iam = Null /\ used = {} /\ data = Null
           /\ legacy = NoProfile /\ file = NoState /\ env = NoEnv
           /\ made = [i \in Instances |-> [r \in Resources |-> 0]]
  <2>1. /\ made \in [Instances -> [Resources -> 0 .. MaxCreated]]
        /\ \A i \in Instances : \A r \in Resources : made[i][r] = 0
    BY <1>4, <1>7
  <2>2. ProvisionerTypeOK
    BY <1>1, <1>2, <1>4, <1>5, <1>6, <1>7, <2>1, NoStateFacts
       DEF ProvisionerTypeOK, Commands, Pcs, Importing, Running, Registering
  <2>3. Sound(file)
    BY <1>7, NoStateSound
  <2>4. InstancesOK
    BY <1>1, <1>7, <2>1 DEF InstancesOK
  <2>5. EnvOK
    BY <1>5, <1>7 DEF EnvOK
  <2>6. ImportOK
    BY <1>1, <1>2, <1>5, <1>7 DEF ImportOK, Importing
  <2>7. NothingForgotten /\ ConfiguredHasState
    BY <1>5, <1>7, <2>1 DEF NothingForgotten, ConfiguredHasState
  <2> QED
    BY <1>3, <2>2, <2>3, <2>4, <2>5, <2>6, <2>7 DEF ProvisionerInv
<1>8. ASSUME NEW i \in Instances, NEW l \in {NoProfile, OldProfile(i)}, NEW p \in {NoProfile, OldProfile(i)},
             iam = i, used = {i}, data = i, OldProfile(i) \in {l, p},
             legacy = l, file = p.file, env = p.env,
             made = [j \in Instances |-> [r \in Resources |-> IF j = i THEN 1 ELSE 0]]
      PROVE  ProvisionerInv
  <2>1. /\ made \in [Instances -> [Resources -> 0 .. MaxCreated]]
        /\ \A j \in Instances : \A r \in Resources : made[j][r] = IF j = i THEN 1 ELSE 0
    BY <1>4, <1>8
  <2>2. PICK o : o = OldProfile(i)
    OBVIOUS
  <2>3. /\ o.file \in State /\ o.env \in Env /\ o \in [file : State, env : Env]
        /\ o.file.instance = Null /\ o.file.pending = Null
        /\ o.file.project = <<i, 1>> /\ o.file.app = <<i, 1>>
        /\ o.env.there = "yes" /\ o.env.project = <<i, 1>>
        /\ o # NoProfile /\ <<i, 1>> # Null
    BY <2>2, OldFacts
  <2>4. i # Null
    BY DEF ConstantsAssumption
  <2>5. \A r \in Resources : o.file[r] = <<i, 1>>
    BY <2>3, ResourceOf
  <2>6. \A r \in Resources : Real(<<i, 1>>, r)
    BY <1>8, <2>1 DEF Real
  <2>7. \/ file = NoState /\ env = NoEnv /\ legacy = o
        \/ file = o.file /\ env = o.env
    <3>1. p = NoProfile => l = o
      BY <1>8, <2>2, <2>3
    <3>2. p = NoProfile \/ p = o
      BY <2>2
    <3> QED
      BY <1>6, <1>8, <3>1, <3>2
  <2>8. ProvisionerTypeOK
    <3>1. legacy \in [file : State, env : Env] /\ file \in State /\ env \in Env
      BY <1>5, <1>6, <1>8, <2>2, <2>3, <2>7, NoStateFacts
    <3>2. file.pending = Null
      BY <2>3, <2>7, NoStateFacts
    <3> QED
      BY <1>1, <1>2, <1>4, <1>8, <2>1, <3>1, <3>2
         DEF ProvisionerTypeOK, Commands, Pcs, Importing, Running, Registering
  <2>9. Sound(file)
    <3>1. CASE file = NoState
      BY <3>1, NoStateSound
    <3>2. CASE file = o.file
      BY <1>8, <2>3, <2>5, <2>6, <3>2 DEF Sound
    <3> QED
      BY <2>7, <3>1, <3>2
  <2>10. InstancesOK
    BY <1>1, <1>8, <2>1 DEF InstancesOK
  <2>11. EnvOK
    BY <1>5, <1>8, <2>3, <2>6, <2>7 DEF EnvOK
  <2>12. ImportOK
    <3>1. legacy = NoProfile \/ \E j \in used : legacy = OldProfile(j) /\ \A r \in Resources : made[j][r] = 1
      BY <1>8, <2>1, <2>2
    <3>2. legacy = NoProfile => env.there = "yes"
      BY <2>3, <2>7
    <3>3. legacy # NoProfile => legacy.file.project[1] = i
      BY <1>8, <2>2, <2>3
    <3>4. env.there = "no" => file = NoState
      BY <2>3, <2>7
    <3> QED
      BY <1>1, <1>2, <1>8, <3>1, <3>2, <3>3, <3>4 DEF ImportOK, Importing
  <2>13. NothingForgotten
    <3> SUFFICES ASSUME NEW j \in Instances \ lost, NEW r \in Resources, made[j][r] > 0
                 PROVE  \E t \in Kept : Knows(t, j, r)
      BY DEF NothingForgotten
    <3>1. j = i
      BY <2>1
    <3>2. o.file \in Kept
      <4>1. legacy = o \/ file = o.file
        BY <2>7
      <4> QED
        BY <1>1, <4>1 DEF Kept
    <3> QED
      BY <2>5, <3>1, <3>2 DEF Knows
  <2>14. ConfiguredHasState
    BY <1>5, <2>3, <2>7 DEF ConfiguredHasState
  <2> QED
    BY <1>3, <2>8, <2>9, <2>10, <2>11, <2>12, <2>13, <2>14 DEF ProvisionerInv
<1> QED
  BY <1>7, <1>8 DEF ProvisionerInit

LEMMA Inductive == ProvisionerSpec => []ProvisionerInv
<1> QED
  BY InitOK, NextOK, PTL DEF ProvisionerSpec

(***************************************************************************)
(* What the invariant gives.                                               *)
(***************************************************************************)

\* Every value stays one that the code gives a meaning to, whatever crashes:
\* identity.json is replaced in one rename (_atomic_json), and "ensure" drops a
\* pending creation in the write that records its identifier.
THEOREM TypeCorrect == ProvisionerSpec => []ProvisionerTypeOK
<1>1. ProvisionerInv => ProvisionerTypeOK
  BY DEF ProvisionerInv
<1> QED
  BY <1>1, Inductive, PTL

\* "ensure" marks a creation before it asks for it, and a marked one is never
\* asked for again, so an instance never gets a second project or application,
\* however far its searches lag and however often commands die or files vanish.
THEOREM NoSecondCreateHolds == ProvisionerSpec => []NoSecondCreate
<1>1. ProvisionerInv => NoSecondCreate
  BY DEF ProvisionerInv, InstancesOK, NoSecondCreate
<1> QED
  BY <1>1, Inductive, PTL

\* Whatever was registered is named, or marked as pending, by identity.json, by
\* a copy that "recover" archived or by the checkout that is still to be
\* imported, unless the developer deleted the file that named its instance.
THEOREM NothingForgottenHolds == ProvisionerSpec => []NothingForgotten
<1>1. ProvisionerInv => NothingForgotten
  BY DEF ProvisionerInv
<1> QED
  BY <1>1, Inductive, PTL

\* guard_identity_recovery, "recover" and the order of the import's renames keep
\* retained application data from being attached to the subjects of an instance
\* that did not make it, through every deletion and restoration of volumes.
THEOREM SubjectsKeepDataHolds == ProvisionerSpec => []SubjectsKeepData
<1>1. ProvisionerInv => SubjectsKeepData
  BY DEF ProvisionerInv, EnvOK, SubjectsKeepData
<1> QED
  BY <1>1, Inductive, PTL

\* .env is published after the state it belongs to (migrate_legacy, publish), so
\* its project is always one that identity.json or an archived copy records.
THEOREM ConfiguredHasStateHolds == ProvisionerSpec => []ConfiguredHasState
<1>1. ProvisionerInv => ConfiguredHasState
  BY DEF ProvisionerInv
<1> QED
  BY <1>1, Inductive, PTL
=============================================================================
