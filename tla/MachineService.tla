--------------------------- MODULE MachineService ---------------------------
(***************************************************************************)
(* The operating-system service of a Clew machine and the commands that    *)
(* manage it: the Linux machine service (a dedicated account, its          *)
(* credential file, two trees and a systemd unit), the Windows machine     *)
(* service (an SCM entry and a protected directory) and the Linux user     *)
(* service (one unit).  A command is a plan: the steps it still has to     *)
(* take.  Any step may fail, with or without its effect; the command may   *)
(* be killed, or the machine lose power, between two steps.  Commands are  *)
(* issued one at a time: nothing in the code keeps two of them apart.      *)
(***************************************************************************)
EXTENDS Naturals, Sequences

CONSTANT MaxCommands   \* bound: commands the administrator issues

VARIABLES msOs,       \* which of the three services this is
          msHas,      \* the files and entries that exist
          msUser,     \* the service account, and
          msGroup,    \* its group: none, ours, or someone else's of that name
          msProc,     \* the service process: off, on, or failed and due again
          msEnabled,  \* started at boot
          msDying,    \* Windows: the SCM entry is marked for deletion
          msHelper,   \* Windows: the deferred cleanup process
          msCmd,      \* the command that runs and its plan
          msBefore,   \* history: what existed when it began
          msOut,      \* how the last command ended
          msLost,     \* history: something of someone else was deleted
          msIssued

msVars == <<msOs, msHas, msUser, msGroup, msProc, msEnabled, msDying, msHelper,
            msCmd, msBefore, msOut, msLost, msIssued>>

NoCommand == [name |-> "none", plan |-> <<>>]

Make(x) == [op |-> "make", of |-> x]
Drop(x) == [op |-> "drop", of |-> x]
Do(x)   == [op |-> x, of |-> "none"]

\* What the service needs to run.
Payload(os) ==
  CASE os = "linux"   -> {"bin", "root", "config", "unit"}
    [] os = "windows" -> {"service", "root", "config"}
    [] os = "user"    -> {"unit"}

Whole == Payload(msOs) \subseteq msHas /\ (msOs = "linux" => msUser # "none")

MsInit ==
  /\ msOs \in {"linux", "windows", "user"}
  /\ msHas \in IF msOs = "user" THEN {{}, {"foreign"}} ELSE {{}}
  /\ msUser = "none" /\ msGroup = "none"
  /\ msProc = "off" /\ msEnabled = FALSE /\ msDying = FALSE
  /\ msHelper = "none"
  /\ msCmd = NoCommand /\ msBefore = {} /\ msOut = "none"
  /\ msLost = FALSE
  /\ msIssued = 0

----------------------------------------------------------------------------
\* The plans, in the order of the code.

InstallMachineLinux ==
  << Make("cred"), Make("group"), Make("user"), Make("bin"), Make("root"),
     Make("config"), Make("unit"), Do("reload") >>

\* Mutant: the credential goes first.
CleanupCredentialFirst ==
  << Drop("cred"), Drop("user"), Drop("group"), Drop("unit"), Drop("root"), Drop("bin") >>

\* Mutant: the installed binary is forgotten.
CleanupKeepsBinary ==
  << Drop("user"), Drop("group"), Drop("unit"), Drop("root"), Drop("cred") >>

CleanupFailedInstall ==
  << Drop("user"), Drop("group"), Drop("unit"), Drop("root"), Drop("bin"), Drop("cred") >>

\* Mutant: the service is disabled only after its files are gone.
UninstallDisablesLast ==
  << Do("stop"), Drop("user"), Drop("group"), Drop("root"), Drop("bin"), Do("disable"),
     Drop("unit"), Drop("cred"), Do("reload") >>

UninstallMachineLinux ==
  << Do("stop"), Do("disable"), Drop("user"), Drop("group"), Drop("root"), Drop("bin"),
     Drop("unit"), Drop("cred"), Do("reload") >>

InstallMachineWindows ==
  << Make("service"), Do("secure"), Make("root"), Make("config"), Do("verify") >>

CleanupWindows == << Do("delete"), Do("await"), Drop("root") >>

UninstallMachineWindows(self) ==
  << Do("stop"), Do("delete"), Do("await"), IF self THEN Do("spawn") ELSE Drop("root") >>

InstallUserUnit   == << Make("unit"), Do("reload") >>
UninstallUserUnit == << Do("stop"), Do("disable"), Drop("unit"), Do("reload") >>

Installs ==
  CASE msOs = "linux"   -> {InstallMachineLinux}
    [] msOs = "windows" -> {InstallMachineWindows}
    [] msOs = "user"    -> {InstallUserUnit}

Uninstalls ==
  CASE msOs = "linux"   -> {UninstallMachineLinux}
    [] msOs = "windows" -> {UninstallMachineWindows(FALSE), UninstallMachineWindows(TRUE)}
    [] msOs = "user"    -> {UninstallUserUnit}

Rollback ==
  CASE msOs = "linux"   -> CleanupFailedInstall
    [] msOs = "windows" -> CleanupWindows
    [] msOs = "user"    -> << Do("restore"), Do("reload") >>

----------------------------------------------------------------------------
\* Which command is accepted.

\* The account and the group are the ones the credential describes.
VerifyServiceAccount == msUser = "ours" /\ msGroup = "ours"

CanInstall ==
  /\ msOs = "user" => "foreign" \notin msHas
  /\ msOs # "user" => msHas = {}
  /\ msOs = "linux" => msUser = "none" /\ msGroup = "none"

\* The unit and its credential, or the entry and its metadata, are Clew's own.
Marks ==
  CASE msOs = "linux"   -> {"unit", "cred"}
    [] msOs = "windows" -> {"service", "config"}
    [] msOs = "user"    -> {"unit"}

Managed == Marks \subseteq msHas

CanUninstall == Managed /\ (msOs = "linux" => VerifyServiceAccount)

\* Uninstall without a unit is a success that does nothing.
NothingToUninstall == msOs # "windows" /\ "unit" \notin msHas /\ "foreign" \notin msHas

RequirePayload ==
  /\ Managed
  /\ msOs # "user" => Whole
  /\ msOs = "linux" => VerifyServiceAccount

Idle == msCmd = NoCommand /\ msIssued < MaxCommands

Issue(name, plan) ==
  /\ msCmd' = [name |-> name, plan |-> plan]
  /\ msBefore' = msHas
  /\ msOut' = "none"
  /\ msIssued' = msIssued + 1
  /\ UNCHANGED <<msOs, msHas, msUser, msGroup, msProc, msEnabled, msDying, msHelper, msLost>>

Install == Idle /\ CanInstall /\ \E p \in Installs : Issue("install", p)

Uninstall ==
  /\ Idle
  /\ \/ CanUninstall /\ \E p \in Uninstalls : Issue("uninstall", p)
     \/ NothingToUninstall /\ Issue("uninstall", <<>>)

Enable  == Idle /\ RequirePayload /\ Issue("enable", <<Do("enable")>>)
Disable == Idle /\ Managed /\ Issue("disable", <<Do("disable")>>)
Stop    == Idle /\ Managed /\ Issue("stop", <<Do("stop")>>)

\* On Windows the process checks the payload itself.
Start ==
  /\ Idle
  /\ IF msOs = "windows" THEN "service" \in msHas /\ ~msDying ELSE RequirePayload
  /\ Issue("start", <<Do("start")>>)

----------------------------------------------------------------------------
\* One step of the plan.

\* What a step checks before it acts; a step that may not act fails.
Allowed(s) ==
  /\ s = Drop("user")  => (msUser = "none" /\ msGroup # "foreign") \/ VerifyServiceAccount
  /\ s = Drop("group") => msGroup # "foreign"
  /\ s = Do("await")   => "service" \notin msHas
  /\ s = Do("start")   => Whole /\ ~msDying
  /\ s = Do("enable") /\ msOs = "windows" => "service" \in msHas /\ ~msDying

\* Removing the machine tree takes the metadata with it.
Gone(x) == IF x = "root" THEN {"root", "config"} ELSE {x}

\* userdel may take the group of the same name along.
Accounts(s) ==
  /\ msUser' = CASE s = Make("user") -> "ours"
                 [] s = Drop("user") -> "none"
                 [] OTHER            -> msUser
  /\ msGroup' \in CASE s = Make("group") -> {"ours"}
                    [] s = Drop("user")  -> IF msUser = "none" THEN {msGroup} ELSE {msGroup, "none"}
                    [] s = Drop("group") -> {"none"}
                    [] OTHER             -> {msGroup}
  /\ msLost' = (msLost \/ (msUser = "foreign" /\ msUser' = "none")
                       \/ (msGroup = "foreign" /\ msGroup' = "none"))

Files(s) ==
  msHas' = CASE s.op = "make" /\ s.of \notin {"user", "group"} -> msHas \cup {s.of}
             [] s.op = "drop" -> msHas \ Gone(s.of)
             [] s.op = "restore" -> msBefore
             [] OTHER -> msHas

\* A process that failed and waits to be restarted looks stopped to the SCM,
\* and activating to systemd.
Process(s) ==
  /\ msProc' = CASE s.op = "start" -> "on"
                 [] s.op = "stop" /\ (msOs # "windows" \/ msProc = "on") -> "off"
                 [] OTHER -> msProc
  /\ msEnabled' = CASE s.op = "enable"  -> TRUE
                    [] s.op = "disable" -> FALSE
                    [] OTHER            -> msEnabled
  /\ msDying' = (msDying \/ (s.op = "delete" /\ "service" \in msHas))
  /\ msHelper' = IF s.op = "spawn" THEN "wait" ELSE msHelper

Effect(s) == Allowed(s) /\ Accounts(s) /\ Files(s) /\ Process(s)

NoEffect == UNCHANGED <<msHas, msUser, msGroup, msProc, msEnabled, msDying, msHelper, msLost>>

\* A plan that has run to its end.
Outcome(name) == CASE name = "rollback"  -> "undone"
                   [] name = "uninstall" -> "uninstalled"
                   [] OTHER              -> "done"

StepDone ==
  /\ msCmd.plan # <<>>
  /\ Effect(Head(msCmd.plan))
  /\ msCmd' = [msCmd EXCEPT !.plan = Tail(@)]
  /\ UNCHANGED <<msOs, msBefore, msOut, msIssued>>

\* A failed install is rolled back, except when the user unit itself could
\* not be written; Windows ignores what its rollback could not do.
RollsBack == msCmd.name = "install" /\ (msOs = "user" => Head(msCmd.plan).op # "make")
GoesOn    == msCmd.name = "rollback" /\ msOs = "windows"

StepFails ==
  /\ msCmd.plan # <<>>
  /\ NoEffect \/ (Head(msCmd.plan).op = "make" /\ Effect(Head(msCmd.plan)))
  /\ \/ /\ RollsBack
        /\ msCmd' = [name |-> "rollback", plan |-> Rollback] /\ UNCHANGED msOut
     \/ /\ GoesOn
        /\ msCmd' = [msCmd EXCEPT !.plan = Tail(@)] /\ UNCHANGED msOut
     \/ /\ ~RollsBack /\ ~GoesOn
        /\ msCmd' = NoCommand /\ msOut' = "failed"
  /\ UNCHANGED <<msOs, msBefore, msIssued>>

CommandEnds ==
  /\ msCmd # NoCommand /\ msCmd.plan = <<>>
  /\ msCmd' = NoCommand
  /\ msOut' = Outcome(msCmd.name)
  /\ UNCHANGED <<msOs, msHas, msUser, msGroup, msProc, msEnabled, msDying, msHelper,
                 msBefore, msLost, msIssued>>

\* The command is killed, or the machine restarts and starts what is enabled.
Crash ==
  /\ msCmd' = NoCommand /\ msOut' = "crashed"
  /\ \/ msCmd # NoCommand /\ UNCHANGED <<msProc, msHelper, msHas, msEnabled, msDying>>
     \/ /\ msProc' = IF msEnabled /\ ~msDying THEN "on" ELSE "off"
        /\ msHas' = IF msDying THEN msHas \ {"service"} ELSE msHas
        /\ msEnabled' = (msEnabled /\ ~msDying)
        /\ msDying' = FALSE
        /\ msHelper' = "none"
        /\ msCmd # NoCommand \/ msHelper # "none" \/ msProc # "off"
  /\ UNCHANGED <<msOs, msUser, msGroup, msBefore, msLost, msIssued>>

----------------------------------------------------------------------------
\* The service process and its manager.

Manager(proc) ==
  /\ msProc' = proc
  /\ UNCHANGED <<msOs, msHas, msUser, msGroup, msEnabled, msDying, msHelper, msCmd,
                 msBefore, msOut, msLost, msIssued>>

\* The process fails and the manager will start it again, or has given up.
ProcessFails == msProc = "on" /\ \E p \in {"again", "off"} : Manager(p)

ProcessRestarts == msProc = "again" /\ ~msDying /\ Manager("on")

\* The SCM drops an entry marked for deletion once its process has stopped.
EntryGoes ==
  /\ msDying /\ msProc # "on"
  /\ msDying' = FALSE
  /\ msHas' = msHas \ {"service"}
  /\ msProc' = "off" /\ msEnabled' = FALSE
  /\ UNCHANGED <<msOs, msUser, msGroup, msHelper, msCmd, msBefore, msOut, msLost, msIssued>>

\* The deferred cleanup: once the uninstalling process has exited, it refuses
\* when an entry exists again, and otherwise deletes the directory.  The code
\* looks for an entry once and then tries the deletion for a while, as long as
\* files are in use; look and deletion are one step here.
RunCleanup ==
  /\ msHelper = "wait" /\ msCmd.name # "uninstall"
  /\ msHelper' = "none"
  /\ \/ UNCHANGED <<msHas, msLost>>
     \/ /\ "service" \notin msHas
        /\ msHas' = msHas \ {"root", "config"}
        /\ UNCHANGED msLost
  /\ UNCHANGED <<msOs, msUser, msGroup, msProc, msEnabled, msDying, msCmd, msBefore, msOut, msIssued>>

\* Between two commands the administrator may give the account's name to
\* someone else, or follow the advice of a refused install and remove the
\* directory by hand.
AdminReuses ==
  /\ msOs = "linux" /\ msCmd = NoCommand /\ msUser = "ours"
  /\ \E g \in {"ours", "foreign"} : msGroup' = g
  /\ msUser' = "foreign"
  /\ UNCHANGED <<msOs, msHas, msProc, msEnabled, msDying, msHelper, msCmd, msBefore,
                 msOut, msLost, msIssued>>

AdminRemoves ==
  /\ msOs = "windows" /\ msCmd = NoCommand
  /\ "service" \notin msHas /\ "root" \in msHas
  /\ msHas' = msHas \ {"root", "config"}
  /\ UNCHANGED <<msOs, msUser, msGroup, msProc, msEnabled, msDying, msHelper, msCmd,
                 msBefore, msOut, msLost, msIssued>>

MsNext ==
  \/ Install \/ Uninstall \/ Enable \/ Disable \/ Start \/ Stop
  \/ StepDone \/ StepFails \/ CommandEnds \/ Crash
  \/ ProcessFails \/ ProcessRestarts \/ EntryGoes
  \/ RunCleanup \/ AdminReuses \/ AdminRemoves

MsSpec == MsInit /\ [][MsNext]_msVars

----------------------------------------------------------------------------
\* The dedicated account never exists without the credential file from which
\* a later uninstall proves it is Clew's, wherever a command was cut off; and
\* no account, group or installation of someone else is ever deleted.
IdentityIsKept ==
  /\ "ours" \in {msUser, msGroup} => "cred" \in msHas
  /\ ~msLost

\* Whatever runs, is due to be restarted or would be started at boot is a
\* complete installation, whichever command failed or was cut off before.
StartedIsWhole == msProc # "off" \/ msEnabled => Whole

\* An install that failed and whose rollback was reported complete left
\* nothing behind.  Windows reports no failure of its rollback.
RollbackIsComplete ==
  msOut = "undone" /\ msOs # "windows" /\ msCmd = NoCommand /\ msBefore = {}
    => msHas \cap Payload(msOs) = {} /\ "cred" \notin msHas /\ msUser # "ours"

\* What a refused install advises ("inspect or uninstall it before install"):
\* an uninstall that reported success leaves nothing that refuses an install.
UninstallFreesInstall == msOs = "linux" /\ msOut = "uninstalled" => CanInstall
=============================================================================
