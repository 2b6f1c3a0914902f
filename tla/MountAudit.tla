----------------------------- MODULE MountAudit -----------------------------
(***************************************************************************)
(* mount_audit: every path that qBittorrent and the arrs are set to use is *)
(* looked for and written to from inside the container, one docker exec    *)
(* after the other, and made if it is missing, while mounts come and go.   *)
(***************************************************************************)
EXTENDS Integers

CONSTANTS
    Qbit, Arrs,       \* the services, one container each
    Dirs,             \* the paths each of them is set to use
    MaxMountChanges,  \* bound: paths that appear, go or lose their write access
    MaxExecFaults     \* bound: API and exec calls that fail

ASSUME QbitAssumption == Qbit \notin Arrs
ASSUME MountBoundsAssumption == MaxMountChanges \in Nat /\ MaxExecFaults \in Nat

Services == {Qbit} \cup Arrs

VARIABLES
    dir,          \* what a container has at each path
    auditing,     \* the service being audited, or none
    unaudited,    \* services still to be audited in this run
    mountPc,
    untested,     \* paths of the service still to be tested
    path,         \* the path under test
    found,        \* the issues of the service: the paths and their kind
    steady,       \* history: paths that have not changed since the service's audit began
    mountChanges, execFaults

auditRun == <<auditing, unaudited, mountPc, untested, path, found>>
mountBounds == <<mountChanges, execFaults>>
mountVars == <<dir, auditRun, steady, mountBounds>>

NoService == "none"
NoDir == "none"
ASSUME DirsAssumption == NoDir \notin Dirs

Access == {"missing", "readonly", "writable"}
Kinds == {"none", "missing", "not_writable", "made"}

MountTypeOK ==
    /\ dir \in [Services -> [Dirs -> Access]]
    /\ auditing \in Services \cup {NoService}
    /\ unaudited \in SUBSET Services
    /\ mountPc \in {"idle", "api", "next", "exists", "writable", "mkdir", "recheck"}
    /\ untested \in SUBSET Dirs
    /\ path \in Dirs \cup {NoDir}
    /\ (path = NoDir) <=> mountPc \in {"idle", "api", "next"}
    /\ found \in [Dirs -> Kinds]
    /\ steady \in SUBSET Dirs
    /\ mountChanges \in 0 .. MaxMountChanges
    /\ execFaults \in 0 .. MaxExecFaults

MountInit ==
    /\ dir = [s \in Services |-> [d \in Dirs |-> "writable"]]
    /\ auditing = NoService
    /\ unaudited = {}
    /\ mountPc = "idle"
    /\ untested = {}
    /\ path = NoDir
    /\ found = [d \in Dirs |-> "none"]
    /\ steady = {}
    /\ mountChanges = 0
    /\ execFaults = 0

ExecFault == execFaults < MaxExecFaults /\ execFaults' = execFaults + 1

There == dir[auditing][path]

\* The next path, with the issue of this one if it has one.
Record(kind) ==
    /\ found' = [found EXCEPT ![path] = kind]
    /\ mountPc' = "next" /\ path' = NoDir

-----------------------------------------------------------------------------
(* run_mount_audit, audit_qbit, audit_arr *)

BeginAudit ==
    /\ mountPc = "idle"
    /\ unaudited' = Services
    /\ mountPc' = "api"
    /\ UNCHANGED <<dir, auditing, untested, path, found, steady, mountBounds>>

\* The login and the settings of the service; an API that fails is the one issue.
AskApi ==
    /\ mountPc = "api"
    /\ \E s \in unaudited :
         /\ unaudited' = unaudited \ {s}
         /\ \/ /\ auditing' = s
               /\ untested' = Dirs /\ steady' = Dirs
               /\ mountPc' = "next"
               /\ UNCHANGED execFaults
            \/ ExecFault /\ UNCHANGED <<auditing, untested, steady, mountPc>>
    /\ found' = [d \in Dirs |-> "none"]
    /\ UNCHANGED <<dir, path, mountChanges>>

NextPath ==
    /\ mountPc = "next"
    /\ \E d \in untested : untested' = untested \ {d} /\ path' = d
    /\ mountPc' = "exists"
    /\ UNCHANGED <<dir, auditing, unaudited, found, steady, mountBounds>>

TestExists ==
    /\ mountPc = "exists"
    /\ mountPc' = IF There = "missing" THEN "mkdir" ELSE "writable"
    /\ UNCHANGED <<dir, auditing, unaudited, untested, path, found, steady, mountBounds>>

TestWritable ==
    /\ mountPc = "writable"
    /\ Record(IF There = "writable" THEN "none" ELSE "not_writable")
    /\ UNCHANGED <<dir, auditing, unaudited, untested, steady, mountBounds>>

\* mkdir -p, which leaves alone what is there by now.
Make(access) == dir' = [dir EXCEPT ![auditing][path] = IF @ = "missing" THEN access ELSE @]

MakeUnchecked ==
    /\ mountPc = "mkdir"
    /\ \E access \in Access \ {"missing"} : Make(access)
    /\ Record("made")
    /\ UNCHANGED <<auditing, unaudited, untested, steady, mountBounds>>

\* Only qBittorrent's path is tested once it is made.
MakeDir ==
    /\ mountPc = "mkdir"
    /\ \E access \in Access \ {"missing"} : Make(access)
    /\ IF auditing = Qbit
       THEN mountPc' = "recheck" /\ UNCHANGED <<path, found>>
       ELSE Record("made")
    /\ UNCHANGED <<auditing, unaudited, untested, steady, mountBounds>>

MakeDirFails ==
    /\ mountPc = "mkdir"
    /\ ExecFault
    /\ Record("missing")
    /\ UNCHANGED <<dir, auditing, unaudited, untested, steady, mountChanges>>

Recheck ==
    /\ mountPc = "recheck"
    /\ Record(IF There = "writable" THEN "made" ELSE "not_writable")
    /\ UNCHANGED <<dir, auditing, unaudited, untested, steady, mountBounds>>

\* An exec that raises ends the audit of the service, and its issues are lost.
ExecRaises ==
    /\ mountPc \in {"exists", "writable", "mkdir", "recheck"}
    /\ ExecFault
    /\ found' = [d \in Dirs |-> "none"]
    /\ auditing' = NoService /\ mountPc' = "api" /\ path' = NoDir /\ untested' = {} /\ steady' = {}
    /\ UNCHANGED <<dir, unaudited, mountChanges>>

EndService ==
    /\ mountPc = "next" /\ untested = {}
    /\ auditing' = NoService /\ mountPc' = "api"
    /\ UNCHANGED <<dir, unaudited, untested, path, found, steady, mountBounds>>

EndAudit ==
    /\ mountPc = "api" /\ unaudited = {}
    /\ mountPc' = "idle"
    /\ UNCHANGED <<dir, auditing, unaudited, untested, path, found, steady, mountBounds>>

-----------------------------------------------------------------------------
\* A mount goes or comes back, a directory is removed, its owner changes.
PathChanges(s, d) ==
    /\ mountChanges < MaxMountChanges
    /\ mountChanges' = mountChanges + 1
    /\ \E access \in Access \ {dir[s][d]} : dir' = [dir EXCEPT ![s][d] = access]
    /\ steady' = IF s = auditing THEN steady \ {d} ELSE steady
    /\ UNCHANGED <<auditRun, execFaults>>

MountTick ==
    \/ BeginAudit
    \/ AskApi
    \/ NextPath
    \/ TestExists
    \/ TestWritable
    \/ MakeDir
    \/ MakeDirFails
    \/ Recheck
    \/ ExecRaises
    \/ EndService
    \/ EndAudit

MountNext == MountTick \/ \E s \in Services, d \in Dirs : PathChanges(s, d)

MountSpec == MountInit /\ [][MountNext]_mountVars

-----------------------------------------------------------------------------
(* Properties *)

\* What an audit says of a path that nobody else touched meanwhile is so at its end:
\* a path without an issue is writable, and so is one that qBittorrent's audit
\* reports as repaired.
ReportIsTrue ==
    mountPc = "next" /\ untested = {} =>
        \A d \in steady :
            found[d] = "none" \/ (found[d] = "made" /\ auditing = Qbit)
              => dir[auditing][d] = "writable"

=============================================================================
