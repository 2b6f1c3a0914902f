------------------------- MODULE PermissionsHealth -------------------------
(***************************************************************************)
(* permissions_health over one configured path, and the SSHClient it runs  *)
(* on: a find lists owner and links of every file, the wrong ones are      *)
(* given back with chown, in batches, while files are linked into and out  *)
(* of download directories.  Owner stands for the pair of uid and gid.     *)
(* The library refresh asked of Plex after a repair is left out.           *)
(***************************************************************************)
EXTENDS Integers, FiniteSetsExt

CONSTANTS
    Paths,
    Owners, Expected,
    Named,           \* owners that have a name on the remote host
    BatchSize,       \* files in one chown
    MaxFiles,        \* max_files
    MaxChanges,      \* bound: files changed by others
    MaxSshFaults,    \* bound: connections and commands that fail
    MaxPermRestarts  \* bound: restarts of docktarr

ASSUME OwnersAssumption == Expected \in Owners /\ Named \subseteq Owners
ASSUME BatchAssumption == BatchSize \in Nat \ {0} /\ MaxFiles \in Nat
ASSUME PermBoundsAssumption == {MaxChanges, MaxSshFaults, MaxPermRestarts} \subseteq Nat

VARIABLES
    owner,      \* of each path
    linked,     \* paths whose file has another link
    conn,       \* SSHClient._conn: none, up, or a connection that is gone
    permPc,
    findings,   \* PermissionReport.findings
    toChown,    \* safe_findings that are still to be repaired
    relinked,   \* history: paths that were linked since the find
    changes, sshFaults, permRestarts

permVars == <<owner, linked, conn, permPc, findings, toChown, relinked,
              changes, sshFaults, permRestarts>>
permBounds == <<changes, sshFaults, permRestarts>>

PermTypeOK ==
    /\ owner \in [Paths -> Owners]
    /\ linked \in SUBSET Paths
    /\ conn \in {"none", "up", "dead"}
    /\ permPc \in {"idle", "find", "chown"}
    /\ findings \in SUBSET Paths
    /\ toChown \in SUBSET findings
    /\ relinked \in SUBSET Paths
    /\ changes \in 0 .. MaxChanges
    /\ sshFaults \in 0 .. MaxSshFaults
    /\ permRestarts \in 0 .. MaxPermRestarts

PermInit ==
    /\ owner = [p \in Paths |-> Expected]
    /\ linked = {}
    /\ conn = "none"
    /\ permPc = "idle"
    /\ findings = {}
    /\ toChown = {}
    /\ relinked = {}
    /\ changes = 0
    /\ sshFaults = 0
    /\ permRestarts = 0

SshFault == sshFaults < MaxSshFaults /\ sshFaults' = sshFaults + 1

EndPermRun == permPc' = "idle" /\ findings' = {} /\ toChown' = {}

-----------------------------------------------------------------------------
(* SSHClient *)

\* A connection is made once and kept.
Connect ==
    /\ permPc = "idle" /\ conn # "dead"
    /\ \/ conn' = "up" /\ permPc' = "find" /\ UNCHANGED sshFaults
       \/ conn = "none" /\ SshFault /\ UNCHANGED <<conn, permPc>>
    /\ UNCHANGED <<owner, linked, findings, toChown, relinked, changes, permRestarts>>

\* What a run finds in place of the one that is gone: nothing replaces it.
Reconnect == UNCHANGED conn

\* A command on a connection that is gone raises, and the run is over.
RunRaises ==
    /\ conn = "dead"
    /\ EndPermRun
    /\ Reconnect
    /\ UNCHANGED <<owner, linked, relinked, permBounds>>

ConnectionDrops ==
    /\ conn = "up"
    /\ SshFault
    /\ conn' = "dead"
    /\ UNCHANGED <<owner, linked, permPc, findings, toChown, relinked, changes, permRestarts>>

-----------------------------------------------------------------------------
(* run_permissions_health *)

Wrong(p) == owner[p] # Expected

\* find prints an owner by name if it has one (%u, %g); the parser takes numbers
\* and passes over the other lines.
Parsed(p) == owner[p] \notin Named

TallyReport == {p \in Paths : Parsed(p) /\ Wrong(p)}

LinkedToo(found) == found

\* Hardlinked files are set aside; too many others are left alone, all of them.
SafeFindings(found) == found \ linked
Repairable(found) == LET safe == SafeFindings(found)
                     IN  IF Cardinality(safe) > MaxFiles THEN {} ELSE safe

ScanPath ==
    /\ permPc = "find" /\ conn = "up"
    /\ findings' = TallyReport
    /\ toChown' = Repairable(findings')
    /\ permPc' = "chown"
    /\ relinked' = {}
    /\ UNCHANGED <<owner, linked, conn, permBounds>>

\* Timed out or with an exit code: an error is reported and nothing is found.
ScanFails ==
    /\ permPc = "find" /\ conn = "up"
    /\ SshFault
    /\ EndPermRun
    /\ UNCHANGED <<owner, linked, conn, relinked, changes, permRestarts>>

FullBatches == IF Cardinality(toChown) < BatchSize THEN {} ELSE kSubset(BatchSize, toChown)

\* All that are left, or as many as fit in a command.
Batches == IF Cardinality(toChown) <= BatchSize THEN {toChown} \ {{}}
           ELSE kSubset(BatchSize, toChown)

Chowned(S) == [p \in Paths |-> IF p \in S THEN Expected ELSE owner[p]]

ChownBatch ==
    /\ permPc = "chown" /\ conn = "up"
    /\ \E batch \in Batches :
         /\ toChown' = toChown \ batch
         /\ \/ owner' = Chowned(batch) /\ UNCHANGED sshFaults
            \/ SshFault /\ \E S \in SUBSET batch : owner' = Chowned(S)
    /\ UNCHANGED <<linked, conn, permPc, findings, relinked, changes, permRestarts>>

EndFixes ==
    /\ permPc = "chown" /\ Batches = {}
    /\ EndPermRun
    /\ UNCHANGED <<owner, linked, conn, relinked, permBounds>>

-----------------------------------------------------------------------------
(* Files change; docktarr restarts *)

Changed == changes < MaxChanges /\ changes' = changes + 1

GiveAway(p, o) ==
    /\ Changed
    /\ o # Expected
    /\ owner' = [owner EXCEPT ![p] = o]
    /\ UNCHANGED <<linked, conn, permPc, findings, toChown, relinked, sshFaults, permRestarts>>

LinkFile(p) ==
    /\ Changed
    /\ p \notin linked
    /\ linked' = linked \cup {p}
    /\ relinked' = relinked \cup {p}
    /\ UNCHANGED <<owner, conn, permPc, findings, toChown, sshFaults, permRestarts>>

UnlinkFile(p) ==
    /\ Changed
    /\ p \in linked
    /\ linked' = linked \ {p}
    /\ UNCHANGED <<owner, conn, permPc, findings, toChown, relinked, sshFaults, permRestarts>>

RestartPerms ==
    /\ permRestarts < MaxPermRestarts
    /\ permRestarts' = permRestarts + 1
    /\ conn' = "none"
    /\ EndPermRun
    /\ UNCHANGED <<owner, linked, relinked, changes, sshFaults>>

PermTick ==
    \/ Connect
    \/ RunRaises
    \/ ScanPath
    \/ ScanFails
    \/ ChownBatch
    \/ EndFixes

PermNext ==
    \/ PermTick
    \/ ConnectionDrops
    \/ \E p \in Paths : (\E o \in Owners : GiveAway(p, o)) \/ LinkFile(p) \/ UnlinkFile(p)
    \/ RestartPerms

PermSpec == PermInit /\ [][PermNext]_permVars

\* The job runs again and again.
PermFairSpec == PermSpec /\ WF_permVars(PermTick)

-----------------------------------------------------------------------------
(* Properties *)

\* A file that has had another link since before the find keeps its owner, whatever
\* is linked and unlinked while the batches run; apply_fixes.
LinkedUntouched ==
    [][\A p \in Paths :
         p \in linked \ relinked /\ owner'[p] = Expected => owner[p] = Expected]_permVars

\* A wrong owner that is a number is given back, as long as the connection lasts,
\* the file is not linked and there are not too many of them.
OwnersRepaired ==
    \A p \in Paths :
        []<>(\/ ~Wrong(p) \/ ~Parsed(p) \/ p \in linked
             \/ Repairable(TallyReport) = {}
             \/ conn = "dead")

\* Scans find every file with the wrong owner.
DriftSeen == [][ScanPath => findings' = {p \in Paths : Wrong(p)}]_permVars

=============================================================================
