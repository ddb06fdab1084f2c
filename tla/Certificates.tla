----------------------------- MODULE Certificates -----------------------------
(***************************************************************************)
(* How one name gets and keeps its certificate: internal/core/identity.go, *)
(* the client records of internal/core/task.go, the enrolment and renewal  *)
(* handlers of internal/control/server.go, Enroll and renew of             *)
(* internal/agent/agent.go and internal/tasks/client.go.                   *)
(*                                                                         *)
(* The name is a Node's or a task client's; names do not interact.  Several *)
(* machines may claim it, each with a key of its own that never leaves it, *)
(* and several processes of a client share its files.  A renewal is three  *)
(* steps of the Controller, authorized, recorded and answered, which the   *)
(* process that asked for it need not live to see.                         *)
(***************************************************************************)
EXTENDS Naturals, FiniteSets, Sequences, SequencesExt

CONSTANTS
    Machines,
    Processes,
    MachineOf,          \* the machine a process runs on
    Nobody,             \* whom a request belongs to whose process gave up
    Invites,
    MaxCerts,           \* bound on the certificates signed
    FaultLimit          \* bound on the faults of a behaviour

ASSUME CertificateInputs ==
    /\ MachineOf \in [Processes -> Machines] /\ Nobody \notin Processes \cup Machines
    /\ MaxCerts \in Nat /\ FaultLimit \in Nat

VARIABLES
    kind,               \* "node" or "client"
    owner,              \* the machine of each certificate signed, in order
    row,                \* the name's row in identities or clients
    graceOver,          \* whether previous_until has passed
    old,                \* certificates up to this one are due for renewal
    invites, enrollments,
    bundle,             \* an approved client certificate not yet installed
    files,              \* how much of its key and CSR a machine has
    pinned,             \* Nodes with ca.pem, clients whose configuration names a Controller
    disk,               \* node.pem or client.pem
    memory,             \* the certificate a process presents
    requests,           \* renewals under way
    contested,          \* history: an approval overtook another machine's renewal
    disturbed,          \* history: an approval met a renewal past authorization
    faults

joining  == <<invites, enrollments, files, pinned>>
ours     == <<disk, memory, requests>>
theirs   == <<owner, row, graceOver>>
history  == <<contested, disturbed>>
certVars == <<kind, theirs, old, joining, bundle, ours, history, faults>>

\* 0 is no certificate.
Certs == 0 .. MaxCerts

Issued == Len(owner)

NoRow == [hash |-> 0, previous |-> 0, revoked |-> FALSE]

Unused == [machine |-> Nobody, cert |-> 0]

Stages == {"sent", "authorized", "answered"}

Requests == [process : Processes \cup {Nobody}, machine : Machines, cert : Certs,
             stage : Stages, fresh : Certs]

\* The records have their types, no certificate is on record or on a disk that
\* was not signed, and a file has the certificate of its machine's key.
CertTypeOK ==
    /\ kind \in {"node", "client"}
    /\ owner \in Seq(Machines) /\ Issued <= MaxCerts
    /\ row \in [hash : 0 .. Issued, previous : 0 .. Issued, revoked : BOOLEAN]
    /\ graceOver \in BOOLEAN /\ old \in 0 .. Issued
    /\ invites \in [Invites -> {"none", "open", "used", "over"}]
    /\ enrollments \in [Invites -> [machine : Machines \cup {Nobody}, cert : 0 .. Issued]]
    /\ files \in [Machines -> {"none", "key", "csr"}] /\ pinned \subseteq Machines
    /\ \A m \in Machines : \A c \in {bundle[m], disk[m]} \ {0} : owner[c] = m
    /\ \A p \in Processes : memory[p] # 0 => owner[memory[p]] = MachineOf[p]
    /\ requests \subseteq Requests
    /\ contested \in BOOLEAN /\ disturbed \in BOOLEAN /\ faults \in 0 .. FaultLimit

CertInit ==
    /\ kind \in {"node", "client"}
    /\ owner = <<>> /\ row = NoRow /\ graceOver = FALSE /\ old = 0
    /\ invites = [i \in Invites |-> "none"]
    /\ enrollments = [i \in Invites |-> Unused]
    /\ bundle = [m \in Machines |-> 0]
    /\ files = [m \in Machines |-> "none"] /\ pinned = {}
    /\ disk = [m \in Machines |-> 0]
    /\ memory = [p \in Processes |-> 0]
    /\ requests = {}
    /\ contested = FALSE /\ disturbed = FALSE /\ faults = 0

Fault == faults < FaultLimit /\ faults' = faults + 1

\* CA.Sign and CA.SignClient
Sign(m) == Issued < MaxCerts /\ owner' = Append(owner, m)

\* AuthorizePeer and AuthorizeClient
Accepted(c) ==
    /\ c # 0 /\ ~row.revoked
    /\ c = row.hash \/ (c = row.previous /\ ~graceOver)

-----------------------------------------------------------------------------
(* Enrolment of a Node.                                                    *)

Invite(i) ==
    /\ kind = "node" /\ invites[i] = "none"
    /\ invites' = [invites EXCEPT ![i] = "open"]
    /\ UNCHANGED <<kind, theirs, old, enrollments, files, pinned, bundle, ours, history, faults>>

\* It expires; a used one does as well.
InviteExpires(i) ==
    /\ invites[i] \in {"open", "used"}
    /\ invites' = [invites EXCEPT ![i] = "over"]
    /\ UNCHANGED <<kind, theirs, old, enrollments, files, pinned, bundle, ours, history, faults>>

\* Enroll and `client init' write the key and then the CSR; once there is a key
\* without a CSR they refuse to go on.
NewKey(m) ==
    /\ files[m] = "none"
    /\ \/ files' = [files EXCEPT ![m] = "csr"] /\ UNCHANGED faults
       \/ files' = [files EXCEPT ![m] = "key"] /\ Fault
    /\ UNCHANGED <<kind, theirs, old, invites, enrollments, pinned, bundle, ours, history>>

\* What Enroll asks for before it posts to /v1/enroll, and Join before it looks
\* at the enrollment: the invitation may be used, but not expired.
MayJoin(m, i) ==
    /\ files[m] = "csr" /\ m \notin pinned /\ disk[m] = 0
    /\ invites[i] \in {"open", "used"}

\* Mutant: whoever knows the invitation and the name is answered.
BoundToName(m, i) == TRUE

\* INVITE_BOUND: the CSR of the enrollment is asked for again.
BoundTo(m, i) == enrollments[i].machine = m

\* Store.Join: an invitation is bound to the first CSR.
Join(m, i) ==
    /\ MayJoin(m, i)
    /\ enrollments[i] = Unused
    /\ enrollments' = [enrollments EXCEPT ![i].machine = m]
    /\ UNCHANGED <<kind, theirs, old, invites, files, pinned, bundle, ours, history, faults>>

\* Store.Approve
Approve(i) ==
    /\ invites[i] = "open"
    /\ enrollments[i].machine # Nobody /\ enrollments[i].cert = 0
    /\ row = NoRow
    /\ Sign(enrollments[i].machine)
    /\ row' = [row EXCEPT !.hash = Issued + 1]
    /\ enrollments' = [enrollments EXCEPT ![i].cert = Issued + 1]
    /\ invites' = [invites EXCEPT ![i] = "used"]
    /\ UNCHANGED <<kind, graceOver, old, files, pinned, bundle, ours, history, faults>>

\* Join again, and Enroll: the CA's certificate is written, and then its own.
Fetch(m, i) ==
    /\ MayJoin(m, i)
    /\ BoundTo(m, i) /\ enrollments[i].cert # 0
    /\ pinned' = pinned \cup {m}
    /\ \/ disk' = [disk EXCEPT ![m] = enrollments[i].cert] /\ UNCHANGED faults
       \/ Fault /\ UNCHANGED disk
    /\ UNCHANGED <<kind, theirs, old, invites, enrollments, files, bundle, memory, requests, history>>

-----------------------------------------------------------------------------
(* Approval of a client.                                                   *)

\* Mutant: the previous certificate of the name stays valid.
ReplacedBesidePrevious(r, c) == [r EXCEPT !.hash = c]

\* What `client approve --replace' leaves of a row.
Replaced(r, c) == [r EXCEPT !.hash = c, !.previous = 0]

\* A renewal of another machine than m was authorized and is still to be recorded:
\* it will take the name back.
Overtakes(m) == \E r \in requests : r.stage = "authorized" /\ r.machine # m

\* A renewal was authorized, or is still to be stored on m itself.
Meets(m) == \E r \in requests :
    r.stage = "authorized" \/ (r.stage = "answered" /\ r.machine = m)

\* Store.ApproveClient: --replace unless the name is new; never when revoked.
ApproveClient(m) ==
    /\ kind = "client" /\ files[m] = "csr"
    /\ ~row.revoked
    /\ Sign(m)
    /\ row' = Replaced(row, Issued + 1)
    /\ bundle' = [bundle EXCEPT ![m] = Issued + 1]
    /\ contested' = Overtakes(m) /\ disturbed' = (disturbed \/ Meets(m))
    /\ UNCHANGED <<kind, graceOver, old, joining, ours, faults>>

\* `client install', once for each approval: certificates in any order, and the
\* configuration last.  Cut off before client.pem it did nothing.
Install(m) ==
    /\ bundle[m] # 0
    /\ disk' = [disk EXCEPT ![m] = bundle[m]]
    /\ bundle' = [bundle EXCEPT ![m] = 0]
    /\ \/ pinned' = pinned \cup {m} /\ UNCHANGED faults
       \/ Fault /\ UNCHANGED pinned
    /\ UNCHANGED <<kind, theirs, old, invites, enrollments, files, memory, requests, history>>

\* The same again, after CLIENT_NOT_APPROVED.
InstallAgain(m) ==
    /\ kind = "client" /\ disk[m] # 0 /\ m \notin pinned
    /\ pinned' = pinned \cup {m}
    /\ UNCHANGED <<kind, theirs, old, invites, enrollments, files, bundle, ours, history, faults>>

\* Revoke and RevokeClient
Revoke ==
    /\ row # NoRow
    /\ row' = [row EXCEPT !.revoked = TRUE]
    /\ UNCHANGED <<kind, owner, graceOver, old, joining, bundle, ours, history, faults>>

-----------------------------------------------------------------------------
(* Processes and renewal.                                                  *)

Siblings(p) == {q \in Processes : MachineOf[q] = MachineOf[p]}

\* NewClient of the Agent, of which there is one, and Open of the task client.
Start(p) ==
    /\ memory[p] = 0 /\ disk[MachineOf[p]] # 0 /\ MachineOf[p] \in pinned
    /\ kind = "node" => \A q \in Siblings(p) : memory[q] = 0
    /\ memory' = [memory EXCEPT ![p] = disk[MachineOf[p]]]
    /\ UNCHANGED <<kind, theirs, old, joining, bundle, disk, requests, history, faults>>

\* Client.call: a process that is refused reloads the files and tries again.
Call(p) ==
    /\ kind = "client" /\ memory[p] # 0
    /\ ~\E r \in requests : r.process = p
    /\ ~Accepted(memory[p])
    /\ memory' = [memory EXCEPT ![p] = disk[MachineOf[p]]]
    /\ UNCHANGED <<kind, theirs, old, joining, bundle, disk, requests, history, faults>>

\* Agent.renew after a successful round, and Client.renew under renew.lock: when
\* the file is due a request goes out, presented with what is in memory;
\* otherwise a client takes over what another process has renewed.
Renew(p) ==
    /\ memory[p] # 0
    /\ ~\E r \in requests : r.process \in Siblings(p)
    /\ kind = "node" => Accepted(memory[p])
    /\ IF disk[MachineOf[p]] <= old
       THEN /\ requests' = requests \cup {[process |-> p, machine |-> MachineOf[p],
                                           cert |-> memory[p], stage |-> "sent", fresh |-> 0]}
            /\ UNCHANGED memory
       ELSE /\ memory' = [memory EXCEPT ![p] = disk[MachineOf[p]]]
            /\ UNCHANGED requests
    /\ UNCHANGED <<kind, theirs, old, joining, bundle, disk, history, faults>>

\* /v1/renew and /v1/client/renew look the peer up.
Authorize(r) ==
    /\ r.stage = "sent"
    /\ requests' = (requests \ {r}) \cup
           (IF Accepted(r.cert) THEN {[r EXCEPT !.stage = "authorized"]} ELSE {})
    /\ UNCHANGED <<kind, theirs, old, joining, bundle, disk, memory, history, faults>>

\* Mutant: a client's previous certificate is forgotten.
RecordedAlone(r, c) == [r EXCEPT !.hash = c]

\* UpdateIdentityCertificate and UpdateClientCertificate
Recorded(r, c) == [r EXCEPT !.hash = c, !.previous = IF kind = "client" THEN r.hash ELSE 0]

\* They sign and record a certificate, and answer.
Record(r) ==
    /\ r.stage = "authorized"
    /\ Sign(r.machine)
    /\ IF row.revoked THEN /\ requests' = requests \ {r}
                           /\ UNCHANGED <<row, graceOver>>
       ELSE /\ row' = Recorded(row, Issued + 1)
            /\ graceOver' = FALSE
            /\ requests' = (requests \ {r}) \cup
                   (IF r.process = Nobody THEN {}
                    ELSE {[r EXCEPT !.stage = "answered", !.fresh = Issued + 1]})
    /\ UNCHANGED <<kind, old, joining, bundle, disk, memory, history, faults>>

\* The answer is written to the file and loaded.
Store(r) ==
    /\ r.stage = "answered"
    /\ disk' = [disk EXCEPT ![r.machine] = r.fresh]
    /\ memory' = [memory EXCEPT ![r.process] = r.fresh]
    /\ requests' = requests \ {r}
    /\ UNCHANGED <<kind, theirs, old, joining, bundle, history, faults>>

\* The process dies or waits no longer, or an answer is lost; what the
\* Controller has begun it finishes.
GiveUp(r) ==
    /\ r.process # Nobody /\ Fault
    /\ requests' = (requests \ {r}) \cup
           (IF r.stage = "answered" THEN {} ELSE {[r EXCEPT !.process = Nobody]})
    /\ UNCHANGED <<kind, theirs, old, joining, bundle, disk, memory, history>>

\* clientRenewalGrace ends, after days: no request lasts as long.
GraceEnds ==
    /\ requests = {} /\ row # NoRow /\ ~graceOver
    /\ graceOver' = TRUE /\ contested' = FALSE
    /\ UNCHANGED <<kind, owner, row, old, joining, bundle, ours, disturbed, faults>>

\* Months pass, and all certificates are due.
Age ==
    /\ requests = {} /\ old < Issued
    /\ old' = Issued /\ graceOver' = TRUE /\ contested' = FALSE
    /\ UNCHANGED <<kind, owner, row, joining, bundle, ours, disturbed, faults>>

-----------------------------------------------------------------------------
Joining ==
    \/ \E i \in Invites : Invite(i) \/ InviteExpires(i) \/ Approve(i)
    \/ \E m \in Machines, i \in Invites : Join(m, i) \/ Fetch(m, i)
    \/ \E m \in Machines : NewKey(m) \/ ApproveClient(m)
                        \/ Install(m) \/ InstallAgain(m)

Renewing ==
    \/ \E p \in Processes : Start(p) \/ Call(p) \/ Renew(p)
    \/ \E r \in requests : Authorize(r) \/ Record(r) \/ Store(r) \/ GiveUp(r)

CertNext == Joining \/ Renewing \/ Revoke \/ GraceEnds \/ Age

CertSpec == CertInit /\ [][CertNext]_certVars

-----------------------------------------------------------------------------
(* Properties.                                                             *)

\* At any time at most one machine holds a certificate the Controller accepts,
\* whatever machines race for invitations or replace each other, and whoever
\* renews: NODE_NAME_EXISTS, INVITE_BOUND, and the previous certificate of
\* ApproveClient and UpdateClientCertificate.  It fails in one order, and not for
\* good: a renewal authorized before another machine's approval and recorded
\* after it takes the name back, and both are accepted until clientRenewalGrace
\* is over or the name is approved again.
OneMachine == ~contested =>
    \A m, n \in Machines : Accepted(disk[m]) /\ Accepted(disk[n]) => m = n

\* clientRenewalGrace, "other processes of the same client keep working": the
\* machine that has the name keeps access with what is on its disk, whichever
\* of its processes renew at once, when at most one of them dies, times out or
\* loses an answer.  A Node has no grace, and keeps access when none is lost.
KeepsAccess ==
    \A m \in Machines :
        /\ disk[m] # 0 /\ bundle[m] = 0
        /\ owner[row.hash] = m /\ ~row.revoked /\ ~disturbed
        /\ faults <= IF kind = "client" /\ ~graceOver THEN 1 ELSE 0
        /\ ~\E r \in requests : r.machine = m /\ r.stage = "answered"
        => Accepted(disk[m])
===============================================================================
