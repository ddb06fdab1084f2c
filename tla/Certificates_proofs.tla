-------------------------- MODULE Certificates_proofs --------------------------
(***************************************************************************)
(* Proofs about the certificates of one name (module Certificates), for    *)
(* any number of machines, processes and invitations, and any bounds.      *)
(*                                                                         *)
(* OneMachine says what the Controller accepts of what is on disks.  It is *)
(* kept because the two certificates of a row are of one machine (OneOwner) *)
(* and every certificate that is kept, presented or under way is of the    *)
(* machine that has or asked for it (OwnersInv), so that a renewal never   *)
(* moves the name.                                                         *)
(*                                                                         *)
(* KeepsAccess needs to know where the name's certificate is (Followed):   *)
(* on the disk, in an answer or in a bundle, or, after the one fault that  *)
(* clientRenewalGrace is for, one renewal ahead of these.                  *)
(***************************************************************************)
EXTENDS Certificates, SequenceTheorems, TLAPS

USE CertificateInputs DEF history

Given == 0 .. Issued

\* The renewals there may be, of certificates that were signed.
Asked == [process : Processes \cup {Nobody}, machine : Machines, cert : Given, stage : Stages,
          fresh : Given]

\* CertTypeOK without its bound on certificates, and with the ranges of the
\* functions.
Shapes ==
    /\ kind \in {"node", "client"}
    /\ owner \in Seq(Machines) /\ Issued <= MaxCerts
    /\ row \in [hash : Given, previous : Given, revoked : BOOLEAN]
    /\ graceOver \in BOOLEAN /\ old \in Given
    /\ invites \in [Invites -> {"none", "open", "used", "over"}]
    /\ enrollments \in [Invites -> [machine : Machines \cup {Nobody}, cert : Given]]
    /\ files \in [Machines -> {"none", "key", "csr"}] /\ pinned \subseteq Machines
    /\ bundle \in [Machines -> Given] /\ disk \in [Machines -> Given]
    /\ memory \in [Processes -> Given]
    /\ requests \subseteq Asked
    /\ contested \in BOOLEAN /\ disturbed \in BOOLEAN /\ faults \in 0 .. FaultLimit

\* Certificate c is none, or the one of m's key.
IsOf(c, m) == c # 0 => owner[c] = m

\* Every certificate is where its machine keeps it or asked for it.
Owners ==
    /\ \A i \in Invites : IsOf(enrollments[i].cert, enrollments[i].machine)
    /\ \A m \in Machines : IsOf(bundle[m], m) /\ IsOf(disk[m], m)
    /\ \A p \in Processes : IsOf(memory[p], MachineOf[p])
    /\ \A r \in requests : /\ IsOf(r.cert, r.machine) /\ IsOf(r.fresh, r.machine)
                           /\ r.process # Nobody => r.machine = MachineOf[r.process]
                           /\ r.stage = "answered" => r.process # Nobody

OwnersInv == Shapes /\ Owners

-----------------------------------------------------------------------------
\* What signing leaves of the certificates signed before.
LEMMA SignKeeps ==
    ASSUME Shapes, NEW m \in Machines, Sign(m)
    PROVE  /\ owner' \in Seq(Machines) /\ Issued' = Issued + 1
           /\ Issued \in Nat /\ Issued' <= MaxCerts
           /\ \A c \in 1 .. Issued : owner'[c] = owner[c]
           /\ owner'[Issued + 1] = m
<1>1. owner \in Seq(Machines) /\ Issued <= MaxCerts
  BY DEF Shapes
<1>2. owner' = Append(owner, m) /\ Issued < MaxCerts
  BY DEF Sign
<1>3. Issued \in Nat
  BY <1>1, LenProperties DEF Issued
<1> QED
  BY <1>1, <1>2, <1>3, AppendProperties DEF Issued

\* The initial states have the shapes, and no certificates.
LEMMA OwnersInit == CertInit => OwnersInv
<1> SUFFICES ASSUME CertInit PROVE OwnersInv
  OBVIOUS
<1> USE DEF CertInit
<1>1. owner \in Seq(Machines) /\ Issued = 0 /\ Given = {0}
  BY DEF Issued, Given
<1>2. Issued <= MaxCerts /\ faults \in 0 .. FaultLimit
  BY <1>1
<1>3. row \in [hash : Given, previous : Given, revoked : BOOLEAN] /\ old \in Given
  BY <1>1 DEF NoRow
<1>4. graceOver \in BOOLEAN /\ contested \in BOOLEAN /\ disturbed \in BOOLEAN
  OBVIOUS
<1>5. /\ enrollments \in [Invites -> [machine : Machines \cup {Nobody}, cert : Given]]
      /\ invites \in [Invites -> {"none", "open", "used", "over"}]
  BY <1>1 DEF Unused
<1>6. /\ bundle \in [Machines -> Given] /\ disk \in [Machines -> Given]
      /\ memory \in [Processes -> Given]
      /\ files \in [Machines -> {"none", "key", "csr"}] /\ pinned \subseteq Machines
  BY <1>1
<1>7. Owners
  BY DEF Owners, IsOf, Unused
<1> QED
  BY <1>1, <1>2, <1>3, <1>4, <1>5, <1>6, <1>7 DEF OwnersInv, Shapes

\* What holds of every certificate and of the records stays so when nothing is
\* signed.
LEMMA UnsignedKeeps ==
    ASSUME OwnersInv, UNCHANGED owner
    PROVE  /\ Issued' = Issued /\ Given' = Given /\ Asked' = Asked
           /\ 0 \in Given /\ Issued \in Given
           /\ owner' \in Seq(Machines) /\ Issued' <= MaxCerts
<1>1. owner \in Seq(Machines) /\ Issued <= MaxCerts
  BY DEF OwnersInv, Shapes
<1>2. Issued \in Nat
  BY <1>1, LenProperties DEF Issued
<1> QED
  BY <1>1, <1>2 DEF Given, Issued, Asked

\* A step that signs nothing: only the records have to be looked at.
LEMMA UnsignedSteps ==
    ASSUME OwnersInv, UNCHANGED owner,
           \/ \E i \in Invites : Invite(i) \/ InviteExpires(i)
           \/ \E m \in Machines, i \in Invites : Join(m, i) \/ Fetch(m, i)
           \/ \E m \in Machines : NewKey(m) \/ Install(m) \/ InstallAgain(m)
           \/ \E p \in Processes : Start(p) \/ Call(p) \/ Renew(p)
           \/ \E r \in requests : Authorize(r) \/ Store(r) \/ GiveUp(r)
           \/ Revoke \/ GraceEnds \/ Age
           \/ UNCHANGED certVars
    PROVE  OwnersInv'
<1> USE DEF OwnersInv, theirs, joining, ours, Fault
<1>0. /\ Issued' = Issued /\ Given' = Given /\ Asked' = Asked
      /\ 0 \in Given /\ Issued \in Given
      /\ owner' \in Seq(Machines) /\ Issued' <= MaxCerts
  BY UnsignedKeeps
<1> USE <1>0
<1>1. CASE \E i \in Invites : Invite(i)
  <2>1. Shapes'
    BY <1>1 DEF Shapes, Invite
  <2>2. Owners'
    BY <1>1 DEF Shapes, Owners, IsOf, Invite
  <2> QED
    BY <2>1, <2>2
<1>2. CASE \E i \in Invites : InviteExpires(i)
  <2>1. Shapes'
    BY <1>2 DEF Shapes, InviteExpires
  <2>2. Owners'
    BY <1>2 DEF Shapes, Owners, IsOf, InviteExpires
  <2> QED
    BY <2>1, <2>2
<1>3. CASE \E m \in Machines, i \in Invites : Join(m, i)
  <2>1. Shapes'
    BY <1>3 DEF Shapes, Join, Unused
  <2>2. Owners'
    BY <1>3 DEF Shapes, Owners, IsOf, Join, Unused
  <2> QED
    BY <2>1, <2>2
<1>4. CASE \E m \in Machines, i \in Invites : Fetch(m, i)
  <2>1. Shapes'
    BY <1>4 DEF Shapes, Fetch, BoundTo
  <2>2. Owners'
    BY <1>4 DEF Shapes, Owners, IsOf, Fetch, BoundTo
  <2> QED
    BY <2>1, <2>2
<1>5. CASE \E m \in Machines : NewKey(m)
  <2>1. Shapes'
    BY <1>5 DEF Shapes, NewKey
  <2>2. Owners'
    BY <1>5 DEF Shapes, Owners, IsOf, NewKey
  <2> QED
    BY <2>1, <2>2
<1>6. CASE \E m \in Machines : Install(m) \/ InstallAgain(m)
  <2>1. ASSUME NEW m \in Machines, Install(m) PROVE OwnersInv'
    <3>1. disk' \in [Machines -> Given] /\ bundle' \in [Machines -> Given]
      BY <2>1 DEF Shapes, Install
    <3>2. pinned' \subseteq Machines /\ faults' \in 0 .. FaultLimit
      BY <2>1 DEF Shapes, Install
    <3>3. Shapes'
      BY <2>1, <3>1, <3>2 DEF Shapes, Install
    <3>4. Owners'
      BY <2>1 DEF Shapes, Owners, IsOf, Install
    <3> QED
      BY <3>3, <3>4
  <2>2. ASSUME NEW m \in Machines, InstallAgain(m) PROVE OwnersInv'
    <3>1. Shapes' /\ Owners'
      BY <2>2 DEF Shapes, Owners, IsOf, InstallAgain
    <3> QED
      BY <3>1
  <2> QED
    BY <1>6, <2>1, <2>2
<1>7. CASE \E p \in Processes : Start(p)
  <2>1. Shapes'
    BY <1>7 DEF Shapes, Start
  <2>2. Owners'
    BY <1>7 DEF Shapes, Owners, IsOf, Start
  <2> QED
    BY <2>1, <2>2
<1>8. CASE \E p \in Processes : Call(p)
  <2>1. Shapes'
    BY <1>8 DEF Shapes, Call
  <2>2. Owners'
    BY <1>8 DEF Shapes, Owners, IsOf, Call
  <2> QED
    BY <2>1, <2>2
<1>9. CASE \E p \in Processes : Renew(p)
  <2>1. PICK p \in Processes : Renew(p)
    BY <1>9
  <2>2. Shapes'
    <3>1. MachineOf[p] \in Machines /\ memory[p] \in Given /\ disk[MachineOf[p]] \in Given
      BY DEF Shapes
    <3>2. [process |-> p, machine |-> MachineOf[p], cert |-> memory[p], stage |-> "sent",
           fresh |-> 0] \in Asked
      BY <3>1 DEF Asked, Stages
    <3>3. requests' \subseteq Asked /\ memory' \in [Processes -> Given]
      BY <2>1, <3>1, <3>2 DEF Renew, Shapes
    <3> QED
      BY <2>1, <3>3 DEF Renew, Shapes, Asked
  <2>3. Owners'
    BY <2>1 DEF Shapes, Owners, IsOf, Renew, Stages
  <2> QED
    BY <2>2, <2>3
<1>10. CASE \E r \in requests : Authorize(r)
  <2>1. PICK r \in requests : Authorize(r)
    BY <1>10
  <2>2. Shapes'
    <3>1. r \in Asked /\ requests \subseteq Asked
      BY DEF Shapes
    <3>2. [r EXCEPT !.stage = "authorized"] \in Asked
      BY <3>1 DEF Asked, Stages
    <3>3. requests' \subseteq requests \cup {[r EXCEPT !.stage = "authorized"]}
      BY <2>1 DEF Authorize
    <3>4. requests' \subseteq Asked
      BY <3>1, <3>2, <3>3
    <3> QED
      BY <2>1, <3>4 DEF Shapes, Authorize
  <2> DEFINE q == [r EXCEPT !.stage = "authorized"]
  <2>3. /\ q.stage = "authorized" /\ q.process = r.process /\ q.machine = r.machine
        /\ q.cert = r.cert /\ q.fresh = r.fresh
    BY DEF Shapes, Asked
  <2>4. requests' \subseteq requests \cup {q}
    BY <2>1 DEF Authorize
  <2> HIDE DEF q
  <2>5. Owners'
    BY <2>1, <2>3, <2>4 DEF Owners, IsOf, Authorize
  <2> QED
    BY <2>2, <2>5
<1>11. CASE \E r \in requests : Store(r)
  <2>1. Shapes'
    BY <1>11 DEF Shapes, Asked, Store
  <2>2. Owners'
    BY <1>11 DEF Shapes, Owners, IsOf, Store
  <2> QED
    BY <2>1, <2>2
<1>12. CASE \E r \in requests : GiveUp(r)
  <2>1. Shapes'
    BY <1>12 DEF Shapes, Asked, GiveUp, Stages
  <2>2. Owners'
    BY <1>12 DEF Shapes, Owners, IsOf, GiveUp, Stages, Asked
  <2> QED
    BY <2>1, <2>2
<1>13. CASE Revoke
  <2>1. Shapes'
    BY <1>13 DEF Shapes, Revoke
  <2>2. Owners'
    BY <1>13 DEF Shapes, Owners, IsOf, Revoke
  <2> QED
    BY <2>1, <2>2
<1>14. CASE GraceEnds
  <2>1. Shapes'
    BY <1>14 DEF Shapes, GraceEnds
  <2>2. Owners'
    BY <1>14 DEF Shapes, Owners, IsOf, GraceEnds
  <2> QED
    BY <2>1, <2>2
<1>15. CASE Age
  <2>1. Shapes'
    BY <1>15 DEF Shapes, Age
  <2>2. Owners'
    BY <1>15 DEF Shapes, Owners, IsOf, Age
  <2> QED
    BY <2>1, <2>2
<1>16. CASE UNCHANGED certVars
  <2>1. Shapes'
    BY <1>16 DEF Shapes, certVars
  <2>2. Owners'
    BY <1>16 DEF Shapes, Owners, IsOf, certVars
  <2> QED
    BY <2>1, <2>2
<1> QED
  BY <1>1, <1>2, <1>3, <1>4, <1>5, <1>6, <1>7, <1>8, <1>9, <1>10, <1>11, <1>12, <1>13, <1>14, <1>15, <1>16

\* When a certificate is signed, everything there is still has its shape, and is
\* of its machine.
LEMMA SigningKeeps ==
    ASSUME OwnersInv, NEW m \in Machines, Sign(m)
    PROVE  /\ Issued' = Issued + 1 /\ owner' \in Seq(Machines) /\ Issued' <= MaxCerts
           /\ {0, Issued + 1} \subseteq Given' /\ owner'[Issued + 1] = m
           /\ row \in [hash : Given', previous : Given', revoked : BOOLEAN] /\ old \in Given'
           /\ enrollments \in [Invites -> [machine : Machines \cup {Nobody}, cert : Given']]
           /\ bundle \in [Machines -> Given'] /\ disk \in [Machines -> Given']
           /\ memory \in [Processes -> Given']
           /\ requests \subseteq Asked'
           /\ \A c \in Given : c # 0 => owner'[c] = owner[c]
           /\ Issued + 1 # 0
<1>1. /\ Issued \in Nat /\ Issued' = Issued + 1
      /\ \A c \in 1 .. Issued : owner'[c] = owner[c]
      /\ owner' \in Seq(Machines) /\ Issued' <= MaxCerts
      /\ owner'[Issued + 1] = m
  BY SignKeeps DEF OwnersInv
<1>2. Given' = 0 .. Issued'
  BY DEF Given
<1>3. Given \subseteq Given' /\ {0, Issued + 1} \subseteq Given'
  BY <1>1, <1>2 DEF Given
<1>4. \A c \in Given : c # 0 => owner'[c] = owner[c]
  BY <1>1 DEF Given
<1>5. Asked \subseteq Asked'
  BY <1>3 DEF Asked
<1>6. row \in [hash : Given', previous : Given', revoked : BOOLEAN] /\ old \in Given'
  BY <1>3 DEF OwnersInv, Shapes
<1>7. enrollments \in [Invites -> [machine : Machines \cup {Nobody}, cert : Given']]
  BY <1>3 DEF OwnersInv, Shapes
<1>8. /\ bundle \in [Machines -> Given'] /\ disk \in [Machines -> Given']
      /\ memory \in [Processes -> Given'] /\ requests \subseteq Asked'
  BY <1>3, <1>5 DEF OwnersInv, Shapes
<1> QED
  BY <1>1, <1>3, <1>4, <1>6, <1>7, <1>8

\* A certificate is signed for the machine that asks, and no row loses its owner.
LEMMA SigningKeepsOwners ==
    ASSUME OwnersInv, NEW m \in Machines, Sign(m)
    PROVE  /\ \A i \in Invites : enrollments[i].cert # 0
                => owner'[enrollments[i].cert] = enrollments[i].machine
           /\ \A n \in Machines : bundle[n] # 0 => owner'[bundle[n]] = n
           /\ \A n \in Machines : disk[n] # 0 => owner'[disk[n]] = n
           /\ \A p \in Processes : memory[p] # 0 => owner'[memory[p]] = MachineOf[p]
           /\ \A r \in requests : /\ r.cert # 0 => owner'[r.cert] = r.machine
                                  /\ r.fresh # 0 => owner'[r.fresh] = r.machine
<1>1. \A c \in Given : c # 0 => owner'[c] = owner[c]
  BY SigningKeeps
<1>2. \A i \in Invites : enrollments[i].cert \in Given
  BY DEF OwnersInv, Shapes
<1>3. \A n \in Machines : bundle[n] \in Given /\ disk[n] \in Given
  BY DEF OwnersInv, Shapes
<1>4. \A p \in Processes : memory[p] \in Given
  BY DEF OwnersInv, Shapes
<1>5. \A r \in requests : r.cert \in Given /\ r.fresh \in Given
  BY DEF OwnersInv, Shapes, Asked
<1> QED
  BY <1>1, <1>2, <1>3, <1>4, <1>5 DEF OwnersInv, Owners, IsOf

\* An approval: the enrollment gets the certificate.
LEMMA ApproveStep ==
    ASSUME OwnersInv, NEW i \in Invites, Approve(i) PROVE OwnersInv'
<1> DEFINE m == enrollments[i].machine
           c == Issued + 1
<1>1. m \in Machines /\ Sign(m)
  BY DEF OwnersInv, Shapes, Approve
<1>2. /\ Issued' = c /\ owner' \in Seq(Machines) /\ Issued' <= MaxCerts
      /\ {0, c} \subseteq Given' /\ owner'[c] = m
      /\ row \in [hash : Given', previous : Given', revoked : BOOLEAN] /\ old \in Given'
      /\ enrollments \in [Invites -> [machine : Machines \cup {Nobody}, cert : Given']]
      /\ bundle \in [Machines -> Given'] /\ disk \in [Machines -> Given']
      /\ memory \in [Processes -> Given'] /\ requests \subseteq Asked'
      /\ \A d \in Given : d # 0 => owner'[d] = owner[d]
  BY <1>1, SigningKeeps
<1>3. /\ row' = [row EXCEPT !.hash = c]
      /\ enrollments' = [enrollments EXCEPT ![i].cert = c]
      /\ invites' = [invites EXCEPT ![i] = "used"]
      /\ UNCHANGED <<kind, graceOver, old, files, pinned, bundle, ours, history, faults>>
  BY DEF Approve
<1> HIDE DEF c
<1>4. row' \in [hash : Given', previous : Given', revoked : BOOLEAN]
  BY <1>2, <1>3
<1>5. enrollments' \in [Invites -> [machine : Machines \cup {Nobody}, cert : Given']]
  <2>1. [enrollments[i] EXCEPT !.cert = c] \in [machine : Machines \cup {Nobody}, cert : Given']
    BY <1>2
  <2> QED
    BY <1>2, <1>3, <2>1
<1>6. Shapes'
  BY <1>2, <1>3, <1>4, <1>5 DEF OwnersInv, Shapes, ours
<1>7. Owners'
  BY <1>1, <1>2, <1>3, SigningKeepsOwners DEF OwnersInv, Shapes, Owners, IsOf, ours
<1> QED
  BY <1>6, <1>7 DEF OwnersInv

\* The row of a client, and the bundle of the machine that is approved.
LEMMA ApproveClientStep ==
    ASSUME OwnersInv, NEW m \in Machines, ApproveClient(m) PROVE OwnersInv'
<1> DEFINE c == Issued + 1
<1>1. Sign(m)
  BY DEF ApproveClient
<1>2. /\ Issued' = c /\ owner' \in Seq(Machines) /\ Issued' <= MaxCerts
      /\ {0, c} \subseteq Given' /\ owner'[c] = m
      /\ row \in [hash : Given', previous : Given', revoked : BOOLEAN] /\ old \in Given'
      /\ enrollments \in [Invites -> [machine : Machines \cup {Nobody}, cert : Given']]
      /\ bundle \in [Machines -> Given'] /\ disk \in [Machines -> Given']
      /\ memory \in [Processes -> Given'] /\ requests \subseteq Asked'
      /\ \A d \in Given : d # 0 => owner'[d] = owner[d]
  BY <1>1, SigningKeeps
<1>3. /\ row' = [row EXCEPT !.hash = c, !.previous = 0]
      /\ bundle' = [bundle EXCEPT ![m] = c]
      /\ contested' \in BOOLEAN /\ disturbed' \in BOOLEAN
      /\ UNCHANGED <<kind, graceOver, old, joining, ours, faults>>
  BY DEF ApproveClient, Replaced, Overtakes, Meets, OwnersInv, Shapes
<1> HIDE DEF c
<1>4. row' \in [hash : Given', previous : Given', revoked : BOOLEAN]
  BY <1>2, <1>3
<1>5. bundle' \in [Machines -> Given']
  BY <1>2, <1>3
<1>6. Shapes'
  BY <1>2, <1>3, <1>4, <1>5 DEF OwnersInv, Shapes, joining, ours
<1>7. Owners'
  BY <1>1, <1>2, <1>3, SigningKeepsOwners DEF OwnersInv, Shapes, Owners, IsOf, joining, ours
<1> QED
  BY <1>6, <1>7 DEF OwnersInv

\* A renewal signs for the machine that asked.
LEMMA RecordStep ==
    ASSUME OwnersInv, NEW r \in requests, Record(r) PROVE OwnersInv'
<1> DEFINE c == Issued + 1
           answer == [r EXCEPT !.stage = "answered", !.fresh = c]
<1>1. r \in Asked /\ r.machine \in Machines /\ Sign(r.machine)
  BY DEF OwnersInv, Shapes, Record, Asked
<1>2. /\ Issued' = c /\ owner' \in Seq(Machines) /\ Issued' <= MaxCerts
      /\ {0, c} \subseteq Given' /\ owner'[c] = r.machine
      /\ row \in [hash : Given', previous : Given', revoked : BOOLEAN] /\ old \in Given'
      /\ enrollments \in [Invites -> [machine : Machines \cup {Nobody}, cert : Given']]
      /\ bundle \in [Machines -> Given'] /\ disk \in [Machines -> Given']
      /\ memory \in [Processes -> Given'] /\ requests \subseteq Asked'
      /\ \A d \in Given : d # 0 => owner'[d] = owner[d]
  BY <1>1, SigningKeeps
<1>3. /\ row' = row \/ row' = [row EXCEPT !.hash = c, !.previous = row.hash]
                    \/ row' = [row EXCEPT !.hash = c, !.previous = 0]
      /\ graceOver' \in {graceOver, FALSE}
      /\ requests' \subseteq requests \cup (IF r.process = Nobody THEN {} ELSE {answer})
      /\ UNCHANGED <<kind, old, joining, bundle, disk, memory, history, faults>>
  BY DEF Record, Recorded
<1>4. answer \in Asked' /\ answer.fresh = c
      /\ answer.machine = r.machine /\ answer.cert = r.cert /\ answer.process = r.process
  BY <1>1, <1>2 DEF Asked, Stages
<1>5. r.process # Nobody => r.machine = MachineOf[r.process]
  BY DEF OwnersInv, Owners
<1> HIDE DEF c, answer
<1>6. row' \in [hash : Given', previous : Given', revoked : BOOLEAN]
  BY <1>2, <1>3
<1>7. requests' \subseteq Asked' /\ graceOver' \in BOOLEAN
  BY <1>2, <1>3, <1>4 DEF OwnersInv, Shapes
<1>8. Shapes'
  BY <1>2, <1>3, <1>6, <1>7 DEF OwnersInv, Shapes, joining
<1>9. Owners'
  BY <1>1, <1>2, <1>3, <1>4, <1>5, SigningKeepsOwners DEF OwnersInv, Owners, IsOf, joining
<1> QED
  BY <1>8, <1>9 DEF OwnersInv

\* Every step keeps the shapes and the owners.
LEMMA OwnersStep ==
    ASSUME OwnersInv, [CertNext]_certVars PROVE OwnersInv'
<1>1. CASE \E i \in Invites : Approve(i)
  BY <1>1, ApproveStep
<1>2. CASE \E m \in Machines : ApproveClient(m)
  BY <1>2, ApproveClientStep
<1>3. CASE \E r \in requests : Record(r)
  BY <1>3, RecordStep
<1>4. CASE \E i \in Invites : Invite(i) \/ InviteExpires(i)
  BY <1>4, UnsignedSteps DEF Invite, InviteExpires, theirs
<1>5. CASE \E m \in Machines, i \in Invites : Join(m, i) \/ Fetch(m, i)
  BY <1>5, UnsignedSteps DEF Join, Fetch, theirs
<1>6. CASE \E m \in Machines : NewKey(m) \/ Install(m) \/ InstallAgain(m)
  BY <1>6, UnsignedSteps DEF NewKey, Install, InstallAgain, theirs
<1>7. CASE \E p \in Processes : Start(p) \/ Call(p) \/ Renew(p)
  BY <1>7, UnsignedSteps DEF Start, Call, Renew, theirs
<1>8. CASE \E r \in requests : Authorize(r) \/ Store(r) \/ GiveUp(r)
  BY <1>8, UnsignedSteps DEF Authorize, Store, GiveUp, theirs
<1>9. CASE Revoke \/ GraceEnds \/ Age \/ UNCHANGED certVars
  BY <1>9, UnsignedSteps DEF Revoke, GraceEnds, Age, certVars, theirs
<1> QED
  BY <1>1, <1>2, <1>3, <1>4, <1>5, <1>6, <1>7, <1>8, <1>9 DEF CertNext, Joining, Renewing

\* Types of the records, and that what a machine has on disk, in memory or in a
\* bundle was signed for its own key, for any number of certificates.
THEOREM CertificateTypes == CertSpec => []CertTypeOK
<1>1. OwnersInv => CertTypeOK
  <2> SUFFICES ASSUME OwnersInv PROVE CertTypeOK
    OBVIOUS
  <2>1. Issued \in Nat /\ Given \subseteq Certs
    BY LenProperties DEF OwnersInv, Shapes, Issued, Given, Certs
  <2> QED
    BY <2>1 DEF OwnersInv, Shapes, Owners, IsOf, CertTypeOK, Requests, Given, Asked
<1>2. CertSpec => []OwnersInv
  BY OwnersInit, OwnersStep, PTL DEF CertSpec
<1> QED
  BY <1>1, <1>2, PTL

-----------------------------------------------------------------------------
(* One machine has the name.                                               *)

\* Both certificates of the row, and every renewal that is authorized, are of
\* the machine that has the name.
OneOwner ==
    /\ contested => disturbed
    /\ ~contested =>
          /\ row.previous # 0 /\ ~graceOver =>
                row.hash # 0 /\ owner[row.previous] = owner[row.hash]
          /\ \A r \in requests :
                r.stage = "authorized" => row.hash # 0 /\ owner[row.hash] = r.machine

\* Every step keeps it; an approval that overtakes a renewal ends it, until the
\* next approval or the end of the grace.
LEMMA OneOwnerStep ==
    ASSUME OwnersInv, OneOwner, [CertNext]_certVars PROVE OneOwner'
<1> USE DEF OneOwner
<1>0. Shapes /\ Owners
  BY DEF OwnersInv
<1>1. ASSUME NEW i \in Invites, Approve(i) PROVE OneOwner'
  <2>1. /\ enrollments[i].machine \in Machines /\ Sign(enrollments[i].machine)
        /\ row'.previous = 0 /\ row.hash = 0
    BY <1>0, <1>1 DEF Approve, Shapes, NoRow
  <2> QED
    BY <1>1, <2>1 DEF Approve, ours
<1>2. ASSUME NEW m \in Machines, ApproveClient(m) PROVE OneOwner'
  <2>1. /\ m \in Machines /\ Sign(m) /\ UNCHANGED requests
        /\ row'.hash = Issued + 1 /\ row'.previous = 0
        /\ contested' <=> Overtakes(m)
        /\ Overtakes(m) => disturbed'
    BY <1>0, <1>2 DEF ApproveClient, ours, Shapes, Replaced, Overtakes, Meets
  <2>2. Issued \in Nat /\ owner'[Issued + 1] = m
    BY <1>0, <2>1, SignKeeps
  <2>3. ~Overtakes(m) => \A r \in requests : r.stage = "authorized" => r.machine = m
    BY DEF Overtakes
  <2> HIDE DEF Overtakes
  <2> QED
    BY <2>1, <2>2, <2>3
<1>3. ASSUME NEW r \in requests, Record(r) PROVE OneOwner'
  <2>1. /\ r.machine \in Machines /\ Sign(r.machine) /\ r.stage = "authorized"
        /\ contested' = contested /\ disturbed' = disturbed
    BY <1>0, <1>3 DEF Record, Shapes, Asked
  <2>2. /\ Issued \in Nat /\ owner'[Issued + 1] = r.machine
        /\ \A c \in 1 .. Issued : owner'[c] = owner[c]
    BY <1>0, <2>1, SignKeeps
  <2>3. row.hash \in 0 .. Issued /\ row.previous \in 0 .. Issued
    BY <1>0 DEF Shapes, Given
  <2>4. CASE row.revoked
    BY <1>0, <1>3, <2>1, <2>2, <2>3, <2>4 DEF Record
  <2>5. CASE ~row.revoked
    <3>1. row'.hash = Issued + 1 /\ row'.previous \in {0, row.hash}
      BY <1>0, <1>3, <2>5 DEF Record, Recorded, Shapes, Asked
    <3>2. [r EXCEPT !.stage = "answered", !.fresh = Issued + 1].stage = "answered"
      BY <1>0, <1>3 DEF Shapes, Asked
    <3>3. \A q \in requests' : q.stage = "authorized" => q \in requests
      BY <1>3, <2>5, <3>2 DEF Record
    <3> QED
      BY <2>1, <2>2, <2>3, <3>1, <3>3
  <2> QED
    BY <2>4, <2>5
<1>4. ASSUME NEW r \in requests, Authorize(r) PROVE OneOwner'
  <2>1. Accepted(r.cert) /\ ~contested => row.hash # 0 /\ owner[row.hash] = r.machine
    BY <1>0 DEF Accepted, Owners, IsOf
  <2> QED
    BY <1>0, <1>4, <2>1 DEF Authorize, theirs, Shapes, Asked
<1>5. CASE \E i \in Invites : Invite(i) \/ InviteExpires(i)
  BY <1>5 DEF Invite, InviteExpires, theirs, ours
<1>6. CASE \E m \in Machines, i \in Invites : Join(m, i) \/ Fetch(m, i)
  BY <1>6 DEF Join, Fetch, theirs, ours
<1>7. CASE \E m \in Machines : NewKey(m) \/ Install(m) \/ InstallAgain(m)
  BY <1>7 DEF NewKey, Install, InstallAgain, theirs, ours
<1>8. CASE \E p \in Processes : Start(p) \/ Call(p) \/ Renew(p)
  BY <1>8 DEF Start, Call, Renew, theirs
<1>9. ASSUME NEW r \in requests, Store(r) \/ GiveUp(r) PROVE OneOwner'
  <2>1. LET q == [r EXCEPT !.process = Nobody] IN q.stage = r.stage /\ q.machine = r.machine
    BY <1>0 DEF Shapes, Asked
  <2>2. UNCHANGED <<owner, row, graceOver, contested, disturbed>>
    BY <1>9 DEF Store, GiveUp, theirs
  <2>3. \A q \in requests' : q.stage = "authorized" =>
           \E s \in requests : s.stage = "authorized" /\ s.machine = q.machine
    BY <1>9, <2>1 DEF Store, GiveUp
  <2> QED
    BY <2>2, <2>3
<1>10. CASE Revoke \/ GraceEnds \/ Age \/ UNCHANGED certVars
  BY <1>0, <1>10 DEF Revoke, GraceEnds, Age, certVars, theirs, ours, Shapes, Asked
<1> QED
  BY <1>1, <1>2, <1>3, <1>4, <1>5, <1>6, <1>7, <1>8, <1>9, <1>10 DEF CertNext, Joining, Renewing

\* What the Controller accepts is of the machine that has the name, so that no
\* two machines hold it at once, however many race for it, renew and replace each
\* other, until an approval overtakes another machine's renewal; and again once
\* the grace is over or the name is approved anew.
THEOREM OneMachineKept == CertSpec => []OneMachine
<1>1. CertInit => OneOwner
  BY DEF CertInit, OneOwner, NoRow
<1>2. OwnersInv /\ OneOwner => OneMachine
  BY DEF OwnersInv, Owners, IsOf, OneOwner, OneMachine, Accepted
<1> QED
  BY OwnersInit, OwnersStep, OneOwnerStep, <1>1, <1>2, PTL DEF CertSpec

-----------------------------------------------------------------------------
(* The machine that has the name keeps access.                             *)

Orphan(r) == r.process = Nobody

NoOrphan == \A r \in requests : ~Orphan(r)

\* A client is never invited.
Invited == kind = "client" => \A i \in Invites : invites[i] = "none"

\* A name without a certificate is without a row.
RowKnown == row.hash = 0 => row = NoRow /\ Issued = 0

\* One machine has one renewal under way, and one more for every fault.
OneAtATime ==
    /\ \A r, s \in requests :
          r.machine = s.machine /\ ~Orphan(r) /\ ~Orphan(s) => r = s
    /\ faults <= 1 => \A r, s \in requests : Orphan(r) /\ Orphan(s) => r = s
    /\ faults = 0 => NoOrphan

\* What a machine presents is not newer than what is on its disk; what it has
\* still to fetch, install or store is newer, and then it has nothing under way
\* that could be recorded.
NewestOnDisk == ~disturbed =>
    /\ \A p \in Processes : memory[p] <= disk[MachineOf[p]]
    /\ \A r \in requests :
          /\ r.cert # 0 /\ r.cert <= disk[r.machine]
          /\ r.stage = "answered" => disk[r.machine] < r.fresh
    /\ \A i \in Invites : enrollments[i].cert # 0 =>
          /\ kind = "node"
          /\ disk[enrollments[i].machine] = 0 => row.hash = enrollments[i].cert
    /\ \A m \in Machines : bundle[m] # 0 =>
          /\ kind = "client" /\ disk[m] < bundle[m]
          /\ owner[row.hash] = m => row.hash = bundle[m] /\ row.previous = 0
          /\ \A r \in requests : r.machine = m => r.stage = "sent"

Tolerated == IF kind = "client" THEN 1 ELSE 0

Has(m) == row.hash # 0 /\ owner[row.hash] = m /\ bundle[m] = 0 /\ disk[m] # 0

\* An answer on its way carries the name's certificate, or the previous one when
\* a renewal whose process gave up was recorded after it.
AnswerKnown(r) ==
    /\ \/ row.hash = r.fresh
       \/ /\ faults = 1 /\ row.previous = r.fresh /\ r.fresh < row.hash
          /\ NoOrphan /\ ~graceOver
    /\ faults = 0 /\ kind = "client" => row.previous = disk[r.machine]

\* The disk has the name's certificate, or the previous one when a newer was
\* lost; once that is over the machine can have nothing recorded.
DiskKnown(m) ==
    \/ row.hash = disk[m]
    \/ /\ faults = 1 /\ row.previous = disk[m] /\ disk[m] < row.hash /\ NoOrphan
       /\ graceOver => \A r \in requests : r.machine = m => r.stage = "sent"

Followed == ~disturbed /\ ~row.revoked /\ faults <= Tolerated =>
    \A m \in Machines : Has(m) =>
        /\ \A r \in requests : r.machine = m /\ r.stage = "answered" => AnswerKnown(r)
        /\ (\A r \in requests : r.machine = m => r.stage # "answered") => DiskKnown(m)

AccessInv == RowKnown /\ OneAtATime /\ NewestOnDisk /\ Followed

\* The shapes, as far as the steps of this argument need them.
LEMMA CertFacts ==
    ASSUME OwnersInv
    PROVE  /\ Issued \in Nat /\ faults \in Nat /\ old \in Nat
           /\ kind \in {"node", "client"} /\ disturbed \in BOOLEAN
           /\ row.hash \in 0 .. Issued /\ row.previous \in 0 .. Issued
           /\ row.revoked \in BOOLEAN
           /\ row = [hash |-> row.hash, previous |-> row.previous, revoked |-> row.revoked]
           /\ \A m \in Machines : disk[m] \in 0 .. Issued /\ bundle[m] \in 0 .. Issued
           /\ \A p \in Processes : memory[p] \in 0 .. Issued /\ MachineOf[p] \in Machines
           /\ \A i \in Invites : /\ enrollments[i].cert \in 0 .. Issued
                                 /\ enrollments[i].cert # 0 => enrollments[i].machine \in Machines
           /\ \A r \in requests : /\ r.cert \in 0 .. Issued /\ r.fresh \in 0 .. Issued
                                  /\ r.machine \in Machines /\ r.stage \in Stages
                                  /\ ~Orphan(r) => r.process \in Processes
                                                   /\ r.machine = MachineOf[r.process]
<1>1. Issued \in Nat
  BY LenProperties DEF OwnersInv, Shapes, Issued
<1>2. \A c \in 1 .. Issued : owner[c] \in Machines
  BY ElementOfSeq DEF OwnersInv, Shapes, Issued
<1>3. \A i \in Invites : /\ enrollments[i].cert \in 0 .. Issued
                        /\ enrollments[i].cert # 0 => enrollments[i].machine \in Machines
  <2> SUFFICES ASSUME NEW i \in Invites
               PROVE  /\ enrollments[i].cert \in 0 .. Issued
                      /\ enrollments[i].cert # 0 => enrollments[i].machine \in Machines
    OBVIOUS
  <2>1. enrollments[i].cert \in 0 .. Issued
    BY DEF OwnersInv, Shapes, Given
  <2>2. enrollments[i].cert # 0 => enrollments[i].cert \in 1 .. Issued
    BY <1>1, <2>1
  <2> QED
    BY <1>2, <2>1, <2>2 DEF OwnersInv, Owners, IsOf
<1> QED
  BY <1>1, <1>3 DEF OwnersInv, Shapes, Given, Asked, Owners, Orphan

\* Nothing is under way in the beginning.
LEMMA AccessInit == CertInit => AccessInv
<1> SUFFICES ASSUME CertInit PROVE AccessInv
  OBVIOUS
<1> QED
  BY DEF CertInit, NoRow, Unused, Issued, AccessInv, RowKnown, OneAtATime, NewestOnDisk,
         Followed, Has, NoOrphan

\* What leaves certificates, requests and the row alone.
LEMMA QuietSteps ==
    ASSUME OwnersInv, AccessInv,
           UNCHANGED <<kind, owner, row, requests, disk, memory, bundle, disturbed>>,
           \A i \in Invites : enrollments'[i] = enrollments[i] \/ enrollments'[i].cert = 0,
           faults' \in {faults, faults + 1},
           graceOver' = graceOver \/ requests = {}
    PROVE  AccessInv'
<1> USE CertFacts DEF AccessInv
<1>1. RowKnown'
  BY DEF RowKnown, Issued
<1>2. OneAtATime'
  BY DEF OneAtATime, NoOrphan
<1>3. NewestOnDisk'
  BY DEF NewestOnDisk
<1>4. Followed'
  <2>1. \A r \in requests : AnswerKnown(r) /\ faults' <= 1 => AnswerKnown(r)'
    BY DEF AnswerKnown, NoOrphan
  <2>2. \A m \in Machines : DiskKnown(m) /\ faults' <= 1 => DiskKnown(m)'
    BY DEF DiskKnown, NoOrphan
  <2> QED
    BY <2>1, <2>2 DEF Followed, Has, Tolerated
<1> QED
  BY <1>1, <1>2, <1>3, <1>4

\* The certificate of an invitation is the name's until it is fetched.
LEMMA FetchAccess ==
    ASSUME OwnersInv, AccessInv, NEW m \in Machines, NEW i \in Invites, Fetch(m, i),
           disk' = [disk EXCEPT ![m] = enrollments[i].cert], UNCHANGED faults
    PROVE  AccessInv'
<1> USE CertFacts DEF AccessInv
<1>1. /\ disk[m] = 0 /\ enrollments[i].machine = m /\ enrollments[i].cert # 0
      /\ UNCHANGED <<kind, owner, row, graceOver, enrollments, bundle, memory, requests, disturbed>>
  BY DEF Fetch, MayJoin, BoundTo, theirs
<1>2. ~disturbed => /\ \A r \in requests : r.machine # m
                    /\ kind = "node" /\ row.hash = enrollments[i].cert
  BY <1>1 DEF NewestOnDisk
<1>3. \A n \in Machines : disk'[n] = IF n = m THEN enrollments[i].cert ELSE disk[n]
  BY DEF OwnersInv, Shapes
<1>4. RowKnown' /\ OneAtATime'
  BY <1>1 DEF RowKnown, Issued, OneAtATime, NoOrphan
<1>5. NewestOnDisk'
  BY <1>1, <1>2, <1>3 DEF NewestOnDisk
<1>6. Followed'
  <2>1. ASSUME ~disturbed, NEW r \in requests, AnswerKnown(r) PROVE AnswerKnown(r)'
    BY <1>1, <1>2, <1>3, <2>1 DEF AnswerKnown, NoOrphan
  <2>2. ASSUME ~disturbed, NEW n \in Machines, n # m, DiskKnown(n) PROVE DiskKnown(n)'
    BY <1>1, <1>2, <1>3, <2>2 DEF DiskKnown, NoOrphan
  <2>3. ~disturbed => DiskKnown(m)'
    BY <1>1, <1>2, <1>3 DEF DiskKnown
  <2>4. \A n \in Machines : n # m => Has(n)' = Has(n)
    BY <1>1, <1>3 DEF Has
  <2> QED
    BY <1>1, <1>2, <2>1, <2>2, <2>3, <2>4 DEF Followed, Tolerated
<1> QED
  BY <1>4, <1>5, <1>6

\* The first certificate of a Node is signed while it has nothing.
LEMMA ApproveAccess ==
    ASSUME OwnersInv, AccessInv, Invited, NEW i \in Invites, Approve(i)
    PROVE  AccessInv'
<1> USE CertFacts DEF AccessInv
<1>1. /\ row = NoRow /\ Issued = 0 /\ row'.hash = 1
      /\ enrollments[i].machine \in Machines /\ Sign(enrollments[i].machine)
      /\ enrollments'[i].cert = 1
      /\ \A j \in Invites : /\ enrollments'[j].machine = enrollments[j].machine
                            /\ j # i => enrollments'[j].cert = enrollments[j].cert
      /\ UNCHANGED <<kind, graceOver, bundle, disk, memory, requests, disturbed, faults>>
  BY DEF Approve, RowKnown, NoRow, OwnersInv, Shapes, ours
<1>2. Issued' = 1
  BY <1>1, SignKeeps DEF OwnersInv
<1>3. /\ \A m \in Machines : disk[m] = 0 /\ bundle[m] = 0
      /\ \A j \in Invites : enrollments[j].cert = 0
      /\ \A r \in requests : r.cert = 0 /\ r.fresh = 0
  BY <1>1
<1>4. RowKnown' /\ OneAtATime'
  BY <1>1 DEF RowKnown, OneAtATime, NoOrphan
<1>5. NewestOnDisk'
  <2>1. kind = "node"
    BY DEF Approve, Invited
  <2>2. \A j \in Invites : enrollments'[j].cert # 0 => j = i /\ row'.hash = enrollments'[j].cert
    BY <1>1, <1>3
  <2>3. \A m \in Machines : bundle'[m] = 0
    BY <1>1, <1>3
  <2> QED
    BY <1>1, <1>3, <2>1, <2>2, <2>3 DEF NewestOnDisk
<1>6. Followed'
  BY <1>1, <1>3 DEF Followed, Has
<1> QED
  BY <1>4, <1>5, <1>6

\* An approval of a client makes all that its machine has an earlier thing.
LEMMA ApproveClientAccess ==
    ASSUME OwnersInv, AccessInv, NEW m \in Machines, ApproveClient(m)
    PROVE  AccessInv'
<1> USE CertFacts DEF AccessInv
<1>1. /\ kind = "client" /\ Sign(m)
      /\ row'.hash = Issued + 1 /\ row'.previous = 0
      /\ \A n \in Machines : bundle'[n] = IF n = m THEN Issued + 1 ELSE bundle[n]
      /\ disturbed' = (disturbed \/ Meets(m))
      /\ UNCHANGED <<kind, enrollments, disk, memory, requests, faults>>
  BY DEF ApproveClient, Replaced, OwnersInv, Shapes, joining, ours
<1>2. /\ Issued' = Issued + 1 /\ owner'[Issued + 1] = m
  BY <1>1, SignKeeps DEF OwnersInv
<1>3. RowKnown' /\ OneAtATime'
  BY <1>1 DEF RowKnown, OneAtATime, NoOrphan
<1>4. NewestOnDisk'
  <2> SUFFICES ASSUME ~disturbed, \A r \in requests : r.machine = m => r.stage = "sent"
               PROVE  NewestOnDisk'
    BY <1>1 DEF NewestOnDisk, Meets, Stages
  <2> QED
    BY <1>1, <1>2 DEF NewestOnDisk
<1>5. Followed'
  BY <1>1, <1>2 DEF Followed, Has
<1> QED
  BY <1>3, <1>4, <1>5

\* What is installed is what was approved last, if the machine has the name.
LEMMA InstallAccess ==
    ASSUME OwnersInv, AccessInv, NEW m \in Machines, Install(m)
    PROVE  AccessInv'
<1> USE CertFacts DEF AccessInv
<1>1. /\ bundle[m] # 0
      /\ \A n \in Machines : /\ disk'[n] = IF n = m THEN bundle[m] ELSE disk[n]
                             /\ bundle'[n] = IF n = m THEN 0 ELSE bundle[n]
      /\ faults' \in {faults, faults + 1}
      /\ UNCHANGED <<kind, owner, row, graceOver, enrollments, memory, requests, disturbed>>
  BY DEF Install, Fault, OwnersInv, Shapes, theirs
<1>2. ~disturbed => /\ kind = "client" /\ disk[m] < bundle[m]
                    /\ owner[row.hash] = m => row.hash = bundle[m] /\ row.previous = 0
                    /\ \A r \in requests : r.machine = m => r.stage = "sent"
  BY <1>1 DEF NewestOnDisk
<1>3. RowKnown' /\ OneAtATime'
  BY <1>1 DEF RowKnown, Issued, OneAtATime, NoOrphan
<1>4. NewestOnDisk'
  BY <1>1, <1>2 DEF NewestOnDisk
<1>5. Followed'
  <2>1. ASSUME ~disturbed, faults' <= 1, NEW r \in requests, r.machine # m, AnswerKnown(r)
        PROVE  AnswerKnown(r)'
    BY <1>1, <2>1 DEF AnswerKnown, NoOrphan
  <2>2. ASSUME faults' <= 1, NEW n \in Machines, n # m, DiskKnown(n) PROVE DiskKnown(n)'
    BY <1>1, <2>2 DEF DiskKnown, NoOrphan
  <2>3. ~disturbed /\ owner[row.hash] = m => DiskKnown(m)'
    BY <1>1, <1>2 DEF DiskKnown
  <2>4. \A n \in Machines : n # m => Has(n)' = Has(n)
    BY <1>1 DEF Has
  <2>5. \A n \in Machines : Has(n)' => owner[row.hash] = n
    BY <1>1 DEF Has
  <2>6. faults' <= Tolerated' => faults' <= 1 /\ faults <= Tolerated
    BY <1>1 DEF Tolerated
  <2> QED
    BY <1>1, <1>2, <2>1, <2>2, <2>3, <2>4, <2>5, <2>6, Zenon DEF Followed
<1> QED
  BY <1>3, <1>4, <1>5

\* A process takes over what is on its machine's disk.
LEMMA ReloadAccess ==
    ASSUME OwnersInv, AccessInv, NEW p \in Processes,
           memory' = [memory EXCEPT ![p] = disk[MachineOf[p]]],
           UNCHANGED <<kind, theirs, old, joining, bundle, disk, requests, disturbed, faults>>
    PROVE  AccessInv'
<1> USE CertFacts DEF AccessInv, theirs, joining
<1>1. RowKnown' /\ OneAtATime'
  BY DEF RowKnown, Issued, OneAtATime, NoOrphan
<1>2. NewestOnDisk'
  <2>1. \A q \in Processes : memory'[q] = IF q = p THEN disk[MachineOf[p]] ELSE memory[q]
    BY DEF OwnersInv, Shapes
  <2> QED
    BY <2>1 DEF NewestOnDisk
<1>3. Followed'
  BY DEF Followed, Has, Tolerated, AnswerKnown, DiskKnown, NoOrphan
<1> QED
  BY <1>1, <1>2, <1>3

\* A renewal begins with what its process has in memory.
LEMMA RenewAccess ==
    ASSUME OwnersInv, AccessInv, NEW p \in Processes, Renew(p)
    PROVE  AccessInv'
<1> USE CertFacts DEF AccessInv
<1> DEFINE q == [process |-> p, machine |-> MachineOf[p], cert |-> memory[p],
                 stage |-> "sent", fresh |-> 0]
<1>1. CASE requests' = requests \cup {q} /\ UNCHANGED memory
  <2>1. /\ memory[p] # 0 /\ \A r \in requests : r.process \notin Siblings(p)
        /\ UNCHANGED <<kind, owner, row, graceOver, enrollments, bundle, disk, disturbed, faults>>
    BY DEF Renew, theirs, joining
  <2>2. \A r \in requests : r.machine = MachineOf[p] => Orphan(r)
    BY <2>1 DEF Siblings
  <2>3. ~Orphan(q)
    BY CertificateInputs DEF Orphan
  <2>4. RowKnown' /\ OneAtATime'
    BY <1>1, <2>1, <2>2, <2>3 DEF RowKnown, Issued, OneAtATime, NoOrphan
  <2>5. NewestOnDisk'
    BY <1>1, <2>1 DEF NewestOnDisk
  <2>6. Followed'
    <3>1. NoOrphan => NoOrphan'
      BY <1>1, <2>3 DEF NoOrphan
    <3>2. \A r : AnswerKnown(r) => AnswerKnown(r)'
      BY <2>1, <3>1 DEF AnswerKnown
    <3>3. \A m : DiskKnown(m) => DiskKnown(m)'
      BY <1>1, <2>1, <3>1 DEF DiskKnown
    <3> QED
      BY <1>1, <2>1, <3>2, <3>3 DEF Followed, Has, Tolerated
  <2> QED
    BY <2>4, <2>5, <2>6
<1>2. CASE memory' = [memory EXCEPT ![p] = disk[MachineOf[p]]] /\ UNCHANGED requests
  BY <1>2, ReloadAccess DEF Renew
<1> QED
  BY <1>1, <1>2 DEF Renew

\* What is accepted of a machine is at most what is on its disk, so a machine
\* with a bundle, or with a lost certificate and no grace, is not accepted.
LEMMA AcceptedIsKnown ==
    ASSUME OwnersInv, OneOwner, AccessInv, ~disturbed, NEW r \in requests, Accepted(r.cert)
    PROVE  /\ row.hash # 0 /\ owner[row.hash] = r.machine
           /\ bundle[r.machine] = 0 /\ disk[r.machine] # 0
           /\ r.cert <= disk[r.machine]
<1> USE CertFacts
<1>1. row.hash # 0 /\ owner[row.hash] = r.machine
  BY DEF OneOwner, Accepted, OwnersInv, Owners, IsOf
<1>2. r.cert # 0 /\ r.cert <= disk[r.machine]
  BY DEF AccessInv, NewestOnDisk
<1>3. r.cert = row.hash \/ r.cert = row.previous
  BY DEF Accepted
<1>4. bundle[r.machine] = 0
  BY <1>1, <1>2, <1>3 DEF AccessInv, NewestOnDisk
<1> QED
  BY <1>1, <1>2, <1>4

\* Authorization looks at the row as it is.
LEMMA AuthorizeAccess ==
    ASSUME OwnersInv, OneOwner, AccessInv, NEW r \in requests, Authorize(r)
    PROVE  AccessInv'
<1> USE CertFacts DEF AccessInv
<1> DEFINE q == [r EXCEPT !.stage = "authorized"]
<1>1. /\ requests' = (requests \ {r}) \cup (IF Accepted(r.cert) THEN {q} ELSE {})
      /\ r.stage = "sent"
      /\ UNCHANGED <<kind, owner, row, graceOver, enrollments, bundle, disk, memory, disturbed, faults>>
  BY DEF Authorize, theirs, joining
<1>2. /\ q.stage = "authorized" /\ q.process = r.process /\ q.machine = r.machine
      /\ q.cert = r.cert /\ q.fresh = r.fresh
  BY DEF OwnersInv, Shapes, Asked
<1> HIDE DEF q
<1>3. \A s \in requests' : (s \in requests /\ s # r) \/ (s = q /\ Accepted(r.cert))
  BY <1>1
<1>4. RowKnown'
  BY <1>1 DEF RowKnown, Issued
<1>5. OneAtATime'
  BY <1>1, <1>2, <1>3 DEF OneAtATime, NoOrphan, Orphan
<1>6. NewestOnDisk'
  <2> SUFFICES ASSUME ~disturbed PROVE NewestOnDisk'
    BY <1>1 DEF NewestOnDisk
  <2>1. ASSUME NEW s \in requests' PROVE s.cert # 0 /\ s.cert <= disk[s.machine]
                                         /\ (s.stage = "answered" => disk[s.machine] < s.fresh)
    BY <1>2, <1>3 DEF NewestOnDisk
  <2>2. ASSUME NEW m \in Machines, bundle[m] # 0, NEW s \in requests', s.machine = m
        PROVE  s.stage = "sent"
    BY <1>2, <1>3, <2>2, AcceptedIsKnown DEF NewestOnDisk
  <2> QED
    BY <1>1, <2>1, <2>2 DEF NewestOnDisk
<1>7. Followed'
  <2> SUFFICES ASSUME ~disturbed, ~row.revoked, faults <= Tolerated, NEW m \in Machines, Has(m)
               PROVE  /\ \A s \in requests' : s.machine = m /\ s.stage = "answered"
                            => AnswerKnown(s)'
                      /\ (\A s \in requests' : s.machine = m => s.stage # "answered")
                            => DiskKnown(m)'
    BY <1>1 DEF Followed, Has, Tolerated
  <2>1. NoOrphan => NoOrphan'
    BY <1>2, <1>3 DEF NoOrphan, Orphan
  <2>2. ASSUME NEW s \in requests', s.machine = m, s.stage = "answered" PROVE AnswerKnown(s)'
    <3>1. s \in requests /\ AnswerKnown(s)
      BY <1>2, <1>3, <2>2 DEF Followed
    <3> QED
      BY <1>1, <2>1, <3>1 DEF AnswerKnown
  <2>3. ASSUME \A s \in requests' : s.machine = m => s.stage # "answered" PROVE DiskKnown(m)'
    <3>1. \A s \in requests : s.machine = m => s.stage # "answered"
      BY <1>1, <2>3
    <3>2. DiskKnown(m)
      BY <3>1 DEF Followed
    <3>3. CASE row.hash = disk[m]
      BY <1>1, <3>3 DEF DiskKnown
    <3>4. CASE row.hash # disk[m]
      <4>1. graceOver /\ r.machine = m => ~Accepted(r.cert)
        BY <3>2, <3>4 DEF DiskKnown, NewestOnDisk, Accepted
      <4>2. graceOver => \A s \in requests' : s.machine = m => s.stage = "sent"
        BY <1>2, <1>3, <3>2, <3>4, <4>1 DEF DiskKnown
      <4> QED
        BY <1>1, <2>1, <3>2, <3>4, <4>2 DEF DiskKnown
    <3> QED
      BY <3>3, <3>4
  <2> QED
    BY <2>2, <2>3
<1> QED
  BY <1>4, <1>5, <1>6, <1>7

\* An answer becomes what is on the disk.
LEMMA StoreAccess ==
    ASSUME OwnersInv, AccessInv, NEW r \in requests, Store(r)
    PROVE  AccessInv'
<1> USE CertFacts DEF AccessInv
<1>1. /\ r.stage = "answered" /\ ~Orphan(r)
      /\ requests' = requests \ {r}
      /\ \A m \in Machines : disk'[m] = IF m = r.machine THEN r.fresh ELSE disk[m]
      /\ \A p \in Processes : memory'[p] = IF p = r.process THEN r.fresh ELSE memory[p]
      /\ UNCHANGED <<kind, owner, row, graceOver, enrollments, bundle, disturbed, faults>>
  BY DEF Store, OwnersInv, Shapes, Owners, Orphan, theirs, joining
<1>2. ~disturbed => /\ disk[r.machine] < r.fresh /\ bundle[r.machine] = 0
                    /\ \A i \in Invites : enrollments[i].cert # 0 /\ disk[enrollments[i].machine] = 0
                                             => enrollments[i].machine # r.machine
  BY <1>1 DEF NewestOnDisk
<1>3. RowKnown' /\ OneAtATime'
  BY <1>1 DEF RowKnown, Issued, OneAtATime, NoOrphan
<1>4. NewestOnDisk'
  <2> SUFFICES ASSUME ~disturbed PROVE NewestOnDisk'
    BY <1>1 DEF NewestOnDisk
  <2>1. \A p \in Processes : memory'[p] <= disk'[MachineOf[p]]
    BY <1>1, <1>2 DEF NewestOnDisk
  <2>2. \A s \in requests' : /\ s.cert # 0 /\ s.cert <= disk'[s.machine]
                             /\ s.stage = "answered" => disk'[s.machine] < s.fresh
    <3> SUFFICES ASSUME NEW s \in requests'
                 PROVE  /\ s.cert # 0 /\ s.cert <= disk'[s.machine]
                        /\ s.stage = "answered" => disk'[s.machine] < s.fresh
      OBVIOUS
    <3>1. s.stage = "answered" => s.machine # r.machine
      BY <1>1 DEF OneAtATime, OwnersInv, Owners, Orphan
    <3> QED
      BY <1>1, <1>2, <3>1 DEF NewestOnDisk
  <2>3. \A i \in Invites : enrollments[i].cert # 0 =>
           /\ kind = "node"
           /\ disk'[enrollments[i].machine] = 0 => row.hash = enrollments[i].cert
    <3> SUFFICES ASSUME NEW i \in Invites, enrollments[i].cert # 0
                 PROVE  /\ kind = "node"
                        /\ disk'[enrollments[i].machine] = 0 => row.hash = enrollments[i].cert
      OBVIOUS
    <3>1. enrollments[i].machine \in Machines /\ kind = "node"
      BY DEF NewestOnDisk
    <3>2. CASE enrollments[i].machine = r.machine
      BY <1>1, <1>2, <3>1, <3>2
    <3>3. CASE enrollments[i].machine # r.machine
      BY <1>1, <3>1, <3>3 DEF NewestOnDisk
    <3> QED
      BY <3>2, <3>3
  <2>4. \A m \in Machines : bundle[m] # 0 => disk'[m] = disk[m]
    BY <1>1, <1>2
  <2> QED
    BY <1>1, <2>1, <2>2, <2>3, <2>4 DEF NewestOnDisk
<1>5. Followed'
  <2> SUFFICES ASSUME ~disturbed, ~row.revoked, faults <= Tolerated, NEW m \in Machines, Has(m)'
               PROVE  /\ \A s \in requests' : s.machine = m /\ s.stage = "answered"
                            => AnswerKnown(s)'
                      /\ (\A s \in requests' : s.machine = m => s.stage # "answered")
                            => DiskKnown(m)'
    BY <1>1 DEF Followed, Tolerated
  <2>1. NoOrphan => NoOrphan'
    BY <1>1 DEF NoOrphan
  <2>2. CASE m = r.machine
    <3>1. Has(m)
      BY <1>1, <1>2, <2>2, CertFacts DEF Has, NewestOnDisk
    <3>2. AnswerKnown(r)
      BY <1>1, <2>2, <3>1 DEF Followed
    <3>3. \A s \in requests' : s.machine = m => s.stage # "answered"
      BY <1>1, <2>2 DEF OneAtATime, OwnersInv, Owners, Orphan
    <3>4. row.hash = r.fresh \/ row.previous = r.fresh
      BY <3>2 DEF AnswerKnown
    <3>5. DiskKnown(m)'
      <4>1. CASE row.hash = r.fresh
        BY <1>1, <2>2, <4>1 DEF DiskKnown
      <4>2. CASE row.hash # r.fresh
        BY <1>1, <2>1, <2>2, <3>2, <4>2 DEF DiskKnown, AnswerKnown
      <4> QED
        BY <4>1, <4>2
    <3> QED
      BY <3>3, <3>5
  <2>3. CASE m # r.machine
    <3>1. Has(m) /\ disk'[m] = disk[m]
      BY <1>1, <2>3 DEF Has
    <3>2. \A s \in requests : s.machine = m /\ s.stage = "answered" => s \in requests'
      BY <1>1, <2>3
    <3>3. \A s \in requests' : s.machine = m /\ AnswerKnown(s) => AnswerKnown(s)'
      BY <1>1, <2>1, <3>1 DEF AnswerKnown
    <3>4. DiskKnown(m) => DiskKnown(m)'
      BY <1>1, <2>1, <3>1 DEF DiskKnown
    <3> QED
      BY <1>1, <3>1, <3>2, <3>3, <3>4 DEF Followed
  <2> QED
    BY <2>2, <2>3
<1> QED
  BY <1>3, <1>4, <1>5

\* A certificate is recorded: the process stores it next, or nobody does.
LEMMA RecordAccess ==
    ASSUME OwnersInv, OneOwner, AccessInv, NEW r \in requests, Record(r)
    PROVE  AccessInv'
<1> USE CertFacts DEF AccessInv
<1> DEFINE q == [r EXCEPT !.stage = "answered", !.fresh = Issued + 1]
           m == r.machine
<1>1. /\ r.stage = "authorized" /\ Sign(m)
      /\ UNCHANGED <<kind, enrollments, bundle, disk, memory, disturbed, faults>>
  BY DEF Record, joining
<1>2. /\ Issued' = Issued + 1 /\ owner'[Issued + 1] = m
      /\ \A c \in 1 .. Issued : owner'[c] = owner[c]
  BY <1>1, SignKeeps DEF OwnersInv
<1>3. /\ q.stage = "answered" /\ q.process = r.process /\ q.machine = m
      /\ q.cert = r.cert /\ q.fresh = Issued + 1
  BY DEF OwnersInv, Shapes, Asked
<1>4. CASE row.revoked
  <2>1. requests' = requests \ {r} /\ UNCHANGED <<row, graceOver>>
    BY <1>4 DEF Record
  <2>2. RowKnown'
    BY <2>1, <1>4 DEF RowKnown, NoRow
  <2>3. OneAtATime'
    BY <1>1, <2>1 DEF OneAtATime, NoOrphan
  <2>4. NewestOnDisk'
    <3>1. row.hash # 0 => owner'[row.hash] = owner[row.hash]
      BY <1>2
    <3>2. row.hash # 0
      BY <1>4 DEF RowKnown, NoRow
    <3> QED
      BY <1>1, <2>1, <3>1, <3>2 DEF NewestOnDisk
  <2>5. Followed'
    BY <1>4, <2>1 DEF Followed
  <2> QED
    BY <2>2, <2>3, <2>4, <2>5
<1>5. CASE ~row.revoked
  <2> DEFINE answers == IF Orphan(r) THEN {} ELSE {q}
  <2>1. /\ row'.hash = Issued + 1 /\ ~row'.revoked
        /\ row'.previous = IF kind = "client" THEN row.hash ELSE 0
        /\ graceOver' = FALSE
        /\ requests' = (requests \ {r}) \cup answers
    BY <1>5 DEF Record, Recorded, OwnersInv, Shapes, Orphan
  <2>2. \A s \in requests' : (s \in requests /\ s # r) \/ (s = q /\ ~Orphan(r))
    BY <2>1
  <2> HIDE DEF q, answers
  <2>3. RowKnown'
    BY <2>1 DEF RowKnown
  <2>4. OneAtATime'
    BY <1>1, <1>3, <2>2 DEF OneAtATime, NoOrphan, Orphan
  <2>5. ~disturbed => bundle[m] = 0 /\ row.hash # 0 /\ owner[row.hash] = m /\ disk[m] # 0
    BY <1>1 DEF OneOwner, NewestOnDisk
  <2>6. NewestOnDisk'
    <3> SUFFICES ASSUME ~disturbed PROVE NewestOnDisk'
      BY <1>1 DEF NewestOnDisk
    <3>1. \A s \in requests' : /\ s.cert # 0 /\ s.cert <= disk[s.machine]
                               /\ s.stage = "answered" => disk[s.machine] < s.fresh
      BY <1>3, <2>2 DEF NewestOnDisk
    <3>2. \A i \in Invites : enrollments[i].cert # 0 => disk[enrollments[i].machine] # 0
      <4> SUFFICES ASSUME NEW i \in Invites, enrollments[i].cert # 0,
                          disk[enrollments[i].machine] = 0
                   PROVE  FALSE
        OBVIOUS
      <4>1. row.hash = enrollments[i].cert
        BY DEF NewestOnDisk
      <4> QED
        BY <4>1, <2>5 DEF OwnersInv, Owners, IsOf
    <3>3. \A n \in Machines : bundle[n] # 0 => n # m
      BY <2>5
    <3> QED
      BY <1>1, <1>2, <1>3, <2>1, <2>2, <3>1, <3>2, <3>3 DEF NewestOnDisk
  <2>7. Followed'
    <3> SUFFICES ASSUME ~disturbed, faults <= Tolerated
                 PROVE  /\ \A s \in requests' : s.machine = m /\ s.stage = "answered"
                              => AnswerKnown(s)'
                        /\ (\A s \in requests' : s.machine = m => s.stage # "answered")
                              => DiskKnown(m)'
      BY <1>1, <1>2, <2>1 DEF Followed, Has, Tolerated
    <3>1. Has(m)
      BY <2>5 DEF Has
    <3>2. CASE ~Orphan(r)
      <4>1. \A s \in requests : s.machine = m => s = r \/ s.stage # "answered"
        BY <3>2 DEF OneAtATime, OwnersInv, Owners, Orphan
      <4>2. DiskKnown(m)
        BY <1>1, <1>5, <3>1, <4>1 DEF Followed
      <4>3. ASSUME NEW s, s = q PROVE AnswerKnown(s)'
        <5>1. faults = 0 => row.hash = disk[m]
          BY <4>2 DEF DiskKnown
        <5> QED
          BY <1>1, <1>3, <2>1, <4>3, <5>1 DEF AnswerKnown
      <4>4. \A s \in requests' : s.machine = m /\ s.stage = "answered" => s = q
        BY <2>2, <4>1
      <4>5. q \in requests' /\ q.machine = m /\ q.stage = "answered"
        BY <1>3, <2>1, <3>2 DEF answers
      <4> QED
        BY <4>3, <4>4, <4>5
    <3>3. CASE Orphan(r)
      <4>1. kind = "client" /\ faults = 1
        BY <3>3 DEF Tolerated, OneAtATime, NoOrphan
      <4>2. NoOrphan'
        BY <2>2, <3>3, <4>1 DEF OneAtATime, NoOrphan
      <4>3. requests' = requests \ {r}
        BY <2>1, <3>3 DEF answers
      <4>4. ASSUME NEW s \in requests', s.machine = m, s.stage = "answered"
            PROVE  AnswerKnown(s)'
        <5>1. AnswerKnown(s)
          BY <1>5, <3>1, <4>3, <4>4 DEF Followed
        <5>2. row.hash = s.fresh
          BY <3>3, <5>1 DEF AnswerKnown, NoOrphan
        <5> QED
          BY <1>1, <2>1, <4>1, <4>2, <4>3, <5>2 DEF AnswerKnown
      <4>5. ASSUME \A s \in requests' : s.machine = m => s.stage # "answered"
            PROVE  DiskKnown(m)'
        <5>1. \A s \in requests : s.machine = m => s.stage # "answered"
          BY <1>1, <4>3, <4>5
        <5>2. DiskKnown(m)
          BY <1>5, <3>1, <5>1 DEF Followed
        <5>3. row.hash = disk[m]
          BY <3>3, <5>2 DEF DiskKnown, NoOrphan
        <5> QED
          BY <1>1, <2>1, <4>1, <4>2, <5>3 DEF DiskKnown
      <4> QED
        BY <4>4, <4>5
    <3> QED
      BY <3>2, <3>3
  <2> QED
    BY <2>3, <2>4, <2>6, <2>7
<1> QED
  BY <1>4, <1>5

\* One fault is an answer lost, or a request that is recorded and stored by
\* nobody.
LEMMA GiveUpAccess ==
    ASSUME OwnersInv, AccessInv, NEW r \in requests, GiveUp(r)
    PROVE  AccessInv'
<1> USE CertFacts DEF AccessInv
<1> DEFINE q == [r EXCEPT !.process = Nobody]
<1>1. /\ ~Orphan(r) /\ faults' = faults + 1
      /\ requests' = (requests \ {r}) \cup (IF r.stage = "answered" THEN {} ELSE {q})
      /\ UNCHANGED <<kind, owner, row, graceOver, enrollments, bundle, disk, memory, disturbed>>
  BY DEF GiveUp, Fault, Orphan, theirs, joining
<1>2. /\ q.process = Nobody /\ q.stage = r.stage /\ q.machine = r.machine
      /\ q.cert = r.cert /\ q.fresh = r.fresh
  BY DEF OwnersInv, Shapes, Asked
<1> HIDE DEF q
<1>3. \A s \in requests' : (s \in requests /\ s # r) \/ (s = q /\ r.stage # "answered")
  BY <1>1
<1>4. RowKnown'
  BY <1>1 DEF RowKnown, Issued
<1>5. OneAtATime'
  BY <1>1, <1>2, <1>3 DEF OneAtATime, NoOrphan, Orphan
<1>6. NewestOnDisk'
  BY <1>1, <1>2, <1>3 DEF NewestOnDisk
<1>7. Followed'
  <2> SUFFICES ASSUME ~disturbed, ~row.revoked, kind = "client", faults = 0,
                      NEW m \in Machines, Has(m)
               PROVE  /\ \A s \in requests' : s.machine = m /\ s.stage = "answered"
                            => AnswerKnown(s)'
                      /\ (\A s \in requests' : s.machine = m => s.stage # "answered")
                            => DiskKnown(m)'
    BY <1>1 DEF Followed, Has, Tolerated
  <2>0. faults <= Tolerated
    BY DEF Tolerated
  <2>1. ASSUME NEW s \in requests', s.machine = m, s.stage = "answered" PROVE AnswerKnown(s)'
    <3>1. s \in requests /\ AnswerKnown(s)
      BY <1>2, <1>3, <2>0, <2>1 DEF Followed
    <3> QED
      BY <1>1, <3>1 DEF AnswerKnown
  <2>2. ASSUME \A s \in requests' : s.machine = m => s.stage # "answered" PROVE DiskKnown(m)'
    <3>1. CASE r.machine = m /\ r.stage = "answered"
      <4>1. AnswerKnown(r) /\ disk[m] < r.fresh
        BY <2>0, <3>1 DEF Followed, NewestOnDisk
      <4>2. row.previous = disk[m] /\ disk[m] < row.hash
        BY <3>1, <4>1 DEF AnswerKnown
      <4>3. requests' = requests \ {r}
        BY <1>1, <3>1
      <4>4. NoOrphan' /\ \A s \in requests' : s.machine # m
        BY <1>1, <3>1, <4>3 DEF OneAtATime, NoOrphan
      <4> QED
        BY <1>1, <4>2, <4>4 DEF DiskKnown
    <3>2. CASE ~(r.machine = m /\ r.stage = "answered")
      <4>1. \A s \in requests : s.machine = m => s.stage # "answered"
        BY <1>1, <2>2, <3>2
      <4>2. row.hash = disk[m]
        BY <2>0, <4>1 DEF Followed, DiskKnown
      <4> QED
        BY <1>1, <4>2 DEF DiskKnown
    <3> QED
      BY <3>1, <3>2
  <2> QED
    BY <2>1, <2>2
<1> QED
  BY <1>4, <1>5, <1>6, <1>7

\* A client's invitations are never opened.
LEMMA InvitedStep ==
    ASSUME OwnersInv, Invited, [CertNext]_certVars
    PROVE  Invited'
<1> USE DEF Invited, joining, ours, theirs
<1>1. CASE Joining
  BY <1>1 DEF Joining, Invite, InviteExpires, Approve, Join, Fetch, NewKey, ApproveClient, Install,
             InstallAgain
<1>2. CASE Renewing
  BY <1>2 DEF Renewing, Start, Call, Renew, Authorize, Record, Store, GiveUp
<1>3. CASE Revoke \/ GraceEnds \/ Age \/ UNCHANGED certVars
  BY <1>3 DEF Revoke, GraceEnds, Age, certVars
<1> QED
  BY <1>1, <1>2, <1>3 DEF CertNext

\* Whatever machines, processes and the Controller do.
LEMMA AccessStep ==
    ASSUME OwnersInv, OneOwner, Invited, AccessInv, [CertNext]_certVars
    PROVE  AccessInv'
<1>1. ASSUME NEW m \in Machines, NEW i \in Invites, Fetch(m, i) PROVE AccessInv'
  <2>1. CASE UNCHANGED disk
    BY <1>1, <2>1, QuietSteps DEF Fetch, Fault, theirs
  <2>2. CASE disk' = [disk EXCEPT ![m] = enrollments[i].cert] /\ UNCHANGED faults
    BY <1>1, <2>2, FetchAccess
  <2> QED
    BY <1>1, <2>1, <2>2 DEF Fetch
<1>2. ASSUME NEW m \in Machines, NEW i \in Invites, Join(m, i) PROVE AccessInv'
  <2>1. \A j \in Invites : enrollments'[j] = enrollments[j] \/ enrollments'[j].cert = 0
    BY <1>2 DEF Join, Unused, OwnersInv, Shapes
  <2> QED
    BY <1>2, <2>1, QuietSteps DEF Join, theirs, ours
<1>3. ASSUME NEW i \in Invites, Invite(i) \/ InviteExpires(i) PROVE AccessInv'
  BY <1>3, QuietSteps DEF Invite, InviteExpires, theirs, ours
<1>4. ASSUME NEW m \in Machines, NewKey(m) \/ InstallAgain(m) PROVE AccessInv'
  BY <1>4, QuietSteps DEF NewKey, InstallAgain, Fault, theirs, ours
<1>5. CASE GraceEnds \/ Age
  BY <1>5, QuietSteps DEF GraceEnds, Age, joining, ours
<1>6. CASE Revoke
  <2>1. /\ row'.hash = row.hash /\ row'.previous = row.previous /\ row'.revoked
        /\ UNCHANGED <<kind, owner, graceOver, joining, bundle, ours, disturbed, faults>>
        /\ row # NoRow
    BY <1>6 DEF Revoke, OwnersInv, Shapes
  <2>2. RowKnown' /\ OneAtATime' /\ NewestOnDisk' /\ Followed'
    BY <2>1, CertFacts DEF AccessInv, RowKnown, Issued, OneAtATime, NoOrphan, NewestOnDisk, Followed,
                joining, ours
  <2> QED
    BY <2>2 DEF AccessInv
<1>7. ASSUME NEW p \in Processes, Start(p) \/ Call(p) \/ Renew(p) PROVE AccessInv'
  BY <1>7, ReloadAccess, RenewAccess DEF Start, Call
<1>8. ASSUME NEW r \in requests, Authorize(r) \/ Record(r) \/ Store(r) \/ GiveUp(r)
      PROVE  AccessInv'
  BY <1>8, AuthorizeAccess, RecordAccess, StoreAccess, GiveUpAccess
<1>9. CASE UNCHANGED certVars
  BY <1>9, QuietSteps DEF certVars, theirs, joining, ours
<1> QED
  BY <1>1, <1>2, <1>3, <1>4, <1>5, <1>6, <1>7, <1>8, <1>9, ApproveAccess, ApproveClientAccess,
     InstallAccess
  DEF CertNext, Joining, Renewing

\* The machine that has the name is not locked out: not by processes that renew
\* at once, and not by one that dies, times out or loses its answer within the
\* grace, for any number of processes, machines and renewals.
THEOREM AccessKept == CertSpec => []KeepsAccess
<1>1. CertInit => OneOwner /\ Invited
  BY DEF CertInit, OneOwner, Invited, NoRow
<1>2. OwnersInv /\ AccessInv => KeepsAccess
  <2> SUFFICES ASSUME OwnersInv, AccessInv, NEW m \in Machines,
                      disk[m] # 0, bundle[m] = 0, owner[row.hash] = m, ~row.revoked, ~disturbed,
                      faults <= IF kind = "client" /\ ~graceOver THEN 1 ELSE 0,
                      \A r \in requests : r.machine = m => r.stage # "answered"
               PROVE  Accepted(disk[m])
    BY DEF KeepsAccess
  <2> USE CertFacts
  <2>1. row.hash # 0
    BY DEF AccessInv, RowKnown
  <2>2. faults <= Tolerated
    BY DEF Tolerated
  <2>3. DiskKnown(m)
    BY <2>1, <2>2 DEF AccessInv, Followed, Has
  <2> QED
    BY <2>3 DEF DiskKnown, Accepted
<1> QED
  BY OwnersInit, OwnersStep, OneOwnerStep, AccessInit, InvitedStep, AccessStep, <1>1, <1>2, PTL
  DEF CertSpec
===============================================================================
