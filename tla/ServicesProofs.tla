--------------------------- MODULE ServicesProofs ---------------------------
(***************************************************************************)
(* What holds of the bridge's services for every set of stations, devices, *)
(* positions and sizes of buffers: the location relay, the position and    *)
(* solar-flux feed, the voice path, and the audio thread.  They share no   *)
(* state; each has its section, with its inductive invariant first.        *)
(***************************************************************************)
EXTENDS LocationRelay, GpsFeed, VoicePath, AudioLoop, WellFoundedInduction, TLAPS

(***************************************************************************)
(* The identity of the relay service and what the server said of it, for   *)
(* any interleaving of the main thread with the worker, any answers, and   *)
(* restarts and crashes at any moment; and the bounds on what the service  *)
(* keeps in memory while the server is away.                               *)
(***************************************************************************)

\* The service runs only between two restarts: while the worker is being
\* joined, the settings and the key file may already be others.
StoppedWhileJoining == main = "joining" => ~service.running

\* Key files have an owner and a key, and so has the service.
IdentityShape ==
  /\ keyfile = [call |-> keyfile.call, key |-> keyfile.key]
  /\ service = [running |-> service.running, call |-> service.call,
                key |-> service.key, url |-> service.url]
  /\ main \in {"loop", "joining"}
  /\ service.running \in BOOLEAN

\* A row of the table of identities: whoever is approved has been, and nobody is
\* before the first registration.
Sound(row) ==
  /\ row \in [status : {"unknown", "pending", "approved", "revoked"}, key : {row.key},
              approved : BOOLEAN]
  /\ row.status = "approved" => row.approved
  /\ row.status = "unknown" => ~row.approved

RegistrySound ==
  /\ registry = [u \in Urls |-> [c \in Stations |-> registry[u][c]]]
  /\ \A u \in Urls, c \in Stations : Sound(registry[u][c])

\* The service runs under a call sign of the station, with one of the endpoints.
EndpointsKnown ==
  /\ sharing = [on |-> sharing.on, url |-> sharing.url, self |-> sharing.self]
  /\ sharing.url \in Urls /\ sharing.self \in Stations \cup {NoCall}
  /\ service.url \subseteq Urls /\ (service.url # {} => service.call \in Stations)
  /\ \A u, v \in service.url : u = v

RelayInv ==
  /\ IdentityShape /\ StoppedWhileJoining /\ SignsAsSaved
  /\ RegistrySound /\ EndpointsKnown /\ ApprovedByServer

-----------------------------------------------------------------------------
\* Nothing runs at the start, and no server knows anybody.
LEMMA RelayInvInit == RelayInit => RelayInv
<1> SUFFICES ASSUME RelayInit PROVE RelayInv
  OBVIOUS
<1>1. IdentityShape /\ StoppedWhileJoining /\ SignsAsSaved /\ ApprovedByServer
  BY DEF RelayInit, IdentityShape, StoppedWhileJoining, SignsAsSaved, ApprovedByServer,
         Stopped, NoFile
<1>2. EndpointsKnown
  BY DEF RelayInit, EndpointsKnown, Stopped
<1>3. RegistrySound
  BY DEF RelayInit, RegistrySound, Sound, NoRow
<1>4. QED BY <1>1, <1>2, <1>3 DEF RelayInv

\* What is on record of an approval stays, with the key it was given for: the server
\* replaces no key, and revoking a row keeps its date of approval.
Kept == \A u \in Urls, c \in Stations :
          registry[u][c].approved =>
            registry'[u][c].approved /\ registry'[u][c].key = registry[u][c].key

\* One row is replaced.
LEMMA RowReplaced ==
  ASSUME RegistrySound, NEW u \in Urls, NEW c \in Stations, NEW row, Sound(row),
         registry' = [registry EXCEPT ![u][c] = row],
         registry[u][c].approved => row.approved /\ row.key = registry[u][c].key
  PROVE  RegistrySound' /\ Kept
<1>1. \A v \in Urls, d \in Stations :
        registry'[v][d] = IF v = u /\ d = c THEN row ELSE registry[v][d]
  BY DEF RegistrySound
<1>2. registry' = [v \in Urls |-> [d \in Stations |-> registry'[v][d]]]
  <2>1. registry' = [v \in Urls |-> IF v = u THEN [registry[v] EXCEPT ![c] = row] ELSE registry[v]]
    BY DEF RegistrySound
  <2>2. \A v \in Urls : registry[v] = [d \in Stations |-> registry[v][d]]
    BY DEF RegistrySound
  <2>3. \A v \in Urls : registry'[v] = [d \in Stations |-> registry'[v][d]]
    BY <2>1, <2>2
  <2>4. QED BY <2>1, <2>3
<1>3. \A v \in Urls, d \in Stations : Sound(registry'[v][d])
  BY <1>1 DEF RegistrySound
<1>4. QED BY <1>1, <1>2, <1>3 DEF RegistrySound, Kept

\* A registration writes a row for a call sign that had none, and no other.
LEMMA RegistrationKeeps ==
  ASSUME RegistrySound, NEW u \in Urls, NEW c \in Stations, NEW key,
         registry' = [registry EXCEPT ![u][c] = Registration(registry[u][c], key)]
  PROVE  RegistrySound' /\ Kept
<1>1. Sound(registry[u][c])
  BY DEF RegistrySound
<1>2. Sound(Registration(registry[u][c], key))
  BY <1>1 DEF Sound, Registration, NoRow
<1>3. registry[u][c].approved => Registration(registry[u][c], key) = registry[u][c]
  BY <1>1 DEF Sound, Registration
<1>4. QED BY <1>2, <1>3, RowReplaced

\* The operator of the server changes the status of a row.
LEMMA DecisionKeeps ==
  ASSUME RegistrySound, NEW u \in Urls, NEW c \in Stations,
         NEW verdict \in {"approved", "revoked"}, Decide(u, c, verdict)
  PROVE  RegistrySound' /\ Kept
<1> DEFINE row == registry[u][c]
<1>1. Sound(row) /\ registry' = [registry EXCEPT ![u][c] = Decided(row, verdict)]
  BY DEF RegistrySound, Decide
<1> HIDE DEF row
<1>2. /\ Decided(row, verdict).status = verdict /\ Decided(row, verdict).key = row.key
      /\ Decided(row, verdict).approved = (row.approved \/ verdict = "approved")
      /\ Decided(row, verdict) \in [status : {"unknown", "pending", "approved", "revoked"},
                                    key : {row.key}, approved : BOOLEAN]
  BY <1>1 DEF Sound, Decided
<1>3. Sound(Decided(row, verdict))
  BY <1>1, <1>2 DEF Sound
<1>4. row.approved => Decided(row, verdict).approved /\ Decided(row, verdict).key = row.key
  BY <1>1, <1>2 DEF Sound
<1> USE DEF row
<1>5. QED BY <1>1, <1>3, <1>4, RowReplaced

\* What is shown stays true while the service and what it was told stay.
LEMMA ApprovalStays ==
  ASSUME ApprovedByServer, EndpointsKnown, Kept, UNCHANGED <<service, reg, told>>
  PROVE  ApprovedByServer'
BY DEF ApprovedByServer, EndpointsKnown, Kept

\* Nothing happens on the servers.
LEMMA SameRegistry ==
  ASSUME RegistrySound, UNCHANGED registry
  PROVE  RegistrySound' /\ Kept
BY DEF RegistrySound, Kept, Sound

\* An identity that start() comes out with is the one in the key file it leaves.
LEMMA IdentityIsSaved ==
  ASSUME IdentityShape, NEW call, call # NoCall,
         NEW id \in Identity(keyfile, call), id[1] # 0
  PROVE  id[2] = [call |-> call, key |-> id[1]]
<1>1. CASE keyfile.call = call
  BY <1>1 DEF Identity, IdentityShape
<1>2. CASE keyfile.call # call
  BY <1>2 DEF Identity, Written
<1>3. QED BY <1>1, <1>2

\* A registration is answered with 409 for a call sign that is approved, or revoked,
\* whatever the key; the status becomes approved in the first case only.
LEMMA RegistrationTells ==
  ASSUME NEW r, NEW row, Sound(row),
         RegisteredAs(r, RegistrationAnswer(row)) = "APPROVED"
  PROVE  row.approved
<1>1. CASE row.status = "approved"
  BY <1>1 DEF Sound
<1>2. CASE row.status = "revoked"
  <2>1. RegistrationAnswer(row) = Answer(409, "revoked")
    BY <1>2 DEF RegistrationAnswer
  <2>2. RegisteredAs(r, RegistrationAnswer(row)) = "REVOKED"
    BY <2>1 DEF RegisteredAs, Answer, Success
  <2>3. QED BY <2>2
<1>3. CASE row.status = "unknown" \/ row.status = "pending"
  <2>1. RegistrationAnswer(row) = Answer(IF row.status = "unknown" THEN 201 ELSE 200, "pending")
    BY <1>3 DEF RegistrationAnswer
  <2>2. RegisteredAs(r, RegistrationAnswer(row)) = "PENDING"
    BY <2>1 DEF RegisteredAs, Answer, Success
  <2>3. QED BY <2>2
<1>4. QED BY <1>1, <1>2, <1>3 DEF Sound

Unauthorized(a) == a.status \in {401, 403}

\* What may come of a report that is posted with a key for a row.
Outcomes(row, key) == {Unanswered, Answer(503, "")} \cup IngestAnswers(row, key)

\* What is wrong with the signature of a request makes it unauthorized.
LEMMA RefusalsAreUnauthorized ==
  ASSUME NEW row, NEW key, NEW a \in Refusals(row, key)
  PROVE  Unauthorized(a)
<1>1. PICK reason \in RefusalReasons(row, key) : a = Answer(401, reason)
  BY DEF Refusals
<1>2. QED BY <1>1 DEF Answer, Unauthorized

\* An unauthorized report does not make the status approved.
LEMMA UnauthorizedTells ==
  ASSUME NEW r, NEW a, Unauthorized(a)
  PROVE  RegAfter(r, a) # "APPROVED"
<1>1. ~Success(a) /\ a.status # 409 /\ a.status \in {401, 403}
  BY DEF Success, Unauthorized
<1>2. RegAfter(r, a) = IF a.status = 403 /\ a.body = "revoked" THEN "REVOKED"
                       ELSE IF a.status = 401 /\ a.body = "pending_approval" THEN "PENDING"
                       ELSE "REJECTED"
  BY <1>1 DEF RegAfter
<1>3. QED BY <1>2

\* A report that is not signed with the key of an approved row is not taken.
LEMMA WrongKeyRefused ==
  ASSUME NEW row, NEW key, row.status # "revoked", ~(row.status = "approved" /\ row.key = key)
  PROVE  \A a \in IngestAnswers(row, key) :
           a = Answer(503, "") \/ a = Answer(422, "") \/ a \in Refusals(row, key)
<1>1. Acceptances(row, key) = {}
  BY DEF Acceptances
<1>2. ASSUME NEW a, a \in IngestAnswers(row, key)
      PROVE  a \in {Answer(503, ""), Answer(422, "")} \/ a \in Refusals(row, key)
                \/ a \in Acceptances(row, key)
  BY <1>2 DEF IngestAnswers
<1>3. ASSUME NEW a, a \in {Answer(503, ""), Answer(422, "")}
      PROVE  a = Answer(503, "") \/ a = Answer(422, "")
  BY <1>3
<1>4. QED BY <1>1, <1>2, <1>3

\* What comes of a post is decided by the row of the call sign in use.
LEMMA OutcomesOfRow ==
  ASSUME NEW u, NEW a \in PostOutcomes(u)
  PROVE  a \in Outcomes(registry[u][service.call], service.key)
<1>1. CASE Trusted(u)
  BY <1>1 DEF PostOutcomes, Outcomes
<1>2. CASE ~Trusted(u)
  BY <1>2 DEF PostOutcomes, Outcomes
<1>3. QED BY <1>1, <1>2

\* Silence, a server that fails and a report it cannot use tell nothing.
LEMMA SilenceTellsNothing ==
  /\ ~TellsStatus(Unanswered) /\ ~TellsStatus(Answer(503, "")) /\ ~TellsStatus(Answer(422, ""))
  /\ Unauthorized(Answer(403, "revoked"))
BY DEF TellsStatus, Success, Unanswered, Answer, Unauthorized

\* An answer that tells nothing leaves the status.
LEMMA NothingTold ==
  ASSUME NEW r, NEW a, ~TellsStatus(a)
  PROVE  RegAfter(r, a) = r
BY DEF TellsStatus, RegAfter

\* A report is answered with 2xx or 409 only if its signature was good for the key
\* of an approved row, and the status becomes approved by no other answer.
LEMMA ReportTells ==
  ASSUME NEW row, NEW key, Sound(row),
         NEW a \in Outcomes(row, key),
         NEW r, RegAfter(r, a) = "APPROVED"
  PROVE  \/ TellsStatus(a) /\ row.approved /\ row.key = key
         \/ ~TellsStatus(a) /\ r = "APPROVED"
<1>1. CASE row.status = "approved" /\ row.key = key /\ TellsStatus(a)
  BY <1>1 DEF Sound
<1>2. CASE ~TellsStatus(a)
  BY <1>2, NothingTold
<1>3. CASE TellsStatus(a) /\ ~(row.status = "approved" /\ row.key = key)
  <2>1. a \in IngestAnswers(row, key) /\ a # Answer(503, "") /\ a # Answer(422, "")
    <3>1. ASSUME a = Unanswered PROVE FALSE
      BY <1>3, <3>1, SilenceTellsNothing
    <3>2. ASSUME a = Answer(503, "") PROVE FALSE
      BY <1>3, <3>2, SilenceTellsNothing
    <3>3. ASSUME a = Answer(422, "") PROVE FALSE
      BY <1>3, <3>3, SilenceTellsNothing
    <3>4. QED BY <3>1, <3>2, <3>3 DEF Outcomes
  <2>2. Unauthorized(a)
    <3>1. CASE row.status = "revoked"
      <4>1. a = Answer(403, "revoked")
        BY <2>1, <3>1 DEF IngestAnswers
      <4>2. QED BY <4>1, SilenceTellsNothing
    <3>2. CASE row.status # "revoked"
      <4>1. a = Answer(503, "") \/ a = Answer(422, "") \/ a \in Refusals(row, key)
        BY <1>3, <2>1, <3>2, WrongKeyRefused
      <4>2. a \in Refusals(row, key)
        BY <2>1, <4>1
      <4>3. QED BY <4>2, RefusalsAreUnauthorized
    <3>3. QED BY <3>1, <3>2
  <2>3. QED BY <2>2, UnauthorizedTells
<1>4. QED BY <1>1, <1>2, <1>3

\* The worker registers the identity.
LEMMA RegisterKeeps ==
  ASSUME RelayInv, Register
  PROVE  RelayInv'
<1>1. UNCHANGED <<sharing, service, keyfile, main>>
  BY DEF Register
<1>2. (IdentityShape /\ StoppedWhileJoining /\ SignsAsSaved /\ EndpointsKnown)'
  BY <1>1 DEF RelayInv, IdentityShape, StoppedWhileJoining, SignsAsSaved, EndpointsKnown
<1>3. CASE UNCHANGED <<registry, reg, told>>
  BY <1>1, <1>2, <1>3, SameRegistry, ApprovalStays DEF RelayInv
<1>4. ASSUME NEW u \in service.url,
             registry' = [registry EXCEPT ![u][service.call] =
                            Registration(registry[u][service.call], service.key)],
             \/ UNCHANGED <<reg, told>>
             \/ /\ reg' = RegisteredAs(reg, RegistrationAnswer(registry[u][service.call]))
                /\ told' = "registration"
      PROVE  RelayInv'
  <2>1. u \in Urls /\ service.call \in Stations
    BY DEF RelayInv, EndpointsKnown
  <2>2. RegistrySound' /\ Kept
    BY <1>4, <2>1, RegistrationKeeps DEF RelayInv
  <2>3. CASE UNCHANGED <<reg, told>>
    BY <1>1, <1>2, <2>2, <2>3, ApprovalStays DEF RelayInv
  <2>4. CASE /\ reg' = RegisteredAs(reg, RegistrationAnswer(registry[u][service.call]))
             /\ told' = "registration"
    <3>1. reg' = "APPROVED" => registry[u][service.call].approved
      BY <2>1, <2>4, RegistrationTells DEF RelayInv, RegistrySound
    <3>2. \A v \in service.url : v = u
      BY <1>4 DEF RelayInv, EndpointsKnown
    <3>3. ApprovedByServer'
      BY <1>1, <2>1, <2>2, <2>4, <3>1, <3>2 DEF ApprovedByServer, Kept
    <3>4. QED BY <1>2, <2>2, <3>3 DEF RelayInv
  <2>5. QED BY <1>4, <2>3, <2>4
<1>5. QED BY <1>3, <1>4 DEF Register

\* The worker learns the status from the answer to a report.
LEMMA PostKeeps ==
  ASSUME RelayInv, PostReturns
  PROVE  RelayInv'
<1>1. UNCHANGED <<sharing, service, keyfile, main, registry>>
  BY DEF PostReturns
<1>2. (IdentityShape /\ StoppedWhileJoining /\ SignsAsSaved /\ EndpointsKnown)'
  BY <1>1 DEF RelayInv, IdentityShape, StoppedWhileJoining, SignsAsSaved, EndpointsKnown
<1>3. RegistrySound'
  BY <1>1, SameRegistry DEF RelayInv
<1>4. PICK u \in service.url : \E a \in PostOutcomes(u) :
        /\ reg' = (IF a.status = 0 THEN reg ELSE RegAfter(reg, a))
        /\ told' = IF TellsStatus(a) THEN "report" ELSE told
  BY DEF PostReturns
<1>5. PICK a \in PostOutcomes(u) :
        /\ reg' = (IF a.status = 0 THEN reg ELSE RegAfter(reg, a))
        /\ told' = IF TellsStatus(a) THEN "report" ELSE told
  BY <1>4
<1> DEFINE row == registry[u][service.call]
<1>6. Sound(row) /\ a \in Outcomes(row, service.key)
  <2>1. u \in Urls /\ service.call \in Stations
    BY DEF RelayInv, EndpointsKnown
  <2>2. Sound(row)
    BY <2>1 DEF RelayInv, RegistrySound
  <2>3. a \in Outcomes(row, service.key)
    BY OutcomesOfRow
  <2>4. QED BY <2>2, <2>3
<1>7. \A v \in service.url : v = u
  BY DEF RelayInv, EndpointsKnown
<1> HIDE DEF row
<1>8. reg' = "APPROVED" =>
        \/ TellsStatus(a) /\ row.approved /\ row.key = service.key
        \/ ~TellsStatus(a) /\ reg = "APPROVED"
  <2>1. CASE a.status = 0
    BY <1>5, <2>1 DEF TellsStatus, Success
  <2>2. CASE a.status # 0 /\ reg' = "APPROVED"
    <3>1. RegAfter(reg, a) = "APPROVED"
      BY <1>5, <2>2
    <3>2. RegAfter(reg, a) = "APPROVED" =>
            \/ TellsStatus(a) /\ row.approved /\ row.key = service.key
            \/ ~TellsStatus(a) /\ reg = "APPROVED"
      BY <1>6, ReportTells
    <3>3. QED BY <3>1, <3>2
  <2>3. QED BY <2>1, <2>2
<1>9. ApprovedByServer'
  <2>1. CASE TellsStatus(a)
    BY <1>1, <1>5, <1>7, <1>8, <2>1 DEF ApprovedByServer, row
  <2>2. CASE ~TellsStatus(a)
    BY <1>1, <1>5, <1>8, <2>2 DEF RelayInv, ApprovedByServer
  <2>3. QED BY <2>1, <2>2
<1>10. QED BY <1>2, <1>3, <1>9 DEF RelayInv

\* The rest of what the worker does, and the servers' operators.
LEMMA OthersKeep ==
  ASSUME RelayInv,
         \/ TakeReport \/ BackoffOver \/ WorkerExit \/ HealthCheck
         \/ \E u \in Urls, c \in Stations, v \in {"approved", "revoked"} : Decide(u, c, v)
  PROVE  RelayInv'
<1>1. UNCHANGED <<sharing, service, keyfile, main, reg, told>>
  BY DEF TakeReport, BackoffOver, WorkerExit, HealthCheck, Decide
<1>2. (IdentityShape /\ StoppedWhileJoining /\ SignsAsSaved /\ EndpointsKnown)'
  BY <1>1 DEF RelayInv, IdentityShape, StoppedWhileJoining, SignsAsSaved, EndpointsKnown
<1>3. RegistrySound' /\ Kept
  <2>1. CASE UNCHANGED registry
    BY <2>1, SameRegistry DEF RelayInv
  <2>2. ASSUME NEW u \in Urls, NEW c \in Stations, NEW v \in {"approved", "revoked"}, Decide(u, c, v)
        PROVE  RegistrySound' /\ Kept
    BY <2>2, DecisionKeeps DEF RelayInv
  <2>3. QED BY <2>1, <2>2 DEF TakeReport, BackoffOver, WorkerExit, HealthCheck
<1>4. QED BY <1>1, <1>2, <1>3, ApprovalStays DEF RelayInv

\* Starting again: a new run has an identity that is saved, and knows nothing.
LEMMA RestartedKeeps ==
  ASSUME RelayInv, Restarted
  PROVE  RelayInv'
<1>1. main' = "loop" /\ UNCHANGED <<sharing, registry>> /\ ~service.running
  BY DEF Restarted, RelayInv, StoppedWhileJoining
<1>2. RegistrySound' /\ StoppedWhileJoining'
  BY <1>1, SameRegistry DEF RelayInv, StoppedWhileJoining
<1>3. CASE sharing.on /\ sharing.self # NoCall
  <2>1. PICK id \in Identity(keyfile, sharing.self) :
          /\ keyfile' = id[2] /\ reg' = "UNKNOWN"
          /\ service' = IF id[1] = 0 THEN Stopped
                        ELSE [running |-> TRUE, call |-> sharing.self, key |-> id[1],
                              url |-> {sharing.url}]
    BY <1>3 DEF Restarted, Reset
  <2>2. keyfile' = [call |-> keyfile'.call, key |-> keyfile'.key]
    BY <2>1 DEF Identity, Written, NoFile, RelayInv, IdentityShape
  <2>3. ApprovedByServer'
    BY <2>1 DEF ApprovedByServer
  <2>4. CASE id[1] = 0
    BY <1>1, <1>2, <2>1, <2>2, <2>3, <2>4
    DEF Stopped, RelayInv, IdentityShape, EndpointsKnown, SignsAsSaved
  <2>5. CASE id[1] # 0
    <3>1. keyfile' = [call |-> sharing.self, key |-> id[1]]
      BY <1>3, <2>1, <2>5, IdentityIsSaved DEF RelayInv
    <3>2. EndpointsKnown'
      BY <1>1, <1>3, <2>1, <2>5 DEF RelayInv, EndpointsKnown
    <3>3. (IdentityShape /\ SignsAsSaved)'
      BY <1>1, <2>1, <2>5, <3>1 DEF IdentityShape, SignsAsSaved
    <3>4. QED BY <1>2, <2>3, <3>2, <3>3 DEF RelayInv
  <2>6. QED BY <2>4, <2>5
<1>4. CASE ~(sharing.on /\ sharing.self # NoCall)
  <2>1. UNCHANGED <<service, keyfile>>
    BY <1>4 DEF Restarted
  <2>2. QED
    BY <1>1, <1>2, <2>1
    DEF RelayInv, IdentityShape, EndpointsKnown, SignsAsSaved, ApprovedByServer
<1>5. QED BY <1>3, <1>4

\* Commands and crashes stop the service before they touch the identity.
LEMMA CommandsKeepIdentity ==
  ASSUME RelayInv, HearReport \/ ShareSet \/ SelfSet \/ Crash \/ UNCHANGED rvars
  PROVE  RelayInv'
<1>1. UNCHANGED registry
  BY DEF HearReport, ShareSet, SelfSet, Crash, rvars
<1>2. RegistrySound' /\ Kept
  BY <1>1, SameRegistry DEF RelayInv
<1> USE DEF RelayInv, IdentityShape, StoppedWhileJoining, SignsAsSaved, EndpointsKnown
<1>3. CASE HearReport \/ UNCHANGED rvars
  BY <1>2, <1>3, ApprovalStays DEF HearReport, rvars
<1>4. CASE SelfSet
  <2>1. UNCHANGED <<service, keyfile, main, reg, told>>
    BY <1>4 DEF SelfSet
  <2>2. /\ sharing' = [on |-> sharing'.on, url |-> sharing'.url, self |-> sharing'.self]
        /\ sharing'.url \in Urls /\ sharing'.self \in Stations \cup {NoCall}
    BY <1>4 DEF SelfSet
  <2>3. QED BY <1>2, <2>1, <2>2, ApprovalStays
<1>5. CASE ShareSet
  <2>1. main' = "joining" /\ service' = [service EXCEPT !.running = FALSE]
    BY <1>5 DEF ShareSet
  <2>2. keyfile' \in {NoFile, keyfile}
    BY <1>5 DEF ShareSet
  <2>3. keyfile' = [call |-> keyfile'.call, key |-> keyfile'.key]
    BY <2>2 DEF NoFile
  <2>4. /\ sharing' = [on |-> sharing'.on, url |-> sharing'.url, self |-> sharing'.self]
        /\ sharing'.url \in Urls /\ sharing'.self \in Stations \cup {NoCall}
    BY <1>5 DEF ShareSet
  <2>5. QED BY <1>2, <2>1, <2>3, <2>4 DEF ApprovedByServer
<1>6. CASE Crash
  BY <1>2, <1>6 DEF Crash, Stopped, ApprovedByServer
<1>7. QED BY <1>3, <1>4, <1>5, <1>6

\* Every step of the service and of the servers' operators.
LEMMA RelayInvNext == RelayInv /\ [RelayNext]_rvars => RelayInv'
BY RegisterKeeps, PostKeeps, OthersKeep, RestartedKeeps, CommandsKeepIdentity
DEF RelayNext, WorkerStep

\* SignsAsSaved (load_or_create_relay_identity, start, stop): whoever signs has
\* its key on disk, through failed writes, regeneration and crashes.
THEOREM SignerIsSaved == RelaySpec => []SignsAsSaved
<1>1. RelayInv => SignsAsSaved
  BY DEF RelayInv
<1>2. QED
  BY <1>1, RelayInvInit, RelayInvNext, PTL DEF RelaySpec

\* ApprovedByServer (update_reg_state, register_identity, start): an approval shown
\* was learnt in this run, from the server in use and for the call sign in use, whose
\* operator gave it, and once a report was answered it is one of the key in use;
\* although settings, call signs and keys change, the server's operator approves and
\* revokes, and answers of an earlier run may come in until its worker is joined. The
\* invariant that carries it says what a row of the server's table may be.
THEOREM ApprovalIsCurrent == RelaySpec => []ApprovedByServer
<1>1. RelayInv => ApprovedByServer
  BY DEF RelayInv
<1>2. QED
  BY <1>1, RelayInvInit, RelayInvNext, PTL DEF RelaySpec

-----------------------------------------------------------------------------
(* What the service keeps in memory *)

Reports == [source : Stations \cup {NoCall}, pos : Nat, n : Nat, tries : 0..MaxRetries]

WorkerStages == {"none", "register", "idle", "posting", "backoff"}

\* The queue, the dedup list and the attempts stay within their limits.
MemoryBounded ==
  /\ heard \in Nat
  /\ reports \in Seq(Reports) /\ Len(reports) <= QueueSize
  /\ dedup.keys \in Seq(Stations \X Nat) /\ Len(dedup.keys) <= DedupMax
  /\ worker \in [pc : WorkerStages, report : Reports]

\* A full queue makes room by losing one report.
LEMMA QueuedBounded ==
  ASSUME NEW q \in Seq(Reports), Len(q) <= QueueSize, NEW r \in Reports
  PROVE  Queued(q, r) \in Seq(Reports) /\ Len(Queued(q, r)) <= QueueSize
<1>1. CASE Len(q) >= QueueSize
  <2>1. q # <<>> /\ Tail(q) \in Seq(Reports) /\ Len(Tail(q)) = Len(q) - 1
    BY <1>1, RelayAssumption
  <2>2. QED BY <1>1, <2>1, RelayAssumption DEF Queued
<1>2. CASE ~(Len(q) >= QueueSize)
  BY <1>2, RelayAssumption DEF Queued
<1>3. QED BY <1>1, <1>2

\* The dedup list forgets its oldest entry.
LEMMA RememberBounded ==
  ASSUME NEW d, d.keys \in Seq(Stations \X Nat), Len(d.keys) <= DedupMax,
         NEW r \in Reports, r.source \in Stations
  PROVE  /\ Remember(d, r).keys \in Seq(Stations \X Nat)
         /\ Len(Remember(d, r).keys) <= DedupMax
<1> DEFINE keys == Append(d.keys, DedupKey(r))
<1>1. DedupKey(r) \in Stations \X Nat
  BY DEF DedupKey, Reports
<1>2. keys \in Seq(Stations \X Nat) /\ Len(keys) = Len(d.keys) + 1
  BY <1>1
<1>3. keys # <<>> /\ Tail(keys) \in Seq(Stations \X Nat) /\ Len(Tail(keys)) = Len(d.keys)
  BY <1>2
<1> HIDE DEF keys
<1>4. QED BY <1>2, <1>3, RelayAssumption DEF Remember, keys

\* Another attempt is made only while there are attempts left.
LEMMA TriesBounded ==
  ASSUME NEW r \in Reports, NEW a, Retried(r, a)
  PROVE  [r EXCEPT !.tries = Min({@ + 1, MaxRetries})] \in Reports
<1>1. r.tries + 1 <= MaxRetries /\ r.tries + 1 \in 0..MaxRetries
  BY RelayAssumption DEF Retried, Reports
<1>2. Min({r.tries + 1, MaxRetries}) \in {r.tries + 1, MaxRetries}
  BY <1>1, RelayAssumption DEF Min
<1>3. QED BY <1>1, <1>2, RelayAssumption DEF Reports

\* The steps that touch the queue, the dedup list or the report in hand.
LEMMA MemoryNext ==
  ASSUME MemoryBounded, [RelayNext]_rvars
  PROVE  MemoryBounded'
<1> USE DEF MemoryBounded
<1>0. NoReport \in Reports /\ <<>> \in Seq(Reports) /\ <<>> \in Seq(Stations \X Nat)
  BY RelayAssumption DEF NoReport, Reports
<1>1. CASE HearReport
  <2>1. PICK src \in Stations, p \in {1, 2} :
          LET r == [source |-> src, pos |-> p, n |-> heard + 1, tries |-> 0] IN
          /\ heard' = heard + 1 /\ worker' = worker
          /\ \/ UNCHANGED <<dedup, reports>>
             \/ dedup' = Remember(dedup, r) /\ reports' = Queued(reports, r)
    BY <1>1 DEF HearReport
  <2> DEFINE r == [source |-> src, pos |-> p, n |-> heard + 1, tries |-> 0]
  <2>2. r \in Reports /\ r.source \in Stations
    BY RelayAssumption DEF Reports
  <2> HIDE DEF r
  <2>3. CASE UNCHANGED <<dedup, reports>>
    BY <2>1, <2>3
  <2>4. CASE dedup' = Remember(dedup, r) /\ reports' = Queued(reports, r)
    <3>1. reports' \in Seq(Reports) /\ Len(reports') <= QueueSize
      BY <2>2, <2>4, QueuedBounded
    <3>2. dedup'.keys \in Seq(Stations \X Nat) /\ Len(dedup'.keys) <= DedupMax
      BY <2>2, <2>4, RememberBounded
    <3>3. QED BY <2>1, <3>1, <3>2
  <2>5. QED BY <2>1, <2>3, <2>4 DEF r
<1>2. CASE \/ ShareSet \/ SelfSet \/ Restarted \/ Register \/ HealthCheck \/ WorkerExit
           \/ \E u \in Urls, c \in Stations, v \in {"approved", "revoked"} : Decide(u, c, v)
           \/ UNCHANGED rvars
  <2>1. UNCHANGED <<heard, reports, dedup>>
    BY <1>2 DEF ShareSet, SelfSet, Restarted, Register, HealthCheck, WorkerExit, Decide, rvars
  <2>2. worker' = worker \/ \E pc \in WorkerStages : worker' = [worker EXCEPT !.pc = pc]
    BY <1>2 DEF ShareSet, SelfSet, Restarted, Register, HealthCheck, WorkerExit, Decide, rvars,
                WorkerStages
  <2>3. QED BY <2>1, <2>2
<1>3. CASE Crash
  BY <1>0, <1>3, RelayAssumption DEF Crash, WorkerStages
<1>4. CASE TakeReport
  <2>1. reports # <<>> /\ reports' = Tail(reports) /\ UNCHANGED <<heard, dedup>>
    BY <1>4 DEF TakeReport
  <2>2. worker' \in {worker, [pc |-> "posting", report |-> Head(reports)]}
    BY <1>4 DEF TakeReport
  <2>3. QED BY <2>1, <2>2, RelayAssumption DEF WorkerStages
<1>5. CASE PostReturns
  <2>1. UNCHANGED <<heard, reports, dedup>>
    BY <1>5 DEF PostReturns
  <2>2. PICK a :
          worker' = IF Retried(worker.report, a)
                    THEN [pc |-> "backoff",
                          report |-> [worker.report EXCEPT !.tries = Min({@ + 1, MaxRetries})]]
                    ELSE [pc |-> "idle", report |-> NoReport]
    BY <1>5 DEF PostReturns
  <2>3. CASE Retried(worker.report, a)
    <3>1. [worker.report EXCEPT !.tries = Min({@ + 1, MaxRetries})] \in Reports
      BY <2>3, TriesBounded
    <3>2. QED BY <2>1, <2>2, <2>3, <3>1 DEF WorkerStages
  <2>4. CASE ~Retried(worker.report, a)
    BY <1>0, <2>1, <2>2, <2>4 DEF WorkerStages
  <2>5. QED BY <2>3, <2>4
<1>6. CASE BackoffOver
  <2>1. UNCHANGED <<heard, dedup>> /\ worker' = [pc |-> "idle", report |-> NoReport]
    BY <1>6 DEF BackoffOver
  <2>2. reports' = IF service.running /\ Len(reports) < QueueSize
                   THEN Append(reports, worker.report) ELSE reports
    BY <1>6 DEF BackoffOver
  <2>3. worker' \in [pc : WorkerStages, report : Reports]
    BY <1>0, <2>1 DEF WorkerStages
  <2>4. reports' \in Seq(Reports) /\ Len(reports') <= QueueSize
    BY <2>2, RelayAssumption
  <2>5. QED BY <2>1, <2>3, <2>4
<1>7. QED
  BY <1>1, <1>2, <1>3, <1>4, <1>5, <1>6 DEF RelayNext, WorkerStep

\* However long the server is away, the service keeps no more reports and
\* dedup keys than its settings allow, nor tries a report more often
\* (LocationRelayService::enqueue, worker_loop).
THEOREM RelayMemoryBounded == RelaySpec => []MemoryBounded
<1>1. RelayInit => MemoryBounded
  BY RelayAssumption DEF RelayInit, MemoryBounded, NoReport, Reports, WorkerStages
<1>2. QED
  BY <1>1, MemoryNext, PTL DEF RelaySpec

-----------------------------------------------------------------------------
(***************************************************************************)
(* The controller and the link quality analyzer follow what the services   *)
(* know.  What the reader knows reaches the controller in two hops, the    *)
(* callback it owes and the mailbox, so the inductive invariant says that  *)
(* the last hop that is not empty carries the fix, in every stage.         *)
(***************************************************************************)

Readers == {"none", "opening", "reading", "announcing"}
Sightings == [valid : BOOLEAN, pos : Nat]

FeedTypeOK ==
  /\ source \in [pos : PositionSources, flux : BOOLEAN]
  /\ reader \in [pc : Readers, running : BOOLEAN, kind : Live,
                 told : [to : Sightings, next : {"none", "opening", "reading"}]]
  /\ fix \in Sightings
  /\ raw_gga \in Nat
  /\ flux \in [pc : {"none", "fetching", "waiting"}, running : BOOLEAN, value : Nat]
  /\ mailbox \in [gps_dirty : BOOLEAN, acq : BOOLEAN, pos : Nat, sfi_dirty : BOOLEAN, sfi : Nat]
  /\ ctl \in [valid : BOOLEAN, pos : Nat, gga : Nat, sfi : Nat]

\* Somebody's idea of the fix, given by its validity and its position.
Agrees(valid, pos) == valid = fix.valid /\ (fix.valid => pos = fix.pos)

\* The callback under way, else the mailbox, else the controller has the fix.
FixOnItsWay ==
  /\ reader.pc = "announcing" => Agrees(reader.told.to.valid, reader.told.to.pos)
  /\ reader.pc # "announcing" /\ mailbox.gps_dirty => Agrees(mailbox.acq, mailbox.pos)
  /\ reader.pc # "announcing" /\ ~mailbox.gps_dirty => Agrees(ctl.valid, ctl.pos)

\* Nobody but a reader with an open port has a fix, nor one who is about to
\* tell that the port is closed.
FixNeedsPort ==
  /\ reader.pc \in {"none", "opening"} => ~fix.valid
  /\ reader.pc = "announcing" /\ reader.told.next # "reading" => ~fix.valid

FluxOnItsWay == flux.value = IF mailbox.sfi_dirty THEN mailbox.sfi ELSE ctl.sfi

ContextInStep == context = ContextOf(source.pos, ctl)

FeedInv == FeedTypeOK /\ FixOnItsWay /\ FixNeedsPort /\ FluxOnItsWay /\ ContextInStep

\* The property is the case in which both hops are empty.
LEMMA FeedInvSuffices == FeedInv => FeedFollows
BY DEF FeedInv, FeedTypeOK, FixOnItsWay, FluxOnItsWay, ContextInStep, FeedFollows, Agrees

\* At the start nobody knows anything.
LEMMA FeedInvInit == FeedInit => FeedInv
<1> SUFFICES ASSUME FeedInit PROVE FeedInv
  OBVIOUS
<1>1. FeedTypeOK
  BY DEF FeedInit, FeedTypeOK, Readers, Sightings, NoFix, NothingToTell, NoSighting,
         Sighting, Live
<1>2. FixOnItsWay
  BY DEF FeedInit, FixOnItsWay, Agrees, NoFix
<1>3. FixNeedsPort /\ FluxOnItsWay /\ ContextInStep
  BY DEF FeedInit, FixNeedsPort, FluxOnItsWay, ContextInStep, NoFix
<1>4. QED BY <1>1, <1>2, <1>3 DEF FeedInv

-----------------------------------------------------------------------------
\* What the lines of a receiver say is a sighting.
LEMMA LinesAreSightings ==
  /\ TpvLines \subseteq Sightings /\ RmcLines \subseteq Sightings
  /\ GgaLines \subseteq Sightings /\ NoSighting \in Sightings
<1> USE DEF Sightings, Sighting
<1>1. NoSighting \in Sightings
  BY DEF NoSighting
<1>2. ASSUME NEW p \in Positions PROVE Sighting(TRUE, p) \in Sightings
  BY FeedAssumption
<1>3. GgaLines \subseteq Sightings
  BY <1>2 DEF GgaLines
<1>4. TpvLines \subseteq Sightings
  BY <1>1, <1>2 DEF TpvLines
<1>5. QED BY <1>1, <1>3, <1>4 DEF RmcLines

\* The reader keeps a new fix and owes a callback exactly if it is news.
LEMMA UpdateFixKeeps ==
  ASSUME FeedInv, reader.pc = "reading", NEW s \in Sightings,
         NEW next \in {"opening", "reading"}, next = "opening" => ~s.valid,
         UpdateFix(s, next), raw_gga' \in Nat,
         UNCHANGED <<source, flux, mailbox, ctl, context>>
  PROVE  FeedInv'
<1> USE DEF FeedInv
<1>1. fix' \in Sightings /\ fix'.valid = s.valid /\ (s.valid => fix'.pos = s.pos)
  BY DEF UpdateFix, FixAfter, FeedTypeOK, Sightings
<1>2. CASE Changed(s)
  <2>1. reader' = [reader EXCEPT !.pc = "announcing", !.told = [to |-> s, next |-> next]]
    BY <1>2 DEF UpdateFix
  <2>2. FeedTypeOK'
    BY <1>1, <2>1 DEF FeedTypeOK, Readers
  <2>3. (FixOnItsWay /\ FixNeedsPort)'
    BY <1>1, <2>1 DEF FixOnItsWay, FixNeedsPort, Agrees, FeedTypeOK
  <2>4. QED BY <2>2, <2>3 DEF FluxOnItsWay, ContextInStep
<1>3. CASE ~Changed(s)
  <2>1. reader' = [reader EXCEPT !.pc = next]
    BY <1>3 DEF UpdateFix
  <2>2. FeedTypeOK'
    BY <1>1, <2>1 DEF FeedTypeOK, Readers
  <2>3. fix'.valid = fix.valid /\ (fix.valid => fix'.pos = fix.pos)
    BY <1>1, <1>3 DEF Changed, FeedTypeOK, Sightings
  <2>4. (FixOnItsWay /\ FixNeedsPort)'
    BY <1>1, <2>1, <2>3 DEF FixOnItsWay, FixNeedsPort, Agrees, FeedTypeOK
  <2>5. QED BY <2>2, <2>4 DEF FluxOnItsWay, ContextInStep
<1>4. QED BY <1>2, <1>3

\* The GPS thread.
LEMMA ReaderKeeps ==
  ASSUME FeedInv,
         OpenPort \/ ReadLine \/ Silence \/ ClosePort \/ Announce \/ ReaderExit
  PROVE  FeedInv'
<1>1. CASE OpenPort \/ Silence \/ ReaderExit
  BY <1>1 DEF OpenPort, Silence, ReaderExit, FeedInv, FeedTypeOK, FixOnItsWay, FixNeedsPort,
              FluxOnItsWay, ContextInStep, Agrees, Readers
<1>2. CASE ReadLine
  <2>1. PICK s \in Sightings : UpdateFix(s, "reading") /\ (raw_gga' = raw_gga \/ raw_gga' = s.pos)
    BY <1>2, LinesAreSightings DEF ReadLine
  <2>2. raw_gga' \in Nat
    BY <2>1 DEF FeedInv, FeedTypeOK, Sightings
  <2>3. reader.pc = "reading" /\ UNCHANGED <<source, flux, mailbox, ctl, context>>
    BY <1>2 DEF ReadLine
  <2>4. QED BY <2>1, <2>2, <2>3, UpdateFixKeeps
<1>3. CASE ClosePort
  <2>1. /\ reader.pc = "reading" /\ UpdateFix(NoSighting, "opening")
        /\ UNCHANGED <<raw_gga, source, flux, mailbox, ctl, context>>
    BY <1>3 DEF ClosePort, FixEndsAtClose
  <2>2. ~NoSighting.valid /\ raw_gga' \in Nat
    BY <2>1 DEF NoSighting, Sighting, FeedInv, FeedTypeOK
  <2>3. QED BY <2>1, <2>2, LinesAreSightings, UpdateFixKeeps
<1>4. CASE Announce
  <2> USE <1>4 DEF Announce, FeedInv
  <2>1. FeedTypeOK'
    BY DEF FeedTypeOK, Readers, Sightings, NothingToTell, NoSighting, Sighting
  <2>2. (FixOnItsWay /\ FixNeedsPort)'
    BY DEF FeedTypeOK, FixOnItsWay, FixNeedsPort, Agrees
  <2>3. (FluxOnItsWay /\ ContextInStep)'
    BY DEF FeedTypeOK, FluxOnItsWay, ContextInStep
  <2>4. QED BY <2>1, <2>2, <2>3
<1>5. QED BY <1>1, <1>2, <1>3, <1>4

\* The flux thread.
LEMMA FluxKeeps ==
  ASSUME FeedInv, Fetch \/ FluxWaited
  PROVE  FeedInv'
<1> USE DEF FeedInv
<1>1. UNCHANGED <<source, reader, fix, raw_gga, ctl, context>>
  BY DEF Fetch, FluxWaited
<1>2. /\ flux' \in [pc : {"none", "fetching", "waiting"}, running : BOOLEAN, value : Nat]
      /\ \/ mailbox' = mailbox /\ flux'.value = flux.value
         \/ \E v \in Nat : /\ flux'.value = v
                           /\ mailbox' = [mailbox EXCEPT !.sfi_dirty = TRUE, !.sfi = v]
  <2>1. CASE FluxWaited
    BY <2>1 DEF FluxWaited, FeedTypeOK
  <2>2. CASE Fetch /\ mailbox' = mailbox /\ flux' = [flux EXCEPT !.pc = "waiting"]
    BY <2>2 DEF FeedTypeOK
  <2>3. ASSUME NEW v \in FluxValues,
               flux' = [flux EXCEPT !.pc = "waiting", !.value = v],
               mailbox' = [mailbox EXCEPT !.sfi_dirty = TRUE, !.sfi = v]
        PROVE  <1>2!1 /\ <1>2!2
    BY <2>3, FeedAssumption DEF FeedTypeOK
  <2>4. QED BY <2>1, <2>2, <2>3 DEF Fetch
<1>3. FeedTypeOK'
  BY <1>1, <1>2 DEF FeedTypeOK
<1>4. (FixOnItsWay /\ FixNeedsPort)'
  BY <1>1, <1>2 DEF FixOnItsWay, FixNeedsPort, Agrees, FeedTypeOK
<1>5. (FluxOnItsWay /\ ContextInStep)'
  BY <1>1, <1>2 DEF FluxOnItsWay, ContextInStep, FeedTypeOK
<1>6. QED BY <1>3, <1>4, <1>5

\* The main loop empties the mailbox.
LEMMA DrainKeeps ==
  ASSUME FeedInv, Drain
  PROVE  FeedInv'
<1> USE DEF FeedInv, Drain
<1>1. /\ ctl' \in [valid : BOOLEAN, pos : Nat, gga : Nat, sfi : Nat]
      /\ ctl'.valid = IF mailbox.gps_dirty THEN mailbox.acq ELSE ctl.valid
      /\ ctl'.pos = IF mailbox.gps_dirty /\ mailbox.acq THEN mailbox.pos ELSE ctl.pos
      /\ ctl'.sfi = IF mailbox.sfi_dirty THEN mailbox.sfi ELSE ctl.sfi
  BY DEF Drained, FeedTypeOK
<1>2. FeedTypeOK'
  BY <1>1 DEF FeedTypeOK
<1>3. (FixOnItsWay /\ FixNeedsPort /\ FluxOnItsWay)'
  BY <1>1 DEF FixOnItsWay, FixNeedsPort, FluxOnItsWay, Agrees, FeedTypeOK
<1>4. ContextInStep'
  BY <1>1 DEF ContextInStep, ContextOf
<1>5. QED BY <1>2, <1>3, <1>4

\* A new source takes effect before the services are stopped.
LEMMA SetSourceKeeps ==
  ASSUME FeedInv, SetSource
  PROVE  FeedInv'
<1> USE DEF FeedInv, SetSource
<1>1. FeedTypeOK'
  <2>1. source' \in [pos : PositionSources, flux : BOOLEAN]
    OBVIOUS
  <2>2. QED BY <2>1 DEF FeedTypeOK
<1>2. (FixOnItsWay /\ FixNeedsPort /\ FluxOnItsWay)'
  BY DEF FixOnItsWay, FixNeedsPort, FluxOnItsWay, Agrees, FeedTypeOK
<1>3. ContextInStep'
  BY DEF ContextInStep, ContextOf
<1>4. QED BY <1>1, <1>2, <1>3

\* The joined reader has told that it has no fix any more, so the services
\* start from what the controller knows or is about to.
LEMMA RestartKeeps ==
  ASSUME FeedInv, RestartServices
  PROVE  FeedInv'
<1> USE DEF FeedInv, RestartServices
<1>1. ~fix.valid /\ ~fix'.valid
  BY DEF FixNeedsPort, FeedTypeOK, Sightings
<1>2. FeedTypeOK'
  BY DEF FeedTypeOK, Readers, Sightings
<1>3. (FixOnItsWay /\ FixNeedsPort)'
  <2>1. reader.pc = "none" /\ reader'.pc \in {"none", "opening"} /\ UNCHANGED <<mailbox, ctl>>
    BY DEF FeedTypeOK
  <2>2. (mailbox.gps_dirty => ~mailbox.acq) /\ (~mailbox.gps_dirty => ~ctl.valid)
    BY <1>1, <2>1 DEF FixOnItsWay, Agrees, FeedTypeOK
  <2>3. QED BY <1>1, <1>2, <2>1, <2>2 DEF FixOnItsWay, FixNeedsPort, Agrees, FeedTypeOK, Sightings
<1>4. (FluxOnItsWay /\ ContextInStep)'
  BY DEF FluxOnItsWay, ContextInStep, FeedTypeOK
<1>5. QED BY <1>2, <1>3, <1>4

\* Every step of the three threads.
LEMMA FeedInvNext == FeedInv /\ [FeedNext]_gvars => FeedInv'
<1> SUFFICES ASSUME FeedInv, [FeedNext]_gvars PROVE FeedInv'
  OBVIOUS
<1>1. CASE UNCHANGED gvars
  BY <1>1 DEF gvars, FeedInv, FeedTypeOK, FixOnItsWay, FixNeedsPort, FluxOnItsWay,
              ContextInStep, Agrees
<1>2. QED
  BY <1>1, ReaderKeeps, FluxKeeps, DrainKeeps, SetSourceKeeps, RestartKeeps DEF FeedNext

\* FeedFollows (GpsService::update_fix, the bridge's callbacks and
\* drain_location_updates): nothing the services know is lost between the
\* threads, through any number of lost connections and changes of the source.
THEOREM ControllerFollowsFix == FeedSpec => []FeedFollows
BY FeedInvInit, FeedInvNext, FeedInvSuffices, PTL DEF FeedSpec

-----------------------------------------------------------------------------
(***************************************************************************)
(* The radio is keyed for somebody, whatever the browser commands, however *)
(* devices come and go, and whenever links and bursts begin and end.  The  *)
(* property alone is not inductive: leaving the voice mode releases the    *)
(* radio that the voice path knows, so the one that is keyed for the       *)
(* operator alone must be that one.                                        *)
(***************************************************************************)

Bursts  == {"none", "sending", "tail"}
Sources == {"symbols", "microphone", "silence"}

VoiceTypeOK ==
  /\ audio \in [dev : Devices \cup {None}, source : Sources]
  /\ rig \in [dev : Devices \cup {None}, keyed : BOOLEAN]
  /\ voice \in [armed : BOOLEAN, linked : BOOLEAN, talking : BOOLEAN,
                mode : {"exclusive", "passthrough"}, radio : Devices \cup {None}]
  /\ modem \in [link : BOOLEAN, burst : Bursts, manual : BOOLEAN]
  /\ button \in BOOLEAN

\* A radio that is keyed for the operator alone is the one he talks through.
TalkerHoldsRadio ==
  rig.keyed /\ modem.burst = "none" /\ ~modem.manual =>
    MediaWanted(voice) /\ voice.radio = rig.dev

\* A keyed radio is one that is attached.
VoiceAttached == rig.keyed => rig.dev # None

VoiceInv == VoiceTypeOK /\ TalkerHoldsRadio /\ VoiceAttached

\* The property follows from the stronger one.
LEMMA VoiceInvSuffices == VoiceInv => KeyedForSomebody
BY DEF VoiceInv, VoiceTypeOK, TalkerHoldsRadio, KeyedForSomebody

\* The program starts without a radio.
LEMMA VoiceInvInit == VoiceInit => VoiceInv
<1> SUFFICES ASSUME VoiceInit PROVE VoiceInv
  OBVIOUS
<1>1. VoiceTypeOK
  BY DEF VoiceInit, VoiceTypeOK, Bursts, Sources
<1>2. ~rig.keyed
  BY DEF VoiceInit
<1>3. QED BY <1>1, <1>2 DEF VoiceInv, TalkerHoldsRadio, VoiceAttached

\* The voice path keys and releases the radio that it was bound to, no other.
LEMMA KeyFromTyped ==
  ASSUME VoiceTypeOK, NEW v, NEW on \in BOOLEAN, KeyFrom(v, on)
  PROVE  /\ rig' \in [dev : Devices \cup {None}, keyed : BOOLEAN]
         /\ rig'.dev = rig.dev
         /\ v.radio = rig.dev /\ rig.dev # None => rig'.keyed = on
         /\ ~(v.radio = rig.dev /\ rig.dev # None) => rig' = rig
BY DEF KeyFrom, VoiceTypeOK

\* What a change of the link, or of the voice mode, must hand over.
Managers == [armed : BOOLEAN, linked : BOOLEAN, talking : BOOLEAN,
             mode : {"exclusive", "passthrough"}, radio : Devices \cup {None}]

\* A change of the link, or of the voice mode: whoever talked until now has his
\* radio released.
LEMMA OnLinkStateKeeps ==
  ASSUME VoiceInv, VoiceAttached, NEW v \in Managers,
         v.talking = voice.talking, v.mode = voice.mode, v.radio = voice.radio,
         OnLinkState(v),
         modem' \in [link : BOOLEAN, burst : Bursts, manual : BOOLEAN],
         modem'.burst = modem.burst, modem'.manual = modem.manual,
         UNCHANGED <<audio, button>>
  PROVE  VoiceInv'
<1> USE DEF VoiceInv, VoiceTypeOK, TalkerHoldsRadio, MediaWanted, Managers, VoiceAttached
<1> DEFINE want == v.linked /\ v.armed
<1>1. CASE want /\ v.mode = "exclusive"
  <2>1. /\ voice' = [v EXCEPT !.mode = "passthrough", !.talking = FALSE]
        /\ rig' = rig
    BY <1>1 DEF OnLinkState
  <2>2. QED BY <2>1, <1>1
<1>2. CASE ~want /\ v.mode = "passthrough"
  <2>1. /\ voice' = [v EXCEPT !.mode = "exclusive", !.talking = FALSE]
        /\ Released(v)
    BY <1>2 DEF OnLinkState
  <2>2. CASE v.talking
    <3>1. KeyFrom(v, FALSE)
      BY <2>1, <2>2 DEF Released
    <3>2. QED BY <2>1, <3>1, KeyFromTyped
  <2>3. CASE ~v.talking
    <3>1. rig' = rig
      BY <2>1, <2>3 DEF Released
    <3>2. QED BY <2>1, <2>3, <3>1
  <2>4. QED BY <2>2, <2>3
<1>3. CASE want <=> v.mode = "passthrough"
  <2>1. voice' = v /\ rig' = rig
    BY <1>3 DEF OnLinkState
  <2>2. QED BY <2>1
<1>4. v.mode \in {"exclusive", "passthrough"} /\ v.linked \in BOOLEAN /\ v.armed \in BOOLEAN
  OBVIOUS
<1> HIDE DEF VoiceInv
<1>5. QED BY <1>1, <1>2, <1>3, <1>4

-----------------------------------------------------------------------------
\* A tick binds the voice path to the radio that is attached now; whoever talks
\* talks through that one.
LEMMA BindKeeps == VoiceInv /\ Bind => VoiceInv'
<1> SUFFICES ASSUME VoiceInv, Bind PROVE VoiceInv'
  OBVIOUS
<1>1. /\ voice' = [voice EXCEPT !.radio = rig.dev]
      /\ UNCHANGED <<rig, modem, button>>
  BY DEF Bind
<1>2. Wanted \in Sources
  BY DEF Wanted, Sources
<1>3. audio' = audio \/ audio' = [audio EXCEPT !.source = Wanted]
  BY DEF Bind
<1>4. audio' \in [dev : Devices \cup {None}, source : Sources]
  BY <1>2, <1>3 DEF VoiceInv, VoiceTypeOK
<1>5. QED
  BY <1>1, <1>4 DEF VoiceInv, VoiceTypeOK, TalkerHoldsRadio, VoiceAttached, MediaWanted

\* The operator's button: in the voice mode the voice path's PTT, else the
\* controller's manual PTT.
LEMMA SetPttKeeps == VoiceInv /\ SetPtt => VoiceInv'
<1> SUFFICES ASSUME VoiceInv, SetPtt PROVE VoiceInv'
  OBVIOUS
<1>1. button' = ~button /\ button' \in BOOLEAN /\ UNCHANGED audio
  BY DEF SetPtt, VoiceInv, VoiceTypeOK
<1>2. CASE Voiced
  <2>1. /\ voice' = [voice EXCEPT !.talking = button']
        /\ IF button' # voice.talking THEN KeyFrom(voice, button') ELSE rig' = rig
        /\ modem' = modem
    BY <1>2 DEF SetPtt
  <2>2. CASE button' # voice.talking
    <3>1. KeyFrom(voice, button')
      BY <2>1, <2>2
    <3>2. QED
      BY <1>1, <1>2, <2>1, <2>2, <3>1, KeyFromTyped
      DEF VoiceInv, VoiceTypeOK, TalkerHoldsRadio, VoiceAttached, MediaWanted, Voiced
  <2>3. CASE button' = voice.talking
    BY <1>1, <2>1, <2>3
    DEF VoiceInv, VoiceTypeOK, TalkerHoldsRadio, VoiceAttached, MediaWanted
  <2>4. QED BY <2>2, <2>3
<1>3. CASE ~Voiced
  <2>1. ManualPtt(button') /\ voice' = voice
    BY <1>3 DEF SetPtt
  <2>2. CASE button'
    BY <1>1, <2>1, <2>2, ZenonT(60)
    DEF ManualPtt, VoiceInv, VoiceTypeOK, TalkerHoldsRadio, VoiceAttached, MediaWanted, Bursts
  <2>3. CASE ~button'
    BY <1>1, <2>1, <2>3, ZenonT(60)
    DEF ManualPtt, VoiceInv, VoiceTypeOK, TalkerHoldsRadio, VoiceAttached, MediaWanted, Bursts
  <2>4. QED BY <1>1, <2>2, <2>3
<1>4. QED BY <1>2, <1>3

\* Audio devices come and go without a word to the radio; a radio that has just
\* been attached is not keyed.
LEMMA DevicesKeep == VoiceInv /\ (AudioOpen \/ AudioClose \/ RigConnect) => VoiceInv'
<1> SUFFICES ASSUME VoiceInv, AudioOpen \/ AudioClose \/ RigConnect PROVE VoiceInv'
  OBVIOUS
<1> USE DEF VoiceInv, VoiceTypeOK, TalkerHoldsRadio, VoiceAttached, MediaWanted
<1>1. CASE AudioOpen
  BY <1>1 DEF AudioOpen, NewAddresses, Sources
<1>2. CASE AudioClose
  BY <1>2 DEF AudioClose, Sources
<1>3. CASE RigConnect
  BY <1>3 DEF RigConnect
<1>4. QED BY <1>1, <1>2, <1>3

\* A burst keys the radio for itself and leaves it unkeyed, whoever talks.
LEMMA BurstsKeep == VoiceInv /\ (BurstBegins \/ BurstEnds \/ TailOver) => VoiceInv'
<1> SUFFICES ASSUME VoiceInv, BurstBegins \/ BurstEnds \/ TailOver PROVE VoiceInv'
  OBVIOUS
<1> USE DEF VoiceInv, VoiceTypeOK, TalkerHoldsRadio, VoiceAttached, MediaWanted, Bursts, Updated
<1>1. CASE BurstBegins
  BY <1>1 DEF BurstBegins
<1>2. CASE BurstEnds
  BY <1>2, ZenonT(60) DEF BurstEnds, Unkeyed
<1>3. CASE TailOver
  BY <1>3 DEF TailOver, Unkeyed
<1>4. QED BY <1>1, <1>2, <1>3

\* Every step of the bridge.
LEMMA VoiceInvNext == VoiceInv /\ [VoiceNext]_vvars => VoiceInv'
<1> SUFFICES ASSUME VoiceInv, [VoiceNext]_vvars PROVE VoiceInv'
  OBVIOUS
<1> USE DEF VoiceInv, VoiceTypeOK, TalkerHoldsRadio, VoiceAttached, MediaWanted
<1>1. CASE Bind
  BY <1>1, BindKeeps
<1>2. CASE VoiceArm
  <2>1. PICK on \in BOOLEAN : OnLinkState([voice EXCEPT !.armed = on])
    BY <1>2 DEF VoiceArm
  <2>2. [voice EXCEPT !.armed = on] \in Managers
    BY DEF Managers
  <2>3. UNCHANGED <<audio, button, modem>>
    BY <1>2 DEF VoiceArm
  <2>4. QED BY <2>1, <2>2, <2>3, OnLinkStateKeeps
<1>3. CASE LinkChanges
  <2>1. /\ modem' = [modem EXCEPT !.link = ~@]
        /\ OnLinkState([voice EXCEPT !.linked = modem'.link])
        /\ UNCHANGED <<audio, button>>
    BY <1>3 DEF LinkChanges, Updated
  <2>2. [voice EXCEPT !.linked = modem'.link] \in Managers
    BY <2>1 DEF Managers
  <2>3. QED BY <2>1, <2>2, OnLinkStateKeeps
<1>4. CASE SetPtt
  BY <1>4, SetPttKeeps
<1>5. CASE AudioOpen \/ AudioClose \/ RigConnect
  BY <1>5, DevicesKeep
<1>6. CASE BurstBegins \/ BurstEnds \/ TailOver
  BY <1>6, BurstsKeep
<1>7. CASE CommandsTaken \/ AudioMonitor \/ Idle \/ UNCHANGED vvars
  <2>1. UNCHANGED <<audio, rig, voice, modem, button>>
    BY <1>7 DEF CommandsTaken, AudioMonitor, Idle, Updated, vvars
  <2>2. QED BY <2>1
<1>8. QED
  BY <1>1, <1>2, <1>3, <1>4, <1>5, <1>6, <1>7 DEF VoiceNext

\* KeyedForSomebody (VoicePathManager::on_link_state, set_ptt and the
\* controller's set_manual_ptt and tick_ptt_timing): the radio is never left
\* keyed by an operator whose link or voice mode is gone.
THEOREM VoiceReleasesRadio == VoiceSpec => []KeyedForSomebody
BY VoiceInvInit, VoiceInvNext, VoiceInvSuffices, PTL DEF VoiceSpec

-----------------------------------------------------------------------------
(***************************************************************************)
(* The completions of words (AudioLoop).  Since the device was opened the  *)
(* words get numbers, on the main thread when their completion is armed    *)
(* and on the audio thread when they have been played.  The two need not   *)
(* agree, as words are discarded in between; but words are played in their *)
(* order, so the audio thread's number of a word is never the greater one. *)
(***************************************************************************)

\* The words handed to the modulator before the device was opened.
Base == made - armed - (IF arming THEN 1 ELSE 0)

\* The word of number n, if none was discarded: the audio thread has counted
\* those that were played, and then come the ones it has emitted.
Number(n) == Base + rendered + n
Emitted == Number(Len(targets))

\* A chunk holds a word until its last frame.
AudioTypeOK ==
  /\ made \in Nat /\ armed \in Nat /\ rendered \in Nat /\ held \in Nat /\ arming \in BOOLEAN
  /\ waiting \in Seq(Nat) /\ line \in Seq(Nat) /\ targets \in Seq(Int)
  /\ notify \in Seq([target : Nat, word : Nat])
  /\ chunk = [word |-> chunk.word, left |-> chunk.left]
  /\ chunk.word \in Nat /\ chunk.left \in Nat /\ (chunk.word # 0 => chunk.left > 0)
  /\ loop = [at |-> loop.at, using |-> loop.using, room |-> loop.room, batch |-> loop.batch]
  /\ loop.room \in Int /\ loop.batch \in Seq(Nat)
  /\ loop.at # "filling" => loop.batch = <<>>

\* A word in the hardware or in the batch has a target where it ends, which is
\* not counted before as many words as its number says.
LineNumbered ==
  \A q \in 1..Len(line) : line[q] # 0 =>
    \E j \in 1..Len(targets) : targets[j] = q - Len(line) /\ line[q] >= Number(j)
BatchNumbered ==
  \A q \in 1..Len(loop.batch) : loop.batch[q] # 0 =>
    \E j \in 1..Len(targets) : targets[j] = q /\ loop.batch[q] >= Number(j)

\* The words before them are in their order, after all that were emitted.
QueueOrder ==
  /\ Base >= 0 /\ Emitted <= made
  /\ chunk.word # 0 => Emitted < chunk.word /\ chunk.word <= made
  /\ held # 0 => Emitted < held /\ chunk.word < held /\ held <= made
  /\ held = 0 => waiting = <<>>
  /\ \A i \in 1..Len(waiting) : held < waiting[i] /\ waiting[i] <= made
  /\ \A i, k \in 1..Len(waiting) : i < k => waiting[i] < waiting[k]

\* A completion waits for as many words as were armed before it.
Awaited ==
  \A i \in 1..Len(notify) :
    /\ notify[i].word = Base + notify[i].target
    /\ 0 < notify[i].target /\ notify[i].target <= armed

OnItsWay == InModulator \union InDevice \union (Range(loop.batch) \ {0})
NothingLost == 1..made \subseteq OnItsWay \union aired \union dropped

AudioInv ==
  /\ AudioTypeOK /\ LineNumbered /\ BatchNumbered /\ QueueOrder /\ Awaited /\ NothingLost
  /\ NotBeforePlayed

-----------------------------------------------------------------------------
\* An element of a sequence.
LEMMA ElementTyped ==
  ASSUME NEW S, NEW s \in Seq(S), NEW i \in 1..Len(s)
  PROVE  s[i] \in S
OBVIOUS

\* A set of positions has a first one.
LEMMA FirstOf ==
  ASSUME NEW T \in SUBSET Nat, T # {}
  PROVE  \E m \in T : \A k \in T : m <= k
<1> DEFINE R == {ss \in Nat \X Nat : ss[1] < ss[2]}
<1>1. IsWellFoundedOn(R, Nat)
  BY NatLessThanWellFounded DEF OpToRel
<1> HIDE DEF R
<1>2. PICK m \in T : \A k \in T : <<k, m>> \notin R
  BY <1>1, WFMin
<1>3. \A k \in T : ~(k < m)
  BY <1>2 DEF R
<1>4. QED BY <1>2, <1>3

\* What a loop that removes from the front stops at.
LEMMA LeadingIsPrefix ==
  ASSUME NEW l \in Nat, NEW I \in SUBSET (1..l)
  PROVE  /\ Leading(I) \in 0..l
         /\ \A k \in 1..Leading(I) : k \in I
         /\ Leading(I) + 1 \notin I
<1> DEFINE T == {k \in 1..(l + 1) : k \notin I}
<1>1. T \in SUBSET Nat /\ l + 1 \in T
  OBVIOUS
<1> HIDE DEF T
<1>2. PICK m \in T : \A k \in T : m <= k
  BY <1>1, FirstOf
<1>3. m \in 1..(l + 1) /\ m \notin I
  BY <1>2 DEF T
<1>4. PICK n \in 0..l : n + 1 = m
  BY <1>3
<1>5. \A k \in 1..n : k \in I
  <2>1. TAKE k \in 1..n
  <2>2. k \in 1..(l + 1) /\ ~(m <= k)
    BY <1>3, <1>4
  <2>3. QED BY <1>2, <2>2 DEF T
<1>6. n \in I \union {0}
  BY <1>5
<1>7. 1..n \subseteq I /\ n + 1 \notin I
  BY <1>3, <1>4, <1>5
<1>8. \E x \in I \union {0} : 1..x \subseteq I /\ x + 1 \notin I
  BY <1>6, <1>7
<1>9. /\ Leading(I) \in I \union {0} /\ 1..Leading(I) \subseteq I /\ Leading(I) + 1 \notin I
  BY <1>8 DEF Leading
<1>10. PICK x \in 0..l : x = Leading(I)
  <2>1. \A y \in I \union {0} : y \in 0..l
    OBVIOUS
  <2>2. QED BY <1>9, <2>1
<1>11. 1..x \subseteq I /\ x + 1 \notin I
  BY <1>9, <1>10
<1>12. QED BY <1>10, <1>11

\* The types that the arithmetic and the sequences need.
LEMMA AudioTypes ==
  ASSUME AudioInv
  PROVE  /\ made \in Nat /\ armed \in Nat /\ rendered \in Nat /\ held \in Nat /\ arming \in BOOLEAN
         /\ waiting \in Seq(Nat) /\ line \in Seq(Nat) /\ targets \in Seq(Int)
         /\ Len(targets) \in Nat /\ Len(line) \in Nat /\ Len(loop.batch) \in Nat
         /\ notify \in Seq([target : Nat, word : Nat]) /\ Len(notify) \in Nat
         /\ chunk.word \in Nat /\ chunk.left \in Nat /\ (chunk.word # 0 => chunk.left > 0)
         /\ loop.room \in Int /\ loop.batch \in Seq(Nat)
         /\ loop.at # "filling" => loop.batch = <<>>
BY DEF AudioInv, AudioTypeOK

\* So is the number of words before the device was opened.
LEMMA BaseTyped ==
  ASSUME AudioInv
  PROVE  Base \in Int
<1>1. CASE arming
  BY <1>1, AudioTypes DEF Base
<1>2. CASE ~arming
  BY <1>2, AudioTypes DEF Base
<1>3. QED BY <1>1, <1>2

\* A word that was emitted or is still before it comes after all words counted.
LEMMA CountedAreAhead ==
  ASSUME AudioInv, NEW w \in OnItsWay
  PROVE  w > Base + rendered
<1>1. PICK b \in Int : b = Base
  BY BaseTyped
<1>2. PICK n \in Nat : n = Len(targets)
  BY AudioTypes
<1>3. Emitted = b + rendered + n
  BY <1>1, <1>2 DEF Emitted, Number
<1>4. CASE w \in InModulator
  <2>1. held # 0 => held > b + rendered
    BY <1>1, <1>2, <1>3, AudioTypes DEF QueueOrder, AudioInv
  <2>2. waiting \in Seq(Nat) /\ held \in Nat /\ rendered \in Nat
    BY AudioTypes
  <2>3. /\ held = 0 => waiting = <<>>
        /\ \A i \in 1..Len(waiting) : held < waiting[i]
    BY DEF QueueOrder, AudioInv
  <2>4. ASSUME NEW i \in 1..Len(waiting) PROVE waiting[i] > b + rendered
    <3>1. waiting[i] \in Nat /\ waiting # <<>>
      BY <2>2
    <3>2. held # 0 /\ held < waiting[i]
      BY <2>3, <3>1
    <3>3. QED BY <2>1, <2>2, <3>1, <3>2
  <2>5. (w = held /\ held # 0) \/ \E i \in 1..Len(waiting) : w = waiting[i]
    BY <1>4, <2>2 DEF InModulator, Range
  <2>6. QED BY <1>1, <2>1, <2>4, <2>5
<1>5. CASE w = chunk.word /\ w # 0
  <2>1. Emitted < chunk.word
    BY <1>5 DEF QueueOrder, AudioInv
  <2>2. chunk.word \in Nat /\ rendered \in Nat
    BY AudioTypes
  <2>3. QED BY <1>1, <1>2, <1>3, <1>5, <2>1, <2>2
<1>6. ASSUME NEW q \in 1..Len(line), w = line[q], w # 0 PROVE w > b + rendered
  <2>1. PICK j \in 1..Len(targets) : line[q] >= Number(j)
    BY <1>6 DEF LineNumbered, AudioInv
  <2>2. line \in Seq(Nat) /\ rendered \in Nat
    BY AudioTypes
  <2>3. PICK x \in Nat : x = line[q]
    BY <2>2
  <2>4. x >= b + rendered + j /\ j >= 1 /\ j \in Int
    BY <1>1, <1>2, <2>1, <2>3 DEF Number
  <2>5. QED BY <1>6, <2>2, <2>3, <2>4
<1>7. ASSUME NEW q \in 1..Len(loop.batch), w = loop.batch[q], w # 0 PROVE w > b + rendered
  <2>1. PICK j \in 1..Len(targets) : loop.batch[q] >= Number(j)
    BY <1>7 DEF BatchNumbered, AudioInv
  <2>2. loop.batch \in Seq(Nat) /\ rendered \in Nat
    BY AudioTypes
  <2>3. PICK x \in Nat : x = loop.batch[q]
    BY <2>2
  <2>4. x >= b + rendered + j /\ j >= 1 /\ j \in Int
    BY <1>1, <1>2, <2>1, <2>3 DEF Number
  <2>5. QED BY <1>7, <2>2, <2>3, <2>4
<1>8. CASE w \in InDevice
  <2>1. w # 0 /\ (w = chunk.word \/ \E q \in 1..Len(line) : w = line[q])
    <3>1. line \in Seq(Nat)
      BY AudioTypes
    <3>2. QED BY <1>8, <3>1 DEF InDevice, Range
  <2>2. QED BY <1>1, <1>5, <1>6, <2>1
<1>9. CASE w \in Range(loop.batch) \ {0}
  <2>1. w # 0 /\ \E q \in 1..Len(loop.batch) : w = loop.batch[q]
    <3>1. loop.batch \in Seq(Nat)
      BY AudioTypes
    <3>2. QED BY <1>9, <3>1 DEF Range
  <2>2. QED BY <1>1, <1>7, <2>1
<1>10. QED BY <1>4, <1>8, <1>9 DEF OnItsWay

\* So a word whose number was counted is on its way no more.
LEMMA CountedIsPlayed ==
  ASSUME AudioInv, NEW i \in 1..Len(notify), notify[i].target <= rendered
  PROVE  notify[i].word \in aired \union dropped
<1>1. PICK b \in Int : b = Base
  BY BaseTyped
<1>2. PICK w \in Nat : \E t \in Nat : notify[i].word = w /\ notify[i].target = t
  <2>1. notify[i] \in [target : Nat, word : Nat]
    <3>1. notify \in Seq([target : Nat, word : Nat])
      BY AudioTypes
    <3>2. QED BY <3>1, ElementTyped
  <2>2. notify[i].word \in Nat /\ notify[i].target \in Nat
    BY <2>1
  <2>3. QED BY <2>2
<1>a. PICK t \in Nat : notify[i].word = w /\ notify[i].target = t
  BY <1>2
<1>3. b >= 0 /\ w = b + t /\ 0 < t /\ t <= armed /\ t <= rendered
  BY <1>1, <1>a DEF AudioInv, Awaited, QueueOrder
<1>4. w \in 1..made
  <2>1. b <= made - armed
    <3>1. CASE arming
      BY <1>1, <3>1, AudioTypes DEF Base
    <3>2. CASE ~arming
      BY <1>1, <3>2, AudioTypes DEF Base
    <3>3. QED BY <3>1, <3>2
  <2>2. made \in Nat /\ armed \in Nat
    BY AudioTypes
  <2>3. QED BY <1>3, <2>1, <2>2
<1>5. ~(w > Base + rendered)
  BY <1>1, <1>3, AudioTypes
<1>6. w \notin OnItsWay
  BY <1>5, CountedAreAhead
<1>7. QED BY <1>2, <1>4, <1>6 DEF AudioInv, NothingLost

-----------------------------------------------------------------------------
\* The elements of a sequence are its values.
LEMMA RangeIs ==
  ASSUME NEW S, NEW s \in Seq(S), NEW x
  PROVE  x \in Range(s) <=> \E i \in 1..Len(s) : x = s[i]
BY DEF Range

\* A sequence with one more element has the others too.
LEMMA RangeAppended ==
  ASSUME NEW S, NEW s \in Seq(S), NEW x \in S
  PROVE  Range(s) \subseteq Range(Append(s, x)) /\ x \in Range(Append(s, x))
<1>1. PICK l \in Nat : l = Len(s)
  OBVIOUS
<1> DEFINE t == Append(s, x)
<1>2. t \in Seq(S) /\ Len(t) = l + 1 /\ t[l + 1] = x /\ \A i \in 1..l : t[i] = s[i]
  BY <1>1
<1> HIDE DEF t
<1>3. x \in Range(t)
  <2>1. l + 1 \in 1..Len(t)
    BY <1>2
  <2>2. QED BY <1>2, <2>1, RangeIs
<1>4. ASSUME NEW y \in Range(s) PROVE y \in Range(t)
  <2>1. PICK i \in 1..l : y = s[i]
    BY <1>1, RangeIs
  <2>2. i \in 1..Len(t) /\ t[i] = y
    BY <1>2, <2>1
  <2>3. QED BY <1>2, <2>2, RangeIs
<1>5. QED BY <1>3, <1>4 DEF t

\* Two sequences, one after the other.
LEMMA Joined ==
  ASSUME NEW S, NEW s \in Seq(S), NEW t \in Seq(S)
  PROVE  /\ s \o t \in Seq(S) /\ Len(s \o t) = Len(s) + Len(t)
         /\ \A i \in 1..Len(s) : (s \o t)[i] = s[i]
         /\ \A i \in 1..Len(t) : (s \o t)[Len(s) + i] = t[i]
OBVIOUS

\* They have the elements of both.
LEMMA RangeJoined ==
  ASSUME NEW S, NEW s \in Seq(S), NEW t \in Seq(S)
  PROVE  Range(s) \subseteq Range(s \o t) /\ Range(t) \subseteq Range(s \o t)
<1> DEFINE u == s \o t
<1>1. PICK l \in Nat, m \in Nat : l = Len(s) /\ m = Len(t)
  OBVIOUS
<1>2. /\ u \in Seq(S) /\ Len(u) = l + m
      /\ \A i \in 1..l : u[i] = s[i]
      /\ \A i \in 1..m : u[l + i] = t[i]
  BY <1>1, Joined
<1> HIDE DEF u
<1>3. ASSUME NEW y \in Range(s) PROVE y \in Range(u)
  <2>1. PICK i \in 1..l : y = s[i]
    BY <1>1, RangeIs
  <2>2. i \in 1..Len(u) /\ u[i] = y
    BY <1>2, <2>1
  <2>3. QED BY <1>2, <2>2, RangeIs
<1>4. ASSUME NEW y \in Range(t) PROVE y \in Range(u)
  <2>1. PICK i \in 1..m : y = t[i]
    BY <1>1, RangeIs
  <2>2. l + i \in 1..Len(u) /\ u[l + i] = y
    BY <1>2, <2>1
  <2>3. QED BY <1>2, <2>2, RangeIs
<1>5. QED BY <1>3, <1>4 DEF u

\* The first element of a sequence, and the rest.
LEMMA HeadAndTail ==
  ASSUME NEW S, NEW s \in Seq(S), s # <<>>
  PROVE  /\ Tail(s) \in Seq(S) /\ Head(s) \in S /\ Len(s) >= 1 /\ Len(Tail(s)) = Len(s) - 1
         /\ Head(s) = s[1]
         /\ \A i \in 1..Len(Tail(s)) : Tail(s)[i] = s[i + 1]
OBVIOUS

\* Only the first element is missing from the rest.
LEMMA RangeTail ==
  ASSUME NEW S, NEW s \in Seq(S), s # <<>>
  PROVE  Range(s) \subseteq {Head(s)} \union Range(Tail(s))
<1> DEFINE t == Tail(s)
<1>1. PICK l \in Nat : l = Len(t)
  BY HeadAndTail
<1>2. t \in Seq(S) /\ Len(s) = l + 1 /\ Head(s) = s[1] /\ \A i \in 1..l : t[i] = s[i + 1]
  BY <1>1, HeadAndTail
<1> HIDE DEF t
<1>3. ASSUME NEW y \in Range(s), y # Head(s) PROVE y \in Range(t)
  <2>1. PICK i \in 1..(l + 1) : y = s[i]
    BY <1>2, <1>3, RangeIs
  <2>2. i - 1 \in 1..l /\ (i - 1) + 1 = i
    BY <1>2, <1>3, <2>1
  <2>3. t[i - 1] = y
    BY <1>2, <2>1, <2>2
  <2>4. QED BY <1>1, <1>2, <2>2, <2>3, RangeIs
<1>4. QED BY <1>3 DEF t

\* The loop drops the first ones.
LEMMA Rest ==
  ASSUME NEW S, NEW s \in Seq(S), NEW n \in 0..Len(s)
  PROVE  /\ SubSeq(s, n + 1, Len(s)) \in Seq(S)
         /\ Len(SubSeq(s, n + 1, Len(s))) = Len(s) - n
         /\ \A i \in 1..(Len(s) - n) : SubSeq(s, n + 1, Len(s))[i] = s[n + i]
OBVIOUS

-----------------------------------------------------------------------------
\* Where no word is sent and nothing armed or called, the completions stay as
\* they are.
LEMMA AwaitedAlone ==
  ASSUME AudioInv, UNCHANGED <<made, armed, arming, notify>>
  PROVE  Base' = Base /\ Awaited'
<1>1. Base' = Base
  BY DEF Base
<1>2. QED BY <1>1 DEF AudioInv, Awaited

\* Where no word moves, none is lost and all stay in their order.
LEMMA NoWordMoves ==
  ASSUME AudioInv, Base' = Base, loop'.batch = loop.batch,
         UNCHANGED <<made, held, waiting, dropped, chunk, targets, rendered, line, aired>>
  PROVE  LineNumbered' /\ BatchNumbered' /\ QueueOrder' /\ NothingLost'
<1>1. LineNumbered' /\ BatchNumbered'
  BY DEF AudioInv, LineNumbered, BatchNumbered, Number
<1>2. QueueOrder'
  BY DEF AudioInv, QueueOrder, Emitted, Number
<1>3. NothingLost'
  BY DEF AudioInv, NothingLost, OnItsWay, InModulator, InDevice
<1>4. QED BY <1>1, <1>2, <1>3

\* No word is lost by a step after which each of them is on its way, aired or
\* dropped.
LEMMA NoneLost ==
  ASSUME AudioInv, made' = made, aired \subseteq aired', dropped \subseteq dropped',
         OnItsWay \subseteq OnItsWay' \union aired' \union dropped'
  PROVE  NothingLost'
BY DEF AudioInv, NothingLost

\* A completion that was called stays one of a word that was played or dropped.
LEMMA NoneCalled ==
  ASSUME AudioInv, done' = done, aired \subseteq aired', dropped \subseteq dropped'
  PROVE  NotBeforePlayed'
BY DEF AudioInv, NotBeforePlayed

\* The shape of the audio thread's state is not the main thread's to change.
LEMMA MostTyped ==
  ASSUME AudioInv, loop' = loop, UNCHANGED <<chunk, line, targets, rendered>>,
         made' \in Nat, held' \in Nat, armed' \in Nat, arming' \in BOOLEAN,
         waiting' \in Seq(Nat), notify' \in Seq([target : Nat, word : Nat])
  PROVE  AudioTypeOK'
BY DEF AudioInv, AudioTypeOK

-----------------------------------------------------------------------------
(* The main thread *)

\* There is no word at the start, with a device or without.
LEMMA InitAudioInv == AudioInit => AudioInv
<1>1. SUFFICES ASSUME AudioInit PROVE AudioInv
  OBVIOUS
<1>2. /\ made = 0 /\ held = 0 /\ waiting = <<>> /\ arming = FALSE /\ chunk = NoChunk
      /\ targets = <<>> /\ line = <<>> /\ rendered = 0 /\ armed = 0 /\ notify = <<>>
      /\ aired = {} /\ done = {} /\ dropped = {}
      /\ loop \in {IdleLoop, NoThread}
  BY <1>1 DEF AudioInit
<1>3. /\ loop = [at |-> loop.at, using |-> "symbol", room |-> 0, batch |-> <<>>]
      /\ loop.room = 0 /\ loop.batch = <<>> /\ loop.using = "symbol"
  BY <1>2 DEF IdleLoop, NoThread
<1>4. AudioTypeOK
  <2>1. <<>> \in Seq(Nat) /\ <<>> \in Seq(Int) /\ <<>> \in Seq([target : Nat, word : Nat])
    OBVIOUS
  <2>2. chunk = [word |-> chunk.word, left |-> chunk.left] /\ chunk.word = 0 /\ chunk.left = 0
    BY <1>2 DEF NoChunk
  <2>3. loop = [at |-> loop.at, using |-> loop.using, room |-> loop.room, batch |-> loop.batch]
    BY <1>3
  <2>4. arming \in BOOLEAN
    BY <1>2
  <2>5. QED BY <1>2, <1>3, <2>1, <2>2, <2>3, <2>4 DEF AudioTypeOK
<1>5. Base = 0 /\ Len(targets) = 0 /\ Len(waiting) = 0
  <2>1. ~arming /\ made = 0 /\ armed = 0 /\ Len(targets) = 0 /\ Len(waiting) = 0
    BY <1>2
  <2>2. (IF arming THEN 1 ELSE 0) = 0
    BY <2>1
  <2>3. Base = 0 - 0 - 0
    BY <2>1, <2>2 DEF Base
  <2>4. QED BY <2>1, <2>3
<1>6. Emitted = 0
  BY <1>2, <1>5 DEF Emitted, Number
<1>7. LineNumbered /\ BatchNumbered /\ Awaited
  BY <1>2, <1>3 DEF LineNumbered, BatchNumbered, Awaited
<1>8. QueueOrder
  BY <1>2, <1>5, <1>6 DEF QueueOrder, NoChunk
<1>9. NothingLost /\ NotBeforePlayed
  BY <1>2 DEF NothingLost, NotBeforePlayed
<1>10. QED BY <1>4, <1>7, <1>8, <1>9 DEF AudioInv

\* A completion is armed for the word just queued, with its number.
LEMMA ArmInv ==
  ASSUME AudioInv, Arm
  PROVE  AudioInv'
<1>1. /\ made \in Nat /\ armed \in Nat /\ arming /\ arming' = FALSE /\ armed' = armed + 1
      /\ notify' = Append(notify, [target |-> armed + 1, word |-> made])
      /\ notify \in Seq([target : Nat, word : Nat])
      /\ UNCHANGED <<driver, made, held, waiting, pending, wish, playing, done, dropped, loop,
                     chunk, targets, rendered, line, aired>>
  BY AudioTypes DEF Arm, threadvars
<1>2. Base' = Base /\ Base = made - (armed + 1)
  BY <1>1 DEF Base
<1>3. LineNumbered' /\ BatchNumbered' /\ QueueOrder' /\ NothingLost'
  BY <1>1, <1>2, NoWordMoves
<1>4. NotBeforePlayed'
  BY <1>1, NoneCalled
<1>5. [target |-> armed + 1, word |-> made] \in [target : Nat, word : Nat]
  BY <1>1
<1>6. AudioTypeOK'
  <2>1. notify' \in Seq([target : Nat, word : Nat])
    BY <1>1, <1>5
  <2>2. armed' \in Nat /\ made' \in Nat /\ held' \in Nat /\ waiting' \in Seq(Nat)
    BY <1>1, AudioTypes
  <2>3. arming' = FALSE
    BY DEF Arm
  <2>4. arming' \in BOOLEAN
    BY <2>3
  <2>5. loop' = loop /\ UNCHANGED <<chunk, line, targets, rendered>>
    BY <1>1
  <2>6. QED BY <2>1, <2>2, <2>4, <2>5, MostTyped
<1>7. Awaited'
  <2>1. PICK l \in Nat : l = Len(notify)
    BY <1>1
  <2>2. /\ Len(notify') = l + 1 /\ \A i \in 1..l : notify'[i] = notify[i]
        /\ notify'[l + 1] = [target |-> armed + 1, word |-> made]
    BY <1>1, <2>1
  <2>3. ASSUME NEW i \in 1..l
        PROVE  /\ notify'[i].word = Base' + notify'[i].target
               /\ 0 < notify'[i].target /\ notify'[i].target <= armed'
    <3>1. PICK t \in Nat : t = notify[i].target
      <4>1. notify[i] \in [target : Nat, word : Nat]
        BY <1>1, <2>1, ElementTyped
      <4>2. QED BY <4>1
    <3>2. notify[i].word = Base + t /\ 0 < t /\ t <= armed
      BY <2>1, <3>1 DEF AudioInv, Awaited
    <3>3. notify'[i].word = notify[i].word /\ notify'[i].target = t /\ Base' = Base
      BY <1>2, <2>2, <3>1
    <3>4. armed' = armed + 1 /\ armed \in Nat
      BY <1>1
    <3>5. QED BY <3>1, <3>2, <3>3, <3>4
  <2>4. /\ notify'[l + 1].word = Base' + notify'[l + 1].target
        /\ 0 < notify'[l + 1].target /\ notify'[l + 1].target <= armed'
    <3>1. notify'[l + 1].word = made /\ notify'[l + 1].target = armed + 1
      BY <2>2
    <3>2. PICK m \in Nat, a \in Nat : m = made /\ a = armed + 1
      BY <1>1
    <3>3. Base' = m - a /\ armed' = a /\ 0 < a
      BY <1>1, <1>2, <3>2
    <3>4. m = (m - a) + a
      OBVIOUS
    <3>5. QED BY <3>1, <3>2, <3>3, <3>4
  <2>5. \A i \in 1..(l + 1) : i \in 1..l \/ i = l + 1
    OBVIOUS
  <2>6. QED BY <2>2, <2>3, <2>4, <2>5 DEF Awaited
<1>8. QED BY <1>3, <1>4, <1>6, <1>7 DEF AudioInv

\* The completions called are of words that are on their way no more.
LEMMA AudioTickInv ==
  ASSUME AudioInv, AudioTick
  PROVE  AudioInv'
<1>1. /\ notify' = SubSeq(notify, Due + 1, Len(notify))
      /\ done' = done \union {notify[i].word : i \in 1..Due}
      /\ UNCHANGED <<made, held, waiting, arming, armed, dropped, loop, chunk, targets, rendered,
                     line, aired>>
  BY DEF AudioTick, threadvars
<1>2. Base' = Base
  BY <1>1 DEF Base
<1>3. LineNumbered' /\ BatchNumbered' /\ QueueOrder' /\ NothingLost'
  BY <1>1, <1>2, NoWordMoves
<1>4. PICK l \in Nat : l = Len(notify)
  BY AudioTypes
<1>5. PICK n \in 0..l : n = Due /\ \A i \in 1..n : notify[i].target <= rendered
  <2> DEFINE I == {i \in 1..l : notify[i].target <= rendered}
  <2>1. I \in SUBSET (1..l)
    OBVIOUS
  <2>2. Due = Leading(I)
    <3>1. notify \in Seq([target : Nat, word : Nat])
      BY AudioTypes
    <3>2. DOMAIN notify = 1..l
      BY <1>4, <3>1
    <3>3. QED BY <3>2 DEF Due
  <2> HIDE DEF I
  <2>3. Due \in 0..l /\ \A i \in 1..Due : i \in I
    BY <2>1, <2>2, LeadingIsPrefix
  <2>4. QED BY <2>3 DEF I
<1>6. notify \in Seq([target : Nat, word : Nat])
  BY AudioTypes
<1>7. /\ notify' \in Seq([target : Nat, word : Nat]) /\ Len(notify') = l - n
      /\ \A i \in 1..(l - n) : notify'[i] = notify[n + i]
  BY <1>1, <1>4, <1>5, <1>6, Rest
<1>8. AudioTypeOK'
  <2>1. /\ made' \in Nat /\ held' \in Nat /\ armed' \in Nat /\ arming' \in BOOLEAN
        /\ waiting' \in Seq(Nat)
    BY <1>1, AudioTypes
  <2>2. loop' = loop /\ UNCHANGED <<chunk, line, targets, rendered>>
    BY <1>1
  <2>3. QED BY <1>7, <2>1, <2>2, MostTyped
<1>9. Awaited'
  <2>1. ASSUME NEW i \in 1..(l - n)
        PROVE  /\ notify'[i].word = Base' + notify'[i].target
               /\ 0 < notify'[i].target /\ notify'[i].target <= armed'
    <3>1. n + i \in 1..l /\ notify'[i] = notify[n + i]
      BY <1>7
    <3>2. armed' = armed
      BY <1>1
    <3>3. QED BY <1>2, <1>4, <3>1, <3>2 DEF AudioInv, Awaited
  <2>2. QED BY <1>7, <2>1 DEF Awaited
<1>10. NotBeforePlayed'
  <2>1. ASSUME NEW i \in 1..n PROVE notify[i].word \in aired \union dropped
    <3>1. i \in 1..Len(notify)
      BY <1>4
    <3>2. QED BY <1>5, <3>1, CountedIsPlayed
  <2>2. QED BY <1>1, <1>5, <2>1 DEF NotBeforePlayed, AudioInv
<1>11. QED BY <1>3, <1>8, <1>9, <1>10 DEF AudioInv

\* What the operator wishes, and what the state machine counts, moves no word.
LEMMA OtherInv ==
  ASSUME AudioInv,
         UNCHANGED <<made, held, waiting, arming, armed, notify, done, dropped, chunk, targets,
                     rendered, line, aired>>,
         loop' = loop \/ (loop'.batch = loop.batch /\ loop'.room = loop.room
            /\ (loop'.at # "filling" => loop'.batch = <<>>)
            /\ loop' = [at |-> loop'.at, using |-> loop'.using, room |-> loop'.room,
                        batch |-> loop'.batch])
  PROVE  AudioInv'
<1>1. Base' = Base /\ Awaited'
  BY AwaitedAlone
<1>2. LineNumbered' /\ BatchNumbered' /\ QueueOrder' /\ NothingLost'
  BY <1>1, NoWordMoves
<1>3. NotBeforePlayed'
  BY NoneCalled
<1>4. AudioTypeOK'
  BY DEF AudioTypeOK, AudioInv
<1>5. QED BY <1>1, <1>2, <1>3, <1>4 DEF AudioInv

\* A word is queued behind all others.
LEMMA SendWordInv ==
  ASSUME AudioInv, SendWord
  PROVE  AudioInv'
<1>1. /\ ~arming /\ arming' = TRUE /\ made' = made + 1
      /\ UNCHANGED <<armed, notify, done, dropped, loop, chunk, targets, rendered, line, aired>>
  BY DEF SendWord, threadvars
<1>2. /\ made \in Nat /\ armed \in Nat /\ held \in Nat /\ waiting \in Seq(Nat) /\ chunk.word \in Nat
      /\ rendered \in Nat /\ Len(targets) \in Nat
  BY AudioTypes
<1>3. Base' = Base
  <2>1. (IF arming THEN 1 ELSE 0) = 0 /\ (IF arming' THEN 1 ELSE 0) = 1
    BY <1>1
  <2>2. Base = made - armed - 0 /\ Base' = (made + 1) - armed - 1
    BY <1>1, <2>1 DEF Base
  <2>3. QED BY <1>2, <2>2
<1>4. \/ held = 0 /\ held' = made + 1 /\ waiting' = waiting
      \/ held # 0 /\ held' = held /\ waiting' = Append(waiting, made + 1)
  BY DEF SendWord
<1>5. made + 1 \in Nat /\ made' \in Nat /\ held' \in Nat /\ waiting' \in Seq(Nat)
  <2>1. made + 1 \in Nat /\ made' \in Nat
    BY <1>1, <1>2
  <2>2. Append(waiting, made + 1) \in Seq(Nat)
    BY <1>2, <2>1
  <2>3. QED BY <1>2, <1>4, <2>1, <2>2
<1>6. AudioTypeOK'
  <2>1. arming' \in BOOLEAN
    BY <1>1
  <2>2. armed' \in Nat /\ notify' \in Seq([target : Nat, word : Nat])
    BY <1>1, AudioTypes
  <2>3. loop' = loop /\ UNCHANGED <<chunk, line, targets, rendered>>
    BY <1>1
  <2>4. QED BY <1>5, <2>1, <2>2, <2>3, MostTyped
<1>7. LineNumbered' /\ BatchNumbered'
  BY <1>1, <1>3 DEF AudioInv, LineNumbered, BatchNumbered, Number
<1>8. Awaited'
  BY <1>1, <1>3 DEF AudioInv, Awaited
<1>9. Emitted' = Emitted /\ chunk'.word = chunk.word
  BY <1>1, <1>3 DEF Emitted, Number
<1>10. Base \in Int
  BY BaseTyped
<1>11. Emitted \in Int
  BY <1>2, <1>10 DEF Emitted, Number
<1>12. QueueOrder'
  <2>1. /\ Base >= 0 /\ Emitted <= made
        /\ chunk.word # 0 => Emitted < chunk.word /\ chunk.word <= made
        /\ held # 0 => Emitted < held /\ chunk.word < held /\ held <= made
        /\ held = 0 => waiting = <<>>
        /\ \A i \in 1..Len(waiting) : held < waiting[i] /\ waiting[i] <= made
        /\ \A i, k \in 1..Len(waiting) : i < k => waiting[i] < waiting[k]
    BY DEF AudioInv, QueueOrder
  <2>2. Base' >= 0 /\ Emitted' <= made' /\ (chunk'.word # 0 => Emitted' < chunk'.word /\ chunk'.word <= made')
    BY <1>1, <1>2, <1>3, <1>9, <1>11, <2>1
  <2>3. chunk.word < made + 1 /\ Emitted < made + 1
    BY <1>2, <1>11, <2>1
  <2>4. CASE held = 0
    <3>1. held' = made + 1 /\ waiting' = <<>> /\ Len(waiting') = 0
      BY <1>4, <2>1, <2>4
    <3>2. held' # 0
      BY <1>2, <3>1
    <3>3. QED BY <1>1, <1>2, <1>9, <2>2, <2>3, <3>1, <3>2 DEF QueueOrder
  <2>5. CASE held # 0
    <3>1. held' = held /\ waiting' = Append(waiting, made + 1)
      BY <1>4, <2>5
    <3>2. PICK l \in Nat : l = Len(waiting)
      BY <1>2
    <3>3. Len(waiting') = l + 1 /\ waiting'[l + 1] = made + 1 /\ \A i \in 1..l : waiting'[i] = waiting[i]
      BY <1>2, <3>1, <3>2
    <3>4. ASSUME NEW i \in 1..(l + 1) PROVE held' < waiting'[i] /\ waiting'[i] <= made'
      <4>1. CASE i = l + 1
        BY <1>1, <1>2, <2>1, <2>5, <3>1, <3>3, <4>1
      <4>2. CASE i # l + 1
        <5>1. i \in 1..l
          BY <4>2
        <5>2. waiting[i] \in Nat
          BY <1>2, <3>2, <5>1, ElementTyped
        <5>3. QED BY <1>1, <1>2, <2>1, <3>1, <3>2, <3>3, <5>1, <5>2
      <4>3. QED BY <4>1, <4>2
    <3>5. ASSUME NEW i \in 1..(l + 1), NEW k \in 1..(l + 1), i < k PROVE waiting'[i] < waiting'[k]
      <4>1. i \in 1..l /\ waiting'[i] = waiting[i]
        BY <3>3, <3>5
      <4>2. waiting[i] \in Nat /\ waiting[i] <= made
        BY <1>2, <2>1, <3>2, <4>1, ElementTyped
      <4>3. CASE k = l + 1
        BY <1>2, <3>3, <4>1, <4>2, <4>3
      <4>4. CASE k # l + 1
        <5>1. k \in 1..l /\ waiting'[k] = waiting[k]
          BY <3>3, <4>4
        <5>2. QED BY <2>1, <3>2, <3>5, <4>1, <5>1
      <4>5. QED BY <4>3, <4>4
    <3>6. held' # 0 => Emitted' < held' /\ chunk'.word < held' /\ held' <= made'
      BY <1>1, <1>2, <1>9, <2>1, <3>1
    <3>7. QED BY <2>2, <2>5, <3>1, <3>3, <3>4, <3>5, <3>6 DEF QueueOrder
  <2>6. QED BY <2>4, <2>5
<1>13. NothingLost'
  <2>1. Range(waiting) \subseteq Range(waiting')
    BY <1>2, <1>4, <1>5, RangeAppended
  <2>2. InModulator \subseteq InModulator' /\ made + 1 \in InModulator'
    <3>1. CASE held = 0
      BY <1>2, <1>4, <3>1 DEF InModulator
    <3>2. CASE held # 0
      <4>1. made + 1 \in Range(waiting')
        BY <1>2, <1>4, <1>5, <3>2, RangeAppended
      <4>2. QED BY <1>4, <2>1, <3>2, <4>1 DEF InModulator
    <3>3. QED BY <3>1, <3>2
  <2>3. OnItsWay \subseteq OnItsWay' /\ made + 1 \in OnItsWay'
    BY <1>1, <2>2 DEF OnItsWay, InDevice
  <2>4. \A w \in 1..(made + 1) : w \in 1..made \/ w = made + 1
    BY <1>2
  <2>5. 1..made \subseteq OnItsWay \union aired \union dropped
    BY DEF AudioInv, NothingLost
  <2>6. QED BY <1>1, <2>3, <2>4, <2>5 DEF NothingLost
<1>14. NotBeforePlayed'
  BY <1>1, NoneCalled
<1>15. QED BY <1>6, <1>7, <1>8, <1>12, <1>13, <1>14 DEF AudioInv

\* The modulator is emptied; the audio thread plays what it has.
LEMMA AbortBurstInv ==
  ASSUME AudioInv, AbortBurst
  PROVE  AudioInv'
<1>1. /\ held' = 0 /\ waiting' = <<>> /\ dropped' = dropped \union InModulator
      /\ UNCHANGED <<made, arming, armed, notify, done, loop, chunk, targets, rendered, line, aired>>
  BY DEF AbortBurst, threadvars
<1>2. Base' = Base /\ Awaited'
  BY <1>1, AwaitedAlone
<1>3. LineNumbered' /\ BatchNumbered'
  BY <1>1, <1>2 DEF AudioInv, LineNumbered, BatchNumbered, Number
<1>4. AudioTypeOK'
  <2>1. /\ made' \in Nat /\ armed' \in Nat /\ arming' \in BOOLEAN
        /\ notify' \in Seq([target : Nat, word : Nat])
    BY <1>1, AudioTypes
  <2>2. held' \in Nat /\ waiting' \in Seq(Nat)
    BY <1>1
  <2>3. loop' = loop /\ UNCHANGED <<chunk, line, targets, rendered>>
    BY <1>1
  <2>4. QED BY <2>1, <2>2, <2>3, MostTyped
<1>5. QueueOrder'
  <2>1. Emitted' = Emitted
    BY <1>1, <1>2 DEF Emitted, Number
  <2>2. /\ Base >= 0 /\ Emitted <= made
        /\ chunk.word # 0 => Emitted < chunk.word /\ chunk.word <= made
    BY DEF AudioInv, QueueOrder
  <2>3. Len(waiting') = 0
    BY <1>1
  <2>4. QED BY <1>1, <1>2, <2>1, <2>2, <2>3 DEF QueueOrder
<1>6. NothingLost'
  <2>1. OnItsWay \subseteq OnItsWay' \union dropped'
    BY <1>1 DEF OnItsWay, InDevice
  <2>2. QED BY <1>1, <2>1, NoneLost
<1>7. NotBeforePlayed'
  BY <1>1, NoneCalled
<1>8. QED BY <1>2, <1>3, <1>4, <1>5, <1>6, <1>7 DEF AudioInv

\* A device that counts from nothing is opened: nothing is on its way, since no
\* word waits in the modulator.
LEMMA ReopenInv ==
  ASSUME AudioInv, Reopen, ~LeaveWords
  PROVE  AudioInv'
<1>1. /\ ~arming /\ loop.at # "filling" /\ held = 0
      /\ rendered' = 0 /\ armed' = 0 /\ notify' = <<>>
      /\ loop' = IdleLoop /\ chunk' = NoChunk /\ targets' = <<>> /\ line' = <<>>
      /\ aired' = aired \union PlayedOut
      /\ dropped' = dropped \union (InDevice \ PlayedOut)
      /\ UNCHANGED <<made, held, waiting, arming, done>>
  BY DEF Reopen, Renewed
<1>2. made \in Nat /\ waiting = <<>> /\ loop.batch = <<>>
  BY <1>1, AudioTypes DEF AudioInv, QueueOrder
<1>3. /\ loop' = [at |-> "idle", using |-> "symbol", room |-> 0, batch |-> <<>>]
      /\ chunk' = [word |-> 0, left |-> 0]
  BY <1>1 DEF IdleLoop, NoChunk
<1>4. /\ loop'.at = "idle" /\ loop'.using = "symbol" /\ loop'.room = 0 /\ loop'.batch = <<>>
      /\ chunk'.word = 0 /\ chunk'.left = 0
  BY <1>3
<1>5. AudioTypeOK'
  <2>1. <<>> \in Seq(Nat) /\ <<>> \in Seq(Int) /\ <<>> \in Seq([target : Nat, word : Nat])
    OBVIOUS
  <2>2. /\ loop' = [at |-> loop'.at, using |-> loop'.using, room |-> loop'.room,
                    batch |-> loop'.batch]
        /\ chunk' = [word |-> chunk'.word, left |-> chunk'.left]
    BY <1>3, <1>4
  <2>3. /\ made' \in Nat /\ armed' \in Nat /\ rendered' \in Nat /\ held' \in Nat
        /\ waiting' \in Seq(Nat) /\ line' \in Seq(Nat) /\ targets' \in Seq(Int)
        /\ notify' \in Seq([target : Nat, word : Nat])
    BY <1>1, <1>2, <2>1
  <2>4. arming' \in BOOLEAN
    BY <1>1, AudioTypes
  <2>5. loop'.room \in Int /\ loop'.batch \in Seq(Nat)
    BY <1>4, <2>1
  <2>6. chunk'.word \in Nat /\ chunk'.left \in Nat
    BY <1>4
  <2>7. QED BY <1>4, <2>2, <2>3, <2>4, <2>5, <2>6 DEF AudioTypeOK
<1>6. Base' = made
  <2>1. (IF arming' THEN 1 ELSE 0) = 0
    BY <1>1
  <2>2. Base' = made - 0 - 0
    BY <1>1, <2>1 DEF Base
  <2>3. QED BY <1>2, <2>2
<1>7. LineNumbered' /\ BatchNumbered' /\ Awaited'
  <2>1. Len(line') = 0 /\ Len(loop'.batch) = 0 /\ Len(notify') = 0
    BY <1>1, <1>4
  <2>2. QED BY <2>1 DEF LineNumbered, BatchNumbered, Awaited
<1>8. QueueOrder'
  <2>1. Len(targets') = 0 /\ Len(waiting') = 0 /\ rendered' = 0 /\ held' = 0 /\ waiting' = <<>> /\ made' = made
    BY <1>1, <1>2
  <2>2. Emitted' = made
    BY <1>2, <1>6, <2>1 DEF Emitted, Number
  <2>3. QED BY <1>2, <1>4, <1>6, <2>1, <2>2 DEF QueueOrder
<1>9. NothingLost'
  <2>1. InModulator = {} /\ Range(loop.batch) = {}
    BY <1>1, <1>2 DEF InModulator, Range
  <2>2. OnItsWay = InDevice
    BY <2>1 DEF OnItsWay
  <2>3. QED BY <1>1, <2>2, NoneLost
<1>10. NotBeforePlayed'
  BY <1>1, NoneCalled
<1>11. QED BY <1>5, <1>7, <1>8, <1>9, <1>10 DEF AudioInv

-----------------------------------------------------------------------------
(* The audio thread and the hardware *)

\* What is done with is counted; what is left has the same numbers as before.
LEMMA WakeInv ==
  ASSUME AudioInv, Wake
  PROVE  AudioInv'
<1>1. /\ targets' = SubSeq(targets, Finished + 1, Len(targets))
      /\ rendered' = rendered + Finished
      /\ UNCHANGED <<made, held, waiting, arming, armed, notify, done, dropped, chunk, line, aired>>
      /\ loop.at = "idle"
  BY DEF Wake, mainvars
<1>2. /\ rendered \in Nat /\ targets \in Seq(Int) /\ line \in Seq(Nat) /\ loop.batch = <<>>
  BY <1>1, AudioTypes
<1>3. /\ loop' = [at |-> loop'.at, using |-> loop'.using, room |-> loop'.room, batch |-> loop'.batch]
      /\ loop'.room \in Int /\ loop'.batch = <<>>
  <2>1. CASE loop' = loop
    BY <1>2, <2>1 DEF AudioInv, AudioTypeOK
  <2>2. CASE loop' = [at |-> "filling", using |-> playing, room |-> Ring - Len(line), batch |-> <<>>]
    <3>1. Ring - Len(line) \in Int
      BY <1>2, AudioAssumption
    <3>2. QED BY <2>2, <3>1
  <2>3. QED BY <2>1, <2>2 DEF Wake
<1>4. PICK l \in Nat : l = Len(targets)
  BY <1>2
<1>5. PICK n \in 0..l : n = Finished /\ \A j \in 1..n : Played(targets[j])
  <2> DEFINE I == {j \in 1..l : Played(targets[j])}
  <2>1. I \in SUBSET (1..l)
    OBVIOUS
  <2>2. Finished = Leading(I)
    <3>1. DOMAIN targets = 1..l
      BY <1>2, <1>4
    <3>2. QED BY <3>1 DEF Finished
  <2> HIDE DEF I
  <2>3. Finished \in 0..l /\ \A j \in 1..Finished : j \in I
    BY <2>1, <2>2, LeadingIsPrefix
  <2>4. QED BY <2>3 DEF I
<1>6. /\ targets' \in Seq(Int) /\ Len(targets') = l - n
      /\ \A j \in 1..(l - n) : targets'[j] = targets[n + j]
  BY <1>1, <1>2, <1>4, <1>5, Rest
<1>7. Base' = Base /\ Awaited'
  BY <1>1, AwaitedAlone
<1>8. Base \in Int
  BY BaseTyped
<1>9. rendered' = rendered + n /\ rendered' \in Nat
  BY <1>1, <1>2, <1>5
<1>10. AudioTypeOK'
  <2>1. <<>> \in Seq(Nat)
    OBVIOUS
  <2>2. loop'.batch \in Seq(Nat)
    BY <1>3, <2>1
  <2>3. /\ made' \in Nat /\ held' \in Nat /\ armed' \in Nat /\ arming' \in BOOLEAN
        /\ waiting' \in Seq(Nat) /\ line' \in Seq(Nat) /\ notify' \in Seq([target : Nat, word : Nat])
    BY <1>1, AudioTypes
  <2>4. /\ chunk' = [word |-> chunk'.word, left |-> chunk'.left]
        /\ chunk'.word \in Nat /\ chunk'.left \in Nat /\ (chunk'.word # 0 => chunk'.left > 0)
    BY <1>1 DEF AudioInv, AudioTypeOK
  <2>5. QED BY <1>3, <1>6, <1>9, <2>2, <2>3, <2>4 DEF AudioTypeOK
<1>11. LineNumbered'
  <2>1. ASSUME NEW q \in 1..Len(line), line[q] # 0
        PROVE  \E j \in 1..(l - n) : targets'[j] = q - Len(line) /\ line[q] >= Number(j)'
    <3>1. PICK j \in 1..l : targets[j] = q - Len(line) /\ line[q] >= Number(j)
      BY <1>4, <2>1 DEF AudioInv, LineNumbered
    <3>2. ~Played(targets[j])
      <4>1. PICK k \in Nat : k = Len(line)
        BY AudioTypes
      <4>2. targets[j] = q - k
        BY <3>1, <4>1
      <4>3. q \in Nat /\ q >= 1 /\ ~(q - k + k <= 0)
        BY <1>2, <4>1
      <4>4. QED BY <4>1, <4>2, <4>3 DEF Played
    <3>3. ~(j <= n)
      BY <1>5, <3>2
    <3>4. PICK i \in 1..(l - n) : n + i = j
      <4>1. j - n \in 1..(l - n) /\ n + (j - n) = j
        BY <3>3
      <4>2. QED BY <4>1
    <3>5. targets'[i] = q - Len(line)
      BY <1>6, <3>1, <3>4
    <3>6. Number(i)' = Number(j)
      <4>1. Number(j) = Base + rendered + j /\ Number(i)' = Base + (rendered + n) + i
        BY <1>7, <1>9 DEF Number
      <4>2. QED BY <1>2, <1>8, <3>4, <4>1
    <3>7. QED BY <3>1, <3>5, <3>6
  <2>2. QED BY <1>1, <1>6, <2>1 DEF LineNumbered
<1>12. BatchNumbered'
  <2>1. Len(loop'.batch) = 0
    BY <1>3
  <2>2. QED BY <2>1 DEF BatchNumbered
<1>13. QueueOrder'
  <2>1. Emitted' = Emitted
    <3>1. Emitted = Base + rendered + l /\ Emitted' = Base + (rendered + n) + (l - n)
      BY <1>4, <1>6, <1>7, <1>9 DEF Emitted, Number
    <3>2. QED BY <1>2, <1>8, <3>1
  <2>2. QED BY <1>1, <1>7, <2>1 DEF AudioInv, QueueOrder
<1>14. NothingLost'
  <2>1. loop'.batch = loop.batch
    BY <1>2, <1>3
  <2>2. QED BY <1>1, <2>1 DEF AudioInv, NothingLost, OnItsWay, InModulator, InDevice
<1>15. NotBeforePlayed'
  BY <1>1, NoneCalled
<1>16. QED BY <1>7, <1>10, <1>11, <1>12, <1>13, <1>14, <1>15 DEF AudioInv

\* A new chunk takes the first word of the queue, when the one before is used up.
LEMMA RefillInv ==
  ASSUME AudioInv, Refill
  PROVE  AudioInv'
<1>1. /\ chunk.left = 0
      /\ UNCHANGED <<made, arming, armed, notify, done, dropped, targets, rendered, line, aired>>
      /\ loop.at = "filling" /\ Len(loop.batch) < loop.room
  BY DEF Refill, Filling
<1>2. /\ held \in Nat /\ waiting \in Seq(Nat) /\ chunk.word = 0 /\ loop.batch \in Seq(Nat)
      /\ loop.room \in Int
  BY <1>1, AudioTypes
<1>3. Base' = Base /\ Awaited'
  BY <1>1, AwaitedAlone
<1>4. NotBeforePlayed'
  BY <1>1, NoneCalled
<1>5. Emitted' = Emitted
  BY <1>1, <1>3 DEF Emitted, Number
<1>6. Base \in Int /\ Emitted \in Int
  BY BaseTyped, AudioTypes DEF Emitted, Number
<1>7. CASE held # 0 /\ chunk' = [word |-> held, left |-> Frame] /\ PullNext /\ UNCHANGED loop
  <2>1. chunk'.word = held /\ chunk'.left = Frame /\ Frame \in Nat /\ Frame > 0 /\ loop' = loop
    BY <1>7, AudioAssumption
  <2>2. \/ waiting = <<>> /\ held' = 0 /\ waiting' = <<>>
        \/ waiting # <<>> /\ held' = Head(waiting) /\ waiting' = Tail(waiting)
    BY <1>7 DEF PullNext
  <2>3. held' \in Nat /\ waiting' \in Seq(Nat)
    <3>1. CASE waiting = <<>>
      BY <1>2, <2>2, <3>1
    <3>2. CASE waiting # <<>>
      BY <1>2, <2>2, <3>2, HeadAndTail
    <3>3. QED BY <3>1, <3>2
  <2>4. AudioTypeOK'
    <3>1. /\ chunk' = [word |-> chunk'.word, left |-> chunk'.left]
          /\ chunk'.word \in Nat /\ chunk'.left \in Nat /\ (chunk'.word # 0 => chunk'.left > 0)
      BY <1>2, <1>7, <2>1
    <3>2. QED BY <1>1, <2>1, <2>3, <3>1 DEF AudioInv, AudioTypeOK
  <2>5. LineNumbered' /\ BatchNumbered'
    BY <1>1, <1>3, <2>1 DEF AudioInv, LineNumbered, BatchNumbered, Number
  <2>6. QueueOrder'
    <3>1. /\ Base >= 0 /\ Emitted <= made /\ Emitted < held /\ held <= made
          /\ \A i \in 1..Len(waiting) : held < waiting[i] /\ waiting[i] <= made
          /\ \A i, k \in 1..Len(waiting) : i < k => waiting[i] < waiting[k]
      BY <1>7 DEF AudioInv, QueueOrder
    <3>2. CASE waiting = <<>>
      <4>1. Len(waiting') = 0
        BY <2>2, <3>2
      <4>2. QED BY <1>1, <1>3, <1>5, <2>1, <2>2, <3>1, <3>2, <4>1 DEF QueueOrder
    <3>3. CASE waiting # <<>>
      <4>1. PICK l \in Nat : l = Len(waiting')
        BY <2>3
      <4>2. /\ Len(waiting) = l + 1 /\ held' = waiting[1]
            /\ \A i \in 1..l : waiting'[i] = waiting[i + 1]
        <5>1. /\ Len(waiting) >= 1 /\ Len(waiting') = Len(waiting) - 1 /\ held' = waiting[1]
              /\ \A i \in 1..Len(waiting') : waiting'[i] = waiting[i + 1]
          <6>1. held' = Head(waiting) /\ waiting' = Tail(waiting)
            BY <2>2, <3>3
          <6>2. /\ Len(waiting) >= 1 /\ Len(Tail(waiting)) = Len(waiting) - 1
                /\ Head(waiting) = waiting[1]
                /\ \A i \in 1..Len(Tail(waiting)) : Tail(waiting)[i] = waiting[i + 1]
            BY <1>2, <3>3, HeadAndTail
          <6>3. QED BY <6>1, <6>2
        <5>2. Len(waiting) \in Nat
          BY <1>2
        <5>3. QED BY <4>1, <5>1, <5>2
      <4>3. held < held' /\ held' <= made
        <5>1. 1 \in 1..Len(waiting)
          BY <4>2
        <5>2. QED BY <3>1, <4>2, <5>1
      <4>4. ASSUME NEW i \in 1..l PROVE held' < waiting'[i] /\ waiting'[i] <= made
        <5>1. 1 \in 1..Len(waiting) /\ i + 1 \in 1..Len(waiting) /\ 1 < i + 1
          BY <4>2
        <5>2. QED BY <3>1, <4>2, <5>1
      <4>5. ASSUME NEW i \in 1..l, NEW k \in 1..l, i < k PROVE waiting'[i] < waiting'[k]
        <5>1. i + 1 \in 1..Len(waiting) /\ k + 1 \in 1..Len(waiting) /\ i + 1 < k + 1
          BY <4>2, <4>5
        <5>2. QED BY <3>1, <4>2, <5>1
      <4>6. held' # 0 /\ Emitted < held'
        BY <1>2, <1>6, <2>3, <3>1, <4>3
      <4>7. QED
        BY <1>1, <1>3, <1>5, <2>1, <3>1, <4>1, <4>3, <4>4, <4>5, <4>6 DEF QueueOrder
    <3>4. QED BY <3>2, <3>3
  <2>7. NothingLost'
    <3>1. Range(waiting) \subseteq (Range(waiting') \union {held'}) \ {0}
      <4>1. ASSUME NEW w \in Range(waiting) PROVE w # 0
        <5>1. PICK i \in 1..Len(waiting) : w = waiting[i]
          BY <1>2, RangeIs
        <5>2. held < w /\ w \in Nat
          BY <1>2, <5>1, ElementTyped DEF AudioInv, QueueOrder
        <5>3. QED BY <1>2, <5>2
      <4>2. CASE waiting = <<>>
        BY <4>2 DEF Range
      <4>3. CASE waiting # <<>>
        BY <1>2, <2>2, <4>1, <4>3, RangeTail
      <4>4. QED BY <4>2, <4>3
    <3>2. InModulator \subseteq InModulator' \union InDevice'
      BY <2>1, <3>1 DEF InModulator, InDevice
    <3>3. InDevice \subseteq InDevice'
      BY <1>1, <1>2 DEF InDevice
    <3>4. OnItsWay \subseteq OnItsWay'
      BY <2>1, <3>2, <3>3 DEF OnItsWay
    <3>5. QED BY <1>1, <3>4, NoneLost
  <2>8. QED BY <1>3, <1>4, <2>4, <2>5, <2>6, <2>7 DEF AudioInv
<1>8. CASE chunk' = [word |-> 0, left |-> Frame] /\ UNCHANGED <<loop, held, waiting>>
  <2>1. chunk'.word = 0 /\ chunk'.left = Frame /\ Frame \in Nat /\ loop' = loop
    BY <1>8, AudioAssumption
  <2>2. AudioTypeOK'
    <3>1. chunk' = [word |-> chunk'.word, left |-> chunk'.left]
      BY <1>8, <2>1
    <3>2. QED BY <1>1, <1>8, <2>1, <3>1 DEF AudioInv, AudioTypeOK
  <2>3. LineNumbered' /\ BatchNumbered'
    BY <1>1, <1>3, <2>1 DEF AudioInv, LineNumbered, BatchNumbered, Number
  <2>4. QueueOrder'
    BY <1>1, <1>2, <1>3, <1>5, <1>8, <2>1 DEF AudioInv, QueueOrder
  <2>5. NothingLost'
    <3>1. OnItsWay' = OnItsWay
      BY <1>1, <1>2, <1>8, <2>1 DEF OnItsWay, InModulator, InDevice
    <3>2. QED BY <1>1, <3>1, NoneLost
  <2>6. QED BY <1>3, <1>4, <2>2, <2>3, <2>4, <2>5 DEF AudioInv
<1>9. CASE loop' = Padded /\ UNCHANGED <<chunk, held, waiting>>
  <2> DEFINE pad == [i \in 1..(loop.room - Len(loop.batch)) |-> 0]
  <2>1. PICK l \in Nat, m \in Nat : l = Len(loop.batch) /\ m = loop.room - l
    <3>1. Len(loop.batch) \in Nat
      BY <1>2
    <3>2. loop.room - Len(loop.batch) \in Nat
      BY <1>1, <1>2, <3>1
    <3>3. QED BY <3>1, <3>2
  <2>2. pad \in Seq(Nat) /\ Len(pad) = m /\ \A i \in 1..m : pad[i] = 0
    BY <2>1
  <2>3. /\ loop'.batch = loop.batch \o pad /\ loop'.room = loop.room /\ loop'.at = "filling"
        /\ loop' = [at |-> loop'.at, using |-> loop'.using, room |-> loop'.room,
                    batch |-> loop'.batch]
    <3>1. loop = [at |-> loop.at, using |-> loop.using, room |-> loop.room, batch |-> loop.batch]
      BY DEF AudioInv, AudioTypeOK
    <3>2. loop' = [at |-> loop.at, using |-> loop.using, room |-> loop.room,
                   batch |-> loop.batch \o pad]
      BY <1>9, <3>1 DEF Padded
    <3>3. QED BY <1>1, <3>2
  <2> HIDE DEF pad
  <2>4. /\ loop'.batch \in Seq(Nat) /\ Len(loop'.batch) = l + m
        /\ \A i \in 1..l : loop'.batch[i] = loop.batch[i]
        /\ \A i \in 1..m : loop'.batch[l + i] = 0
    <3>1. /\ loop.batch \o pad \in Seq(Nat) /\ Len(loop.batch \o pad) = l + m
          /\ \A i \in 1..l : (loop.batch \o pad)[i] = loop.batch[i]
          /\ \A i \in 1..m : (loop.batch \o pad)[l + i] = pad[i]
      <4>1. l = Len(loop.batch) /\ m = Len(pad) /\ loop.batch \in Seq(Nat) /\ pad \in Seq(Nat)
        BY <1>2, <2>1, <2>2
      <4>2. /\ loop.batch \o pad \in Seq(Nat)
            /\ Len(loop.batch \o pad) = Len(loop.batch) + Len(pad)
            /\ \A i \in 1..Len(loop.batch) : (loop.batch \o pad)[i] = loop.batch[i]
            /\ \A i \in 1..Len(pad) : (loop.batch \o pad)[Len(loop.batch) + i] = pad[i]
        BY <4>1, Joined
      <4>3. QED BY <4>1, <4>2
    <3>2. \A i \in 1..m : (loop.batch \o pad)[l + i] = 0
      BY <2>2, <3>1
    <3>3. QED BY <2>3, <3>1, <3>2
  <2>5. AudioTypeOK'
    <3>1. loop'.room \in Int
      BY <1>2, <2>3
    <3>2. QED BY <1>1, <1>9, <2>3, <2>4, <3>1 DEF AudioInv, AudioTypeOK
  <2>6. LineNumbered'
    BY <1>1, <1>3 DEF AudioInv, LineNumbered, Number
  <2>7. BatchNumbered'
    <3>1. ASSUME NEW q \in 1..(l + m), loop'.batch[q] # 0
          PROVE  \E j \in 1..Len(targets) : targets[j] = q /\ loop'.batch[q] >= Number(j)
      <4>1. q \in 1..l
        <5>1. SUFFICES ASSUME q > l PROVE FALSE
          OBVIOUS
        <5>2. q - l \in 1..m /\ l + (q - l) = q
          BY <5>1
        <5>3. QED BY <2>4, <3>1, <5>2
      <4>2. loop'.batch[q] = loop.batch[q]
        BY <2>4, <4>1
      <4>3. QED BY <2>1, <3>1, <4>1, <4>2 DEF AudioInv, BatchNumbered
    <3>2. QED BY <1>1, <1>3, <2>4, <3>1 DEF BatchNumbered, Number
  <2>8. QueueOrder'
    BY <1>1, <1>3, <1>5, <1>9 DEF AudioInv, QueueOrder
  <2>9. NothingLost'
    <3>1. Range(loop.batch) \subseteq Range(loop'.batch)
      BY <1>2, <2>2, <2>3, RangeJoined
    <3>2. OnItsWay \subseteq OnItsWay'
      BY <1>1, <1>9, <3>1 DEF OnItsWay, InModulator, InDevice
    <3>3. QED BY <1>1, <3>2, NoneLost
  <2>10. QED BY <1>3, <1>4, <2>5, <2>6, <2>7, <2>8, <2>9 DEF AudioInv
<1>10. QED BY <1>7, <1>8, <1>9 DEF Refill

\* The last frame of a word makes the end of it a target.
LEMMA EmitInv ==
  ASSUME AudioInv, Emit
  PROVE  AudioInv'
<1> DEFINE ends == chunk.left = 1 /\ chunk.word # 0
<1> DEFINE frame == IF ends THEN chunk.word ELSE 0
<1>1. /\ chunk.left > 0 /\ loop.at = "filling"
      /\ loop' = [loop EXCEPT !.batch = Append(@, frame)]
      /\ targets' = IF ends THEN Append(targets, Len(loop.batch) + 1) ELSE targets
      /\ chunk' = IF chunk.left = 1 THEN NoChunk ELSE [chunk EXCEPT !.left = @ - 1]
      /\ UNCHANGED <<made, held, waiting, arming, armed, notify, done, dropped, rendered, line, aired>>
  BY DEF Emit, Filling, mainvars
<1>2. /\ chunk.word \in Nat /\ chunk.left \in Nat /\ targets \in Seq(Int) /\ rendered \in Nat
      /\ loop.batch \in Seq(Nat) /\ loop.room \in Int /\ line \in Seq(Nat) /\ held \in Nat
  BY AudioTypes
<1>3. PICK l \in Nat, n \in Nat : l = Len(loop.batch) /\ n = Len(targets)
  BY <1>2
<1>4. frame \in Nat
  BY <1>2
<1>5. /\ loop'.batch = Append(loop.batch, frame) /\ loop'.room = loop.room /\ loop'.at = "filling"
      /\ loop' = [at |-> loop'.at, using |-> loop'.using, room |-> loop'.room,
                  batch |-> loop'.batch]
  <2>1. loop = [at |-> loop.at, using |-> loop.using, room |-> loop.room, batch |-> loop.batch]
    BY DEF AudioInv, AudioTypeOK
  <2> HIDE DEF frame
  <2>2. loop' = [at |-> loop.at, using |-> loop.using, room |-> loop.room,
                 batch |-> Append(loop.batch, frame)]
    BY <1>1, <2>1
  <2>3. QED BY <1>1, <2>2
<1>6. /\ loop'.batch \in Seq(Nat) /\ Len(loop'.batch) = l + 1 /\ loop'.batch[l + 1] = frame
      /\ \A i \in 1..l : loop'.batch[i] = loop.batch[i]
  <2> HIDE DEF frame
  <2>1. QED BY <1>2, <1>3, <1>4, <1>5
<1>7. /\ chunk' = [word |-> chunk'.word, left |-> chunk'.left]
      /\ chunk'.word = IF chunk.left = 1 THEN 0 ELSE chunk.word
      /\ chunk'.left = chunk.left - 1
  <2>1. chunk = [word |-> chunk.word, left |-> chunk.left]
    BY DEF AudioInv, AudioTypeOK
  <2>2. CASE chunk.left = 1
    BY <1>1, <2>2 DEF NoChunk
  <2>3. CASE chunk.left # 1
    <3>1. chunk' = [word |-> chunk.word, left |-> chunk.left - 1]
      BY <1>1, <2>1, <2>3
    <3>2. QED BY <2>3, <3>1
  <2>4. QED BY <2>2, <2>3
<1>8. PICK m \in Nat :
        /\ targets' \in Seq(Int) /\ Len(targets') = m
        /\ \A j \in 1..n : targets'[j] = targets[j]
        /\ ends => m = n + 1 /\ targets'[n + 1] = l + 1
        /\ ~ends => m = n
  <2>1. CASE ends
    <3>1. targets' = Append(targets, l + 1) /\ l + 1 \in Int
      BY <1>1, <1>3, <2>1
    <3> HIDE DEF ends
    <3>2. /\ targets' \in Seq(Int) /\ Len(targets') = n + 1 /\ targets'[n + 1] = l + 1
          /\ \A j \in 1..n : targets'[j] = targets[j]
      BY <1>2, <1>3, <3>1
    <3>3. QED BY <2>1, <3>2
  <2>2. CASE ~ends
    <3>1. targets' = targets
      BY <1>1, <2>2
    <3>2. QED BY <1>2, <1>3, <2>2, <3>1
  <2>3. QED BY <2>1, <2>2
<1>9. m >= n
  BY <1>8
<1>10. Base' = Base /\ Awaited'
  BY <1>1, AwaitedAlone
<1>11. NotBeforePlayed'
  BY <1>1, NoneCalled
<1>12. Base \in Int
  BY BaseTyped
<1>13. Emitted = Base + rendered + n /\ Emitted' = Base + rendered + m
  BY <1>1, <1>3, <1>8, <1>10 DEF Emitted, Number
<1>14. AudioTypeOK'
  <2>1. /\ chunk'.word \in Nat /\ chunk'.left \in Nat /\ (chunk'.word # 0 => chunk'.left > 0)
    <3>1. chunk.left > 0 /\ chunk.left \in Nat /\ chunk.word \in Nat
      BY <1>1, <1>2
    <3>2. /\ chunk'.word = IF chunk.left = 1 THEN 0 ELSE chunk.word
          /\ chunk'.left = chunk.left - 1
      BY <1>7
    <3>3. QED BY <3>1, <3>2
  <2>2. /\ made' \in Nat /\ held' \in Nat /\ armed' \in Nat /\ arming' \in BOOLEAN /\ rendered' \in Nat
        /\ waiting' \in Seq(Nat) /\ line' \in Seq(Nat) /\ notify' \in Seq([target : Nat, word : Nat])
    BY <1>1, AudioTypes
  <2>3. loop'.room \in Int
    BY <1>2, <1>5
  <2>4. QED BY <1>5, <1>6, <1>7, <1>8, <2>1, <2>2, <2>3 DEF AudioTypeOK
<1>15. LineNumbered'
  <2>1. ASSUME NEW q \in 1..Len(line), line[q] # 0
        PROVE  \E j \in 1..m : targets'[j] = q - Len(line) /\ line[q] >= Number(j)'
    <3>1. PICK j \in 1..n : targets[j] = q - Len(line) /\ line[q] >= Number(j)
      BY <1>3, <2>1 DEF AudioInv, LineNumbered
    <3>2. j \in 1..m /\ targets'[j] = targets[j]
      BY <1>8, <1>9
    <3>3. Number(j)' = Number(j)
      BY <1>1, <1>10 DEF Number
    <3>4. QED BY <3>1, <3>2, <3>3
  <2>2. QED BY <1>1, <1>8, <2>1 DEF LineNumbered
<1>16. BatchNumbered'
  <2>1. ASSUME NEW q \in 1..(l + 1), loop'.batch[q] # 0
        PROVE  \E j \in 1..m : targets'[j] = q /\ loop'.batch[q] >= Number(j)'
    <3>1. CASE q \in 1..l
      <4>1. loop'.batch[q] = loop.batch[q]
        BY <1>6, <3>1
      <4>2. PICK j \in 1..n : targets[j] = q /\ loop.batch[q] >= Number(j)
        BY <1>3, <2>1, <3>1, <4>1 DEF AudioInv, BatchNumbered
      <4>3. j \in 1..m /\ targets'[j] = targets[j]
        BY <1>8, <1>9
      <4>4. Number(j)' = Number(j)
        BY <1>1, <1>10 DEF Number
      <4>5. QED BY <4>1, <4>2, <4>3, <4>4
    <3>2. CASE q = l + 1
      <4>1. ends /\ loop'.batch[q] = chunk.word
        BY <1>6, <2>1, <3>2
      <4>2. m = n + 1 /\ targets'[m] = q /\ m \in 1..m
        BY <1>8, <3>2, <4>1
      <4>3. Emitted < chunk.word
        BY <4>1 DEF AudioInv, QueueOrder
      <4>4. Number(m)' = Base + rendered + (n + 1)
        BY <1>1, <1>10, <4>2 DEF Number
      <4>5. chunk.word >= Number(m)'
        BY <1>2, <1>12, <1>13, <4>3, <4>4
      <4>6. QED BY <4>1, <4>2, <4>5
    <3>3. QED BY <3>1, <3>2
  <2>2. QED BY <1>6, <1>8, <2>1 DEF BatchNumbered
<1>17. QueueOrder'
  <2>1. /\ Base >= 0 /\ Emitted <= made
        /\ chunk.word # 0 => Emitted < chunk.word /\ chunk.word <= made
        /\ held # 0 => Emitted < held /\ chunk.word < held /\ held <= made
        /\ held = 0 => waiting = <<>>
        /\ \A i \in 1..Len(waiting) : held < waiting[i] /\ waiting[i] <= made
        /\ \A i, k \in 1..Len(waiting) : i < k => waiting[i] < waiting[k]
    BY DEF AudioInv, QueueOrder
  <2>2. made \in Nat
    BY AudioTypes
  <2>3. /\ Emitted' <= made
        /\ chunk'.word # 0 => Emitted' < chunk'.word /\ chunk'.word <= made
        /\ held # 0 => Emitted' < held /\ chunk'.word < held
    <3>1. CASE ends
      <4>1. Emitted' = Emitted + 1 /\ chunk'.word = 0 /\ Emitted < chunk.word /\ chunk.word <= made
        BY <1>2, <1>7, <1>8, <1>12, <1>13, <2>1, <3>1
      <4>2. Emitted \in Int
        BY <1>2, <1>12, <1>13
      <4>3. QED BY <1>2, <2>1, <2>2, <4>1, <4>2
    <3>2. CASE ~ends
      <4>1. Emitted' = Emitted
        BY <1>8, <1>13, <3>2
      <4>2. chunk'.word = chunk.word
        BY <1>7, <3>2
      <4>3. QED BY <2>1, <4>1, <4>2
    <3>3. QED BY <3>1, <3>2
  <2>4. QED BY <1>1, <1>10, <2>1, <2>3 DEF QueueOrder
<1>18. NothingLost'
  <2>1. Range(loop.batch) \subseteq Range(loop'.batch) /\ frame \in Range(loop'.batch)
    <3> HIDE DEF frame
    <3>1. QED BY <1>2, <1>4, <1>5, RangeAppended
  <2>2. chunk.word # 0 => chunk.word = chunk'.word \/ chunk.word = frame
    BY <1>7
  <2>3. OnItsWay \subseteq OnItsWay'
    <3> HIDE DEF frame
    <3>1. QED BY <1>1, <2>1, <2>2 DEF OnItsWay, InModulator, InDevice
  <2>4. QED BY <1>1, <2>3, NoneLost
<1>19. QED BY <1>10, <1>11, <1>14, <1>15, <1>16, <1>17, <1>18 DEF AudioInv

\* The batch goes behind what the hardware has; the targets move with it.
LEMMA WriteBatchInv ==
  ASSUME AudioInv, WriteBatch
  PROVE  AudioInv'
<1>1. /\ Len(loop.batch) = loop.room /\ line' = line \o loop.batch
      /\ targets' = [i \in DOMAIN targets |-> targets[i] - loop.room] /\ loop' = IdleLoop
      /\ UNCHANGED <<made, held, waiting, arming, armed, notify, done, dropped, chunk, rendered, aired>>
  BY DEF WriteBatch, mainvars
<1>2. targets \in Seq(Int) /\ loop.batch \in Seq(Nat) /\ line \in Seq(Nat)
  BY AudioTypes
<1>3. PICK k \in Nat, r \in Nat, n \in Nat : k = Len(line) /\ r = Len(loop.batch) /\ n = Len(targets)
  BY <1>2
<1>4. /\ line' \in Seq(Nat) /\ Len(line') = k + r
      /\ \A i \in 1..k : line'[i] = line[i]
      /\ \A i \in 1..r : line'[k + i] = loop.batch[i]
  <2>1. /\ line \o loop.batch \in Seq(Nat)
        /\ Len(line \o loop.batch) = Len(line) + Len(loop.batch)
        /\ \A i \in 1..Len(line) : (line \o loop.batch)[i] = line[i]
        /\ \A i \in 1..Len(loop.batch) : (line \o loop.batch)[Len(line) + i] = loop.batch[i]
    BY <1>2, Joined
  <2>2. QED BY <1>1, <1>3, <2>1
<1>5. /\ targets' \in Seq(Int) /\ Len(targets') = n
      /\ \A j \in 1..n : targets'[j] = targets[j] - r
  <2>1. targets' = [i \in 1..n |-> targets[i] - r]
    BY <1>1, <1>2, <1>3
  <2>2. \A i \in 1..n : targets[i] - r \in Int
    <3>1. ASSUME NEW i \in 1..n PROVE targets[i] \in Int
      BY <1>2, <1>3, ElementTyped
    <3>2. QED BY <3>1
  <2>3. QED BY <2>1, <2>2
<1>6. /\ loop' = [at |-> loop'.at, using |-> loop'.using, room |-> loop'.room, batch |-> loop'.batch]
      /\ loop'.room = 0 /\ loop'.batch = <<>> /\ loop'.at = "idle"
  <2>1. loop' = [at |-> "idle", using |-> "symbol", room |-> 0, batch |-> <<>>]
    BY <1>1 DEF IdleLoop
  <2>2. QED BY <2>1
<1>7. Base' = Base /\ Awaited'
  BY <1>1, AwaitedAlone
<1>8. NotBeforePlayed'
  BY <1>1, NoneCalled
<1>9. AudioTypeOK'
  <2>1. <<>> \in Seq(Nat)
    OBVIOUS
  <2>2. loop'.batch \in Seq(Nat) /\ loop'.room \in Int
    BY <1>6, <2>1
  <2>3. /\ made' \in Nat /\ held' \in Nat /\ armed' \in Nat /\ arming' \in BOOLEAN /\ rendered' \in Nat
        /\ waiting' \in Seq(Nat) /\ notify' \in Seq([target : Nat, word : Nat])
    BY <1>1, AudioTypes
  <2>4. /\ chunk' = [word |-> chunk'.word, left |-> chunk'.left]
        /\ chunk'.word \in Nat /\ chunk'.left \in Nat /\ (chunk'.word # 0 => chunk'.left > 0)
    BY <1>1 DEF AudioInv, AudioTypeOK
  <2>5. QED BY <1>4, <1>5, <1>6, <2>2, <2>3, <2>4 DEF AudioTypeOK
<1>10. \A j \in 1..n : Number(j)' = Number(j)
  BY <1>1, <1>7 DEF Number
<1>11. LineNumbered'
  <2>1. ASSUME NEW q \in 1..(k + r), line'[q] # 0
        PROVE  \E j \in 1..n : targets'[j] = q - (k + r) /\ line'[q] >= Number(j)'
    <3>1. CASE q <= k
      <4>1. q \in 1..k /\ line'[q] = line[q]
        BY <1>4, <3>1
      <4>2. PICK j \in 1..n : targets[j] = q - k /\ line[q] >= Number(j)
        BY <1>3, <2>1, <4>1 DEF AudioInv, LineNumbered
      <4>3. targets'[j] = q - k - r
        BY <1>5, <4>2
      <4>4. QED BY <1>10, <4>1, <4>2, <4>3
    <3>2. CASE k < q
      <4>1. PICK i \in 1..r : q = k + i
        <5>1. q - k \in 1..r /\ q = k + (q - k)
          BY <3>2
        <5>2. QED BY <5>1
      <4>2. line'[q] = loop.batch[i]
        BY <1>4, <4>1
      <4>3. PICK j \in 1..n : targets[j] = i /\ loop.batch[i] >= Number(j)
        BY <1>3, <2>1, <4>2 DEF AudioInv, BatchNumbered
      <4>4. targets'[j] = i - r
        BY <1>5, <4>3
      <4>5. QED BY <1>10, <4>1, <4>2, <4>3, <4>4
    <3>3. QED BY <3>1, <3>2
  <2>2. QED BY <1>4, <1>5, <2>1 DEF LineNumbered
<1>12. BatchNumbered'
  <2>1. Len(loop'.batch) = 0
    BY <1>6
  <2>2. QED BY <2>1 DEF BatchNumbered
<1>13. QueueOrder'
  <2>1. Emitted' = Emitted
    BY <1>1, <1>3, <1>5, <1>7 DEF Emitted, Number
  <2>2. QED BY <1>1, <1>7, <2>1 DEF AudioInv, QueueOrder
<1>14. NothingLost'
  <2>1. Range(line) \subseteq Range(line') /\ Range(loop.batch) \subseteq Range(line')
    BY <1>1, <1>2, RangeJoined
  <2>2. OnItsWay \subseteq OnItsWay'
    BY <1>1, <2>1 DEF OnItsWay, InModulator, InDevice
  <2>3. QED BY <1>1, <2>2, NoneLost
<1>15. QED BY <1>7, <1>8, <1>9, <1>11, <1>12, <1>13, <1>14 DEF AudioInv

\* The hardware plays the first frame.
LEMMA PlayInv ==
  ASSUME AudioInv, Play
  PROVE  AudioInv'
<1>1. /\ line # <<>> /\ line' = Tail(line) /\ aired' = aired \union ({Head(line)} \ {0})
      /\ UNCHANGED <<made, held, waiting, arming, armed, notify, done, dropped, loop, chunk, targets,
                     rendered>>
  BY DEF Play, mainvars, threadvars
<1>2. line \in Seq(Nat)
  BY AudioTypes
<1>3. PICK k \in Nat : k = Len(line')
  <2>1. Tail(line) \in Seq(Nat)
    BY <1>1, <1>2, HeadAndTail
  <2>2. QED BY <1>1, <2>1
<1>4. line' \in Seq(Nat) /\ Len(line) = k + 1 /\ \A i \in 1..k : line'[i] = line[i + 1]
  <2>1. /\ Tail(line) \in Seq(Nat) /\ Len(line) >= 1 /\ Len(Tail(line)) = Len(line) - 1
        /\ \A i \in 1..Len(Tail(line)) : Tail(line)[i] = line[i + 1]
    BY <1>1, <1>2, HeadAndTail
  <2>2. Len(line) \in Nat
    BY <1>2
  <2>3. QED BY <1>1, <1>3, <2>1, <2>2
<1>5. Base' = Base /\ Awaited'
  BY <1>1, AwaitedAlone
<1>6. NotBeforePlayed'
  BY <1>1, NoneCalled
<1>7. AudioTypeOK'
  BY <1>1, <1>4 DEF AudioInv, AudioTypeOK
<1>8. LineNumbered'
  <2>1. ASSUME NEW q \in 1..k, line'[q] # 0
        PROVE  \E j \in 1..Len(targets) : targets[j] = q - k /\ line'[q] >= Number(j)
    <3>1. q + 1 \in 1..(k + 1) /\ line'[q] = line[q + 1] /\ (q + 1) - (k + 1) = q - k
      BY <1>4
    <3>2. PICK j \in 1..Len(targets) : targets[j] = (q + 1) - (k + 1) /\ line[q + 1] >= Number(j)
      BY <1>4, <2>1, <3>1 DEF AudioInv, LineNumbered
    <3>3. QED BY <3>1, <3>2
  <2>2. QED BY <1>1, <1>3, <1>5, <2>1 DEF LineNumbered, Number
<1>9. BatchNumbered'
  BY <1>1, <1>5 DEF AudioInv, BatchNumbered, Number
<1>10. QueueOrder'
  BY <1>1, <1>5 DEF AudioInv, QueueOrder, Emitted, Number
<1>11. NothingLost'
  <2>1. Range(line) \subseteq {Head(line)} \union Range(line')
    BY <1>1, <1>2, RangeTail
  <2>2. OnItsWay \subseteq OnItsWay' \union aired'
    BY <1>1, <2>1 DEF OnItsWay, InModulator, InDevice
  <2>3. QED BY <1>1, <2>2, NoneLost
<1>12. QED BY <1>5, <1>6, <1>7, <1>8, <1>9, <1>10, <1>11 DEF AudioInv

\* The audio thread ends between two batches.
LEMMA ThreadEndsInv ==
  ASSUME AudioInv, ThreadEnds
  PROVE  AudioInv'
<1>1. loop.at = "idle" /\ loop' = [loop EXCEPT !.at = "ended"]
  BY DEF ThreadEnds
<1>2. /\ loop = [at |-> loop.at, using |-> loop.using, room |-> loop.room, batch |-> loop.batch]
      /\ loop.batch = <<>>
  BY <1>1 DEF AudioInv, AudioTypeOK
<1>3. loop' = [at |-> "ended", using |-> loop.using, room |-> loop.room, batch |-> loop.batch]
  BY <1>1, <1>2
<1>4. /\ loop'.batch = loop.batch /\ loop'.room = loop.room /\ loop'.batch = <<>>
      /\ loop' = [at |-> loop'.at, using |-> loop'.using, room |-> loop'.room, batch |-> loop'.batch]
  BY <1>2, <1>3
<1>5. UNCHANGED <<made, held, waiting, arming, armed, notify, done, dropped, chunk, targets,
                  rendered, line, aired>>
  BY DEF ThreadEnds, mainvars
<1>6. QED BY <1>4, <1>5, OtherInv

-----------------------------------------------------------------------------
\* Every step preserves it.
LEMMA AudioInvStep ==
  ASSUME ~LeaveWords, AudioInv, [AudioNext]_avars
  PROVE  AudioInv'
<1>1. CASE Wish \/ DrainDeadline
  BY <1>1, OtherInv DEF Wish, DrainDeadline, threadvars
<1>2. CASE UNCHANGED avars
  BY <1>2, OtherInv DEF avars, mainvars, threadvars
<1>3. QED
  BY <1>1, <1>2, SendWordInv, ArmInv, AudioTickInv, AbortBurstInv, ReopenInv, WakeInv, RefillInv,
     EmitInv, WriteBatchInv, PlayInv, ThreadEndsInv DEF AudioNext

\* If no device is opened while words wait in the modulator, the completion of
\* a word (AudioDevice::arm_frame_complete) is not called before the word has
\* been played or was discarded.  (If one is, the new device counts from
\* nothing what the old one had been given.)
THEOREM CompletionsHold ==
  ASSUME ~LeaveWords
  PROVE  AudioSpec => []NotBeforePlayed
<1>1. AudioInit => AudioInv
  BY InitAudioInv
<1>2. AudioInv /\ [AudioNext]_avars => AudioInv'
  BY AudioInvStep
<1>3. AudioInv => NotBeforePlayed
  BY DEF AudioInv
<1>4. QED BY <1>1, <1>2, <1>3, PTL DEF AudioSpec

=============================================================================
