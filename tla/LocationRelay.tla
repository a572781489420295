--------------------------- MODULE LocationRelay ---------------------------
(***************************************************************************)
(* LocationRelayService: position reports heard on the air are gated and   *)
(* queued by the main thread and posted to a server by a worker thread,    *)
(* signed with an identity kept in a key file.  Every change of the        *)
(* station's location or sharing settings stops the service, which joins   *)
(* the worker, and starts it again.                                        *)
(*                                                                         *)
(* A report is its source, the position and time it carries (both make the *)
(* dedup key), a serial number of its arrival and the attempts made.       *)
(*                                                                         *)
(* The server is the repository's own (tools/location-relay-server), as    *)
(* far as identities go: it keeps one row per call sign, its operator      *)
(* approves and revokes rows on the command line, and reports are accepted *)
(* with the key of an approved row only.  Requests and answers may be lost,*)
(* and a limit, a proxy or a storage error may answer in the server's      *)
(* place.                                                                  *)
(***************************************************************************)
EXTENDS Integers, SequencesExt, FiniteSetsExt

CONSTANTS
  Stations,     \* call signs of other stations and of this one
  NoCall,       \* no own address configured
  Contexts,     \* kinds of call a report may arrive with
  Shared,       \* the kinds the settings allow
  Urls,         \* endpoints: [secure, local, trusted]
  QueueSize,    \* location_sharing_queue_size
  DedupMax,     \* 256 in the code
  MaxRetries,   \* kMaxRetries
  MaxReports,   \* bound on the reports heard
  MaxRestarts,  \* bound on restarts of the service and crashes
  MaxKeys       \* bound on generated identities

ASSUME RelayAssumption ==
  /\ NoCall \notin Stations /\ Shared \subseteq Contexts
  /\ QueueSize \in Nat \ {0} /\ DedupMax \in Nat /\ MaxRetries \in Nat
  /\ Urls \subseteq [secure : BOOLEAN, local : BOOLEAN, trusted : BOOLEAN]

VARIABLES
  sharing,  \* config_: [on, url, self]; self is the primary own address
  service,  \* [running, call, key, url]: running_, identity_, cfg_
  keyfile,  \* [call, key]: the identity file
  worker,   \* [pc, report]: the worker thread
  reports,  \* queue_
  dedup,    \* [keys, sent]: dedup_order_ and the sources of last_sent_
  conn,     \* conn_state_
  reg,      \* reg_state_
  main,     \* "loop", or "joining" while stop() waits for the worker
  heard,    \* number of reports gated in so far
  restarts,
  registry, \* of each server and call sign: its row in the table of identities
  told      \* history: what the service last learnt its status from in this run

rvars == <<sharing, service, keyfile, worker, reports, dedup, conn, reg, main,
           heard, restarts, registry, told>>

NoFile   == [call |-> NoCall, key |-> 0]
NoReport == [source |-> NoCall, pos |-> 0, n |-> 0, tries |-> 0]
Stopped  == [running |-> FALSE, call |-> NoCall, key |-> 0, url |-> {}]

-----------------------------------------------------------------------------
(* The HTTP exchange *)

\* location_url_allowed: plain http only to this machine.
UrlAllowed(u) == u.secure \/ u.local

Answer(s, b) == [status |-> s, body |-> b]
Unanswered   == Answer(0, "")

\* posix_tls_handshake: over https the peer's certificate must lead to the
\* pinned one or to the system's; nothing is sent otherwise.
Trusted(u) == u.secure => u.trusted

\* http_probe keeps the status only.
ProbeOutcomes(u) ==
  {Unanswered} \cup IF Trusted(u) THEN {Answer(200, ""), Answer(503, "")} ELSE {}

Success(a) == a.status \in 200..299

\* update_conn_state
ConnAfter(a) ==
  IF a.status = 0 THEN "DISCONNECTED"
  ELSE IF Success(a) THEN "CONNECTED" ELSE "SERVER_ERROR"

\* update_reg_state
RegAfter(r, a) ==
  IF Success(a) \/ a.status = 409 THEN "APPROVED"
  ELSE IF a.status = 403 /\ a.body = "revoked" THEN "REVOKED"
  ELSE IF a.status = 401 /\ a.body = "pending_approval" THEN "PENDING"
  ELSE IF a.status \in {401, 403} THEN "REJECTED" ELSE r

\* Whether the answer to a report tells the status.
TellsStatus(a) == Success(a) \/ a.status \in {401, 403, 409}

\* register_identity: 200 and 201 mean pending, 409 known.
RegisteredAs(r, a) ==
  CASE Success(a) -> "PENDING"
    [] a.status = 409 -> IF a.body = "revoked" THEN "REVOKED" ELSE "APPROVED"
    [] OTHER -> r

\* A variant for mutation: the number of attempts is not looked at.
RetriedForever(r, a) == a.status \in {0, 503}
\* Only no response, 429 and 5xx (one status here) are tried again.
Retried(r, a) == a.status \in {0, 503} /\ r.tries + 1 <= MaxRetries

-----------------------------------------------------------------------------
(* The server *)

\* The table of identities: approved_at stays when a row is revoked.
NoRow == [status |-> "unknown", key |-> 0, approved |-> FALSE]

\* handleRegister: only a call sign without a row gets one.  The key that is
\* posted with a known call sign is neither compared nor kept.
Registration(row, key) ==
  IF row.status = "unknown" THEN [NoRow EXCEPT !.status = "pending", !.key = key] ELSE row

RegistrationAnswer(row) ==
  CASE row.status = "unknown"  -> Answer(201, "pending")
    [] row.status = "pending"  -> Answer(200, "pending")
    [] row.status = "approved" -> Answer(409, "already_approved")
    [] row.status = "revoked"  -> Answer(409, "revoked")

\* verifyEd25519Auth: one reason for what is wrong with the request itself.
RefusalReasons(row, key) ==
  {"stale_timestamp"} \cup
  CASE row.status = "unknown" -> {"unknown_callsign"}
    [] row.status = "pending" -> {"pending_approval"}
    [] OTHER -> IF row.key = key THEN {} ELSE {"bad_signature"}
Refusals(row, key) == {Answer(401, reason) : reason \in RefusalReasons(row, key)}

\* handleIngest: a revoked call sign is turned away first; then come the limits,
\* the signature, the report itself, and the database.
Acceptances(row, key) ==
  IF row.status = "approved" /\ row.key = key
  THEN {Answer(201, ""), Answer(409, "duplicate"), Answer(403, "observer_mismatch")} ELSE {}
IngestAnswers(row, key) ==
  IF row.status = "revoked" THEN {Answer(403, "revoked")}
  ELSE {Answer(503, ""), Answer(422, "")} \cup Refusals(row, key) \cup Acceptances(row, key)

\* http_post_json of a report: resolving, connecting, the handshake and the
\* transfer may fail, which all look like no response.
PostOutcomes(u) ==
  {Unanswered} \cup
  IF Trusted(u) THEN {Answer(503, "")} \cup IngestAnswers(registry[u][service.call], service.key)
  ELSE {}

\* admin-cli.js: the operator of the server approves or revokes what is there.
Decided(row, verdict) ==
  [row EXCEPT !.status = verdict, !.approved = @ \/ verdict = "approved"]
Decide(u, c, verdict) ==
  /\ registry[u][c].status # "unknown"
  /\ registry' = [registry EXCEPT ![u][c] = Decided(@, verdict)]
  /\ UNCHANGED <<sharing, service, keyfile, worker, reports, dedup, conn, reg, main,
                 heard, restarts, told>>

-----------------------------------------------------------------------------
(* The main thread *)

\* is_shareable and the subscriber of ALE_AMD_RECEIVED; a report whose GPR is
\* malformed does not get this far.
Shareable(src, context) == sharing.on /\ src # sharing.self /\ context \in Shared

DedupKey(r) == <<r.source, r.pos>>

Remember(d, r) ==
  LET keys == Append(d.keys, DedupKey(r)) IN
  [keys |-> IF Len(keys) > DedupMax THEN Tail(keys) ELSE keys,
   sent |-> d.sent \cup {r.source}]

\* A full queue loses its oldest report.
Queued(q, r) == Append(IF Len(q) >= QueueSize THEN Tail(q) ELSE q, r)

\* enqueue(); within min_interval_sec of the source's last report the new one
\* is dropped, which may happen whenever the source has sent one.
HearReport ==
  /\ main = "loop" /\ heard < MaxReports
  /\ \E src \in Stations, p \in {1, 2}, context \in Contexts :
       LET r == [source |-> src, pos |-> p, n |-> heard + 1, tries |-> 0] IN
       /\ Shareable(src, context)
       /\ ~Contains(dedup.keys, DedupKey(r))
       /\ heard' = heard + 1
       /\ \/ src \in dedup.sent /\ UNCHANGED <<dedup, reports>>
          \/ dedup' = Remember(dedup, r) /\ reports' = Queued(reports, r)
  /\ UNCHANGED <<sharing, service, keyfile, worker, conn, reg, main, restarts, registry, told>>

\* LOCATION_SHARING_SET: a refused URL changes nothing; regenerating removes
\* the key file; the service is stopped and, by Restarted, started again.
ShareSet ==
  /\ main = "loop" /\ restarts < MaxRestarts
  /\ \E on, regenerate \in BOOLEAN, u \in Urls :
       /\ UrlAllowed(u)
       /\ sharing' = [sharing EXCEPT !.on = on, !.url = u]
       /\ keyfile' = IF regenerate THEN NoFile ELSE keyfile
  /\ restarts' = restarts + 1
  /\ main' = "joining" /\ service' = [service EXCEPT !.running = FALSE]
  /\ UNCHANGED <<worker, reports, dedup, conn, reg, heard, registry, told>>

\* SELF_ADDR_SET_PRIMARY: the relay service is not told.
SelfSet ==
  /\ main = "loop"
  /\ \E a \in Stations \ {sharing.self} : sharing' = [sharing EXCEPT !.self = a]
  /\ restarts < MaxRestarts /\ restarts' = restarts + 1
  /\ UNCHANGED <<service, keyfile, worker, reports, dedup, conn, reg, main, heard, registry, told>>

\* A key that neither this side nor a server knows.
FreshKey ==
  Max({keyfile.key, service.key} \cup {registry[u][c].key : u \in Urls, c \in Stations}) + 1

\* write_identity_file: it may fail, before or after truncating the file.
Written(file, id) == {<<id.key, id>>, <<0, NoFile>>, <<0, file>>}

\* load_or_create_relay_identity: the keys start() may come out with (0 is
\* none), each with the key file left behind.
IdentityUnsaved(file, call) ==
  IF file.call = call THEN {<<file.key, file>>} ELSE {<<FreshKey, file>>}
Identity(file, call) ==
  IF file.call = call THEN {<<file.key, file>>}
  ELSE Written(file, [call |-> call, key |-> FreshKey])

\* A variant for mutation: what the previous run knew is kept.
ResetKept(r) == r
\* start() forgets what the previous run knew of the server.
Reset(r) == "UNKNOWN"

\* restart_location_services() once the worker is joined.
Restarted ==
  /\ main = "joining" /\ worker.pc = "none"
  /\ main' = "loop"
  /\ IF sharing.on /\ sharing.self # NoCall
     THEN \E id \in Identity(keyfile, sharing.self) :
            /\ id[1] <= MaxKeys
            /\ keyfile' = id[2]
            /\ IF id[1] = 0
               THEN /\ service' = Stopped /\ UNCHANGED worker
               ELSE /\ service' = [running |-> TRUE, call |-> sharing.self, key |-> id[1],
                                   url |-> {sharing.url}]
                    /\ worker' = [worker EXCEPT !.pc = "register"]
            /\ conn' = Reset(conn) /\ reg' = Reset(reg) /\ told' = "nothing"
     ELSE UNCHANGED <<service, keyfile, worker, conn, reg, told>>
  /\ UNCHANGED <<sharing, reports, dedup, heard, restarts, registry>>

\* The program dies and is launched again: main() starts the service from the
\* settings it saved.
Crash ==
  /\ restarts < MaxRestarts /\ restarts' = restarts + 1
  /\ service' = Stopped /\ worker' = [pc |-> "none", report |-> NoReport]
  /\ reports' = <<>> /\ dedup' = [keys |-> <<>>, sent |-> {}]
  /\ conn' = "UNKNOWN" /\ reg' = "UNKNOWN" /\ told' = "nothing" /\ main' = "joining"
  /\ UNCHANGED <<sharing, keyfile, heard, registry>>

-----------------------------------------------------------------------------
(* The worker thread *)

\* A request and its answer are one step: while it waits the worker looks at
\* nothing else, and the service is not started again.

\* Registration is tried once per run, whatever comes of it: it does not arrive,
\* its answer is lost, or the answer tells the status.
Register ==
  /\ worker.pc = "register"
  /\ \/ UNCHANGED <<registry, reg, told>>
     \/ \E u \in service.url :
          LET row == registry[u][service.call] IN
          /\ Trusted(u)
          /\ registry' = [registry EXCEPT ![u][service.call] = Registration(row, service.key)]
          /\ \/ UNCHANGED <<reg, told>>
             \/ reg' = RegisteredAs(reg, RegistrationAnswer(row)) /\ told' = "registration"
  /\ worker' = [worker EXCEPT !.pc = "idle"]
  /\ UNCHANGED <<sharing, service, keyfile, reports, dedup, conn, main, heard, restarts>>

\* The next report; one that has waited more than ten minutes is dropped.
TakeReport ==
  /\ worker.pc = "idle" /\ service.running /\ reports # <<>>
  /\ reports' = Tail(reports)
  /\ \/ worker' = [pc |-> "posting", report |-> Head(reports)]
     \/ UNCHANGED worker
  /\ UNCHANGED <<sharing, service, keyfile, dedup, conn, reg, main, heard, restarts, registry, told>>

HealthCheck ==
  /\ worker.pc = "idle" /\ service.running /\ reports = <<>>
  /\ \E u \in service.url : \E a \in ProbeOutcomes(u) : conn' = ConnAfter(a)
  /\ UNCHANGED <<sharing, service, keyfile, worker, reports, dedup, reg, main, heard,
                 restarts, registry, told>>

PostReturns ==
  /\ worker.pc = "posting"
  /\ \E u \in service.url : \E a \in PostOutcomes(u) :
       /\ conn' = ConnAfter(a)
       /\ reg' = IF a.status = 0 THEN reg ELSE RegAfter(reg, a)
       /\ told' = IF TellsStatus(a) THEN "report" ELSE told
       /\ worker' = IF Retried(worker.report, a)
                    THEN [pc |-> "backoff",
                          report |-> [worker.report EXCEPT !.tries = Min({@ + 1, MaxRetries})]]
                    ELSE [pc |-> "idle", report |-> NoReport]
  /\ UNCHANGED <<sharing, service, keyfile, reports, dedup, main, heard, restarts, registry>>

\* After its sleep the report goes to the back of the queue, unless the queue
\* is full or the service is stopping: then it is gone.
BackoffOver ==
  /\ worker.pc = "backoff"
  /\ worker' = [pc |-> "idle", report |-> NoReport]
  /\ reports' = IF service.running /\ Len(reports) < QueueSize
                THEN Append(reports, worker.report) ELSE reports
  /\ UNCHANGED <<sharing, service, keyfile, dedup, conn, reg, main, heard, restarts, registry, told>>

WorkerExit ==
  /\ worker.pc = "idle" /\ ~service.running
  /\ worker' = [worker EXCEPT !.pc = "none"]
  /\ UNCHANGED <<sharing, service, keyfile, reports, dedup, conn, reg, main, heard,
                 restarts, registry, told>>

-----------------------------------------------------------------------------
RelayInit ==
  /\ sharing \in [on : BOOLEAN, url : {u \in Urls : UrlAllowed(u)}, self : Stations \cup {NoCall}]
  /\ service = Stopped /\ keyfile = NoFile
  /\ worker = [pc |-> "none", report |-> NoReport]
  /\ reports = <<>> /\ dedup = [keys |-> <<>>, sent |-> {}]
  /\ conn = "UNKNOWN" /\ reg = "UNKNOWN"
  /\ main = IF sharing.on THEN "joining" ELSE "loop"
  /\ heard = 0 /\ restarts = 0
  /\ registry = [u \in Urls |-> [c \in Stations |-> NoRow]] /\ told = "nothing"

WorkerStep == Register \/ TakeReport \/ PostReturns \/ BackoffOver \/ WorkerExit

RelayNext ==
  \/ HearReport \/ ShareSet \/ SelfSet \/ Restarted \/ Crash \/ WorkerStep \/ HealthCheck
  \/ \E u \in Urls, c \in Stations, v \in {"approved", "revoked"} : Decide(u, c, v)

RelaySpec == RelayInit /\ [][RelayNext]_rvars

\* Sleeps end and every request is answered or fails; nothing else is assumed.
RelayFairness == WF_rvars(WorkerStep) /\ WF_rvars(Restarted)

-----------------------------------------------------------------------------
(* Properties *)

\* An identity that signs requests is the one in the key file, so that the next
\* start signs with the same key and needs no new approval; a key file that
\* could not be written starts nothing (load_or_create_relay_identity, start).
\* Regenerating removes the file first, while the service is being stopped.
SignsAsSaved ==
  service.running => keyfile = [call |-> service.call, key |-> service.key]

\* The status shown as approved was learnt in this run and is about the call sign
\* and the server in use: that server's operator has approved that call sign.
\* Once a report of this run was answered it is about the key in use as well, since
\* the report was accepted (update_reg_state, register_identity, start).
ApprovedByServer ==
  service.running /\ reg = "APPROVED" =>
    /\ told # "nothing"
    /\ \A u \in service.url :
         LET row == registry[u][service.call]
         IN  row.approved /\ (told = "report" => row.key = service.key)

\* docs/LOCATION_SHARING_HOWTO.md:126: a new identity requires re-approval, so what
\* is shown as approved is the key in use.  Until a report is answered it need not
\* be: the registration of a known call sign is answered without a look at the key.
ApprovedIsThisKey ==
  service.running /\ reg = "APPROVED" =>
    \A u \in service.url : registry[u][service.call].key = service.key

InHand(n) ==
  worker.report.n = n \/ \E k \in DOMAIN reports : reports[k].n = n

\* A report that the service has taken in is posted or given up in the end,
\* however often the server fails: it does not circulate between the queue and
\* the worker, nor wait behind one that does.
ReportsSettle == \A n \in 1..MaxReports : InHand(n) ~> (~InHand(n) \/ ~service.running)

\* docs/LOCATION_SHARING_CONCEPT.md: a dead API has no effect on handshake,
\* audio and CAT.  The main thread waits for the worker, and the worker for the
\* server or for the end of its back-off.
MainLoopFree == ~(main = "joining" /\ worker.pc \in {"register", "posting", "backoff"})
=============================================================================
