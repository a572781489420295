------------------------------ MODULE GpsFeed ------------------------------
(***************************************************************************)
(* GpsService and SfiService and the mailbox (PendingUpdate) through which *)
(* the bridge hands their findings to the single-threaded controller: the  *)
(* GPS thread reads a gpsd socket or a serial receiver, keeps the fix and  *)
(* calls back when it changes; the solar-flux thread fetches one number an *)
(* hour; the main loop drains the mailbox once per tick.  A new position   *)
(* source stops both services, waiting for their threads, and starts them. *)
(*                                                                         *)
(* A position is a member of Positions; 0 stands for none.                 *)
(***************************************************************************)
EXTENDS Integers

CONSTANTS
  Positions,     \* positions a receiver may report
  StationPos,    \* the configured position, manual or from the grid locator
  FluxValues,    \* solar flux values, 0 is unknown
  MaxSwitches    \* bound on changes of the source

ASSUME FeedAssumption ==
  /\ Positions \subseteq Nat \ {0} /\ FluxValues \subseteq Nat \ {0}
  /\ StationPos \in Nat /\ MaxSwitches \in Nat

VARIABLES
  source,    \* config_.position_source and sfi_enabled: [pos, flux]
  reader,    \* [pc, running, kind, told]: the GPS thread and the callback it owes
  fix,       \* [valid, pos]: the shared fix state of GpsService
  raw_gga,   \* position of the last GGA sentence
  receiving, \* gpsd_receiving_ or nmea_receiving_
  flux,      \* [pc, running, value]: the flux thread and sfi_
  mailbox,   \* [gps_dirty, acq, pos, sfi_dirty, sfi]: PendingUpdate
  ctl,       \* the controller's copies: [valid, pos, gga, sfi]
  context,   \* PropagationContext of the link quality analyzer
  stage,     \* "loop", or "stopping" while the main thread joins the threads
  switches

gvars == <<source, reader, fix, raw_gga, receiving, flux, mailbox, ctl, context,
           stage, switches>>

Live == {"GPSD", "NMEA"}
PositionSources == {"NONE", "MANUAL"} \cup Live

NoFix == [valid |-> FALSE, pos |-> 0]

-----------------------------------------------------------------------------
(* What a line of a receiver says *)

Sighting(v, p) == [valid |-> v, pos |-> p]
NoSighting == Sighting(FALSE, 0)
NothingToTell == [to |-> NoSighting, next |-> "none"]

\* parse_tpv_json: a mode below 2 is no fix.
TpvLines == {Sighting(TRUE, p) : p \in Positions} \cup {NoSighting}
\* parse_gpgga: a sentence of quality 0 or without coordinates says nothing.
GgaLines == {Sighting(TRUE, p) : p \in Positions}
\* parse_gprmc: a void sentence, or an active one without coordinates, ends the fix.
RmcLines == GgaLines \cup {NoSighting}

\* update_fix: a lost fix keeps its position.
FixAfter(s) == [valid |-> s.valid, pos |-> IF s.valid THEN s.pos ELSE fix.pos]

Changed(s) == s.valid # fix.valid \/ (s.valid /\ s.pos # fix.pos)

\* The callback is made after fix_mtx_ is released.
UpdateFix(s, next) ==
  /\ fix' = FixAfter(s)
  /\ reader' = IF Changed(s)
               THEN [reader EXCEPT !.pc = "announcing", !.told = [to |-> s, next |-> next]]
               ELSE [reader EXCEPT !.pc = next]

-----------------------------------------------------------------------------
(* The GPS thread: gpsd_loop, nmea_loop *)

OpenPort ==
  /\ reader.pc = "opening" /\ reader.running
  /\ \/ reader' = [reader EXCEPT !.pc = "reading"] /\ UNCHANGED receiving
     \/ receiving' = FALSE /\ UNCHANGED reader
  /\ UNCHANGED <<source, fix, raw_gga, flux, mailbox, ctl, context, stage, switches>>

ReadLine ==
  /\ reader.pc = "reading" /\ reader.running
  /\ receiving' = TRUE
  /\ \/ /\ reader.kind = "GPSD" /\ UNCHANGED raw_gga
        /\ \E s \in TpvLines : UpdateFix(s, "reading")
     \/ /\ reader.kind = "NMEA" /\ UNCHANGED raw_gga
        /\ \E s \in RmcLines : UpdateFix(s, "reading")
     \/ /\ reader.kind = "NMEA"
        /\ \E s \in GgaLines : raw_gga' = s.pos /\ UpdateFix(s, "reading")
  /\ UNCHANGED <<source, flux, mailbox, ctl, context, stage, switches>>

\* Five seconds without a byte: the receiver is marked silent, its fix stays.
Silence ==
  /\ reader.pc = "reading" /\ reader.kind = "NMEA" /\ receiving
  /\ receiving' = FALSE
  /\ UNCHANGED <<source, reader, fix, raw_gga, flux, mailbox, ctl, context, stage, switches>>

\* A variant for mutation: the fix outlives its connection.
FixKeptAtClose(next) == reader' = [reader EXCEPT !.pc = next] /\ UNCHANGED fix
\* Leaving the read loop ends the fix, which is announced like any change.
FixEndsAtClose(next) == UpdateFix(NoSighting, next)

\* The connection is lost, or the service is stopping.
ClosePort ==
  /\ reader.pc = "reading"
  /\ receiving' = FALSE
  /\ FixEndsAtClose("opening")
  /\ UNCHANGED <<source, raw_gga, flux, mailbox, ctl, context, stage, switches>>

\* on_fix_: the bridge's callback fills the mailbox.
Announce ==
  /\ reader.pc = "announcing"
  /\ mailbox' = [mailbox EXCEPT !.gps_dirty = TRUE, !.acq = reader.told.to.valid,
                                !.pos = reader.told.to.pos]
  /\ reader' = [reader EXCEPT !.pc = reader.told.next, !.told = NothingToTell]
  /\ UNCHANGED <<source, fix, raw_gga, receiving, flux, ctl, context, stage, switches>>

ReaderExit ==
  /\ reader.pc = "opening" /\ ~reader.running
  /\ reader' = [reader EXCEPT !.pc = "none"]
  /\ UNCHANGED <<source, fix, raw_gga, receiving, flux, mailbox, ctl, context, stage, switches>>

-----------------------------------------------------------------------------
(* The flux thread *)

\* A value that parses and lies in 1 .. 999 is kept and announced; any failure
\* of the transfer or of the parsing only waits for the next try.
Fetch ==
  /\ flux.pc = "fetching"
  /\ \/ \E v \in FluxValues :
          /\ flux' = [flux EXCEPT !.pc = "waiting", !.value = v]
          /\ mailbox' = [mailbox EXCEPT !.sfi_dirty = TRUE, !.sfi = v]
     \/ flux' = [flux EXCEPT !.pc = "waiting"] /\ UNCHANGED mailbox
  /\ UNCHANGED <<source, reader, fix, raw_gga, receiving, ctl, context, stage, switches>>

FluxWaited ==
  /\ flux.pc = "waiting"
  /\ flux' = [flux EXCEPT !.pc = IF flux.running THEN "fetching" ELSE "none"]
  /\ UNCHANGED <<source, reader, fix, raw_gga, receiving, mailbox, ctl, context, stage, switches>>

-----------------------------------------------------------------------------
(* The main thread *)

\* update_propagation_context
ContextOf(src, c) ==
  [valid |-> IF src \in Live THEN c.valid ELSE src # "NONE",
   pos   |-> IF src \in Live THEN c.pos ELSE IF src = "NONE" THEN 0 ELSE StationPos,
   sfi   |-> c.sfi]

\* set_gps_fix, set_current_sfi: a lost fix keeps the last position.
Drained(c) ==
  LET g == IF mailbox.gps_dirty
           THEN [c EXCEPT !.valid = mailbox.acq, !.pos = IF mailbox.acq THEN mailbox.pos ELSE @]
           ELSE c
  IN IF mailbox.sfi_dirty THEN [g EXCEPT !.sfi = mailbox.sfi] ELSE g

\* The raw sentence (and the altitude) is polled from the service in the same tick.
Drain ==
  /\ stage = "loop"
  /\ ctl' = [Drained(ctl) EXCEPT !.gga = raw_gga]
  /\ context' = IF mailbox.gps_dirty \/ mailbox.sfi_dirty THEN ContextOf(source.pos, ctl') ELSE context
  /\ mailbox' = [mailbox EXCEPT !.gps_dirty = FALSE, !.sfi_dirty = FALSE]
  /\ UNCHANGED <<source, reader, fix, raw_gga, receiving, flux, stage, switches>>

\* STATION_LOC_SET: the source takes effect at once, then the services are
\* stopped.
SetSource ==
  /\ stage = "loop" /\ switches < MaxSwitches
  /\ \E p \in PositionSources, f \in BOOLEAN :
       /\ source' = [pos |-> p, flux |-> f]
       /\ context' = ContextOf(p, ctl)
  /\ switches' = switches + 1
  /\ stage' = "stopping"
  /\ reader' = [reader EXCEPT !.running = FALSE] /\ flux' = [flux EXCEPT !.running = FALSE]
  /\ UNCHANGED <<fix, raw_gga, receiving, mailbox, ctl>>

\* restart_location_services: both threads are joined and started as the
\* settings say.  The raw sentence of the old source stays.
RestartServices ==
  /\ stage = "stopping" /\ reader.pc = "none" /\ flux.pc = "none"
  /\ stage' = "loop"
  /\ fix' = [fix EXCEPT !.valid = FALSE] /\ receiving' = FALSE
  /\ reader' = IF source.pos \in Live
               THEN [reader EXCEPT !.pc = "opening", !.running = TRUE, !.kind = source.pos]
               ELSE reader
  /\ flux' = IF source.flux THEN [flux EXCEPT !.pc = "fetching", !.running = TRUE] ELSE flux
  /\ UNCHANGED <<source, raw_gga, mailbox, ctl, context, switches>>

-----------------------------------------------------------------------------
FeedInit ==
  /\ source \in [pos : PositionSources, flux : BOOLEAN]
  /\ reader = [pc |-> "none", running |-> FALSE, kind |-> "NMEA",
               told |-> NothingToTell]
  /\ fix = NoFix /\ raw_gga = 0 /\ receiving = FALSE
  /\ flux = [pc |-> "none", running |-> FALSE, value |-> 0]
  /\ mailbox = [gps_dirty |-> FALSE, acq |-> FALSE, pos |-> 0, sfi_dirty |-> FALSE, sfi |-> 0]
  /\ ctl = [valid |-> FALSE, pos |-> 0, gga |-> 0, sfi |-> 0]
  /\ context = ContextOf(source.pos, ctl)
  /\ stage = "stopping" /\ switches = 0

FeedNext ==
  \/ OpenPort \/ ReadLine \/ Silence \/ ClosePort \/ Announce \/ ReaderExit
  \/ Fetch \/ FluxWaited \/ Drain \/ SetSource \/ RestartServices

FeedSpec == FeedInit /\ [][FeedNext]_gvars

-----------------------------------------------------------------------------
(* Properties *)

\* What the controller and the link quality analyzer work with is what the
\* services know, once the mailbox is drained and no callback is under way:
\* through lost connections, silent receivers and changes of the source, in
\* any interleaving of the three threads.
FeedFollows ==
  stage = "loop" /\ reader.pc # "announcing" /\ ~mailbox.gps_dirty /\ ~mailbox.sfi_dirty =>
    /\ ctl.valid = fix.valid
    /\ fix.valid => ctl.pos = fix.pos
    /\ ctl.sfi = flux.value
    /\ context = ContextOf(source.pos, ctl)

\* gps_service.h says of raw_gga() that it is empty if the source is gpsd.
GgaOnlyFromNmea == stage = "loop" /\ reader.kind = "GPSD" => raw_gga = 0
=============================================================================
