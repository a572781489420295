---------------------------- MODULE StationStores ----------------------------
(***************************************************************************)
(* The station data of ALEController and its persistence: channels, nets,  *)
(* contacts, rosters, own addresses and settings, the preset channel file  *)
(* they may be based on, and the state file every mutation writes through  *)
(* to.  A restart forgets the memory and loads that file.                  *)
(*                                                                         *)
(* With a preset loaded the state file is an overlay: the rows that differ *)
(* from the preset, the ids deleted from it and a reference to the preset. *)
(* A channel is its id (C-n is n, 0 is blank), its receive frequency, opt  *)
(* for what a row of a file carries (mode, flags, power, label) and use    *)
(* for what it does not (voice and data use, antenna, security).           *)
(***************************************************************************)
EXTENDS Integers, SequencesExt, FiniteSetsExt

CONSTANTS
  MaxId,      \* channel ids are 1 .. MaxId, 0 is a blank id
  Freqs,      \* receive frequencies
  NetNames, Calls, Addrs,
  ValidAddrs, \* the addresses is_valid_ale_address() accepts
  NoName,     \* the empty string
  Presets,    \* preset name -> [channels, nets, contacts]
  FirstDisks, \* the state files a behaviour may start from
  MaxEdits    \* bound on the commands of a behaviour

ASSUME StoreAssumption ==
  /\ MaxId \in Nat \ {0} /\ Freqs \subseteq Nat \ {0}
  /\ ValidAddrs \subseteq Addrs
  /\ NoName \notin NetNames \cup Calls \cup Addrs \cup DOMAIN Presets

VARIABLES
  channels,   \* calling_channels_
  nets,       \* net_store_: sequence of [name, ids, policy]
  contacts,   \* contact_store_: sequence of [call, nets]
  roster,     \* group_call_store_: the members of one roster, or {NoName} if absent
  own,        \* self_address_store_ and sm_'s address: [list, primary, used]
  settings,   \* config_: [exchange, other]; other stands for the keys applied alike
  overlay,    \* [file, base]: loaded_channel_file_, file_channels_
  scoped,     \* [scan, sound, contact]: the names selected by the operator
  disk,       \* the state file
  export,     \* an exported settings file, or a record with file = NoName
  dirty,      \* history: memory changed by a command that does not save
  edits

body  == <<channels, nets, contacts, roster>>
vars  == <<channels, nets, contacts, roster, own, settings, overlay, scoped,
           disk, export, dirty, edits>>

Channel(i, f, o, u) == [id |-> i, rx |-> f, opt |-> o, use |-> u]

\* What format_channel_line() writes and parse_channel_spec() reads back.
Row(c) == [c EXCEPT !.use = 0]
Rows(chs) == [k \in DOMAIN chs |-> Row(chs[k])]

Ids(chs)    == {chs[k].id : k \in DOMAIN chs}
NamesOf(s)  == {s[k].name : k \in DOMAIN s}
\* The entries of a sequence that are in S, in their order.
Keep(s, S) ==
  LET upTo[n \in 0..Len(s)] ==
        IF n = 0 THEN <<>>
        ELSE IF s[n] \in S THEN Append(upTo[n - 1], s[n]) ELSE upTo[n - 1]
  IN  upTo[Len(s)]
Without(s, x)  == Keep(s, ToSet(s) \ {x})
Replace(s, x, y) == [k \in DOMAIN s |-> IF s[k] = x THEN y ELSE s[k]]

-----------------------------------------------------------------------------
(* Channel identifiers and the stores' primitives *)

NextFreeId(chs) == Min((1..MaxId) \ Ids(chs))

\* Blank ids of a parsed list are filled one after the other, each against the
\* whole list.
FillId(chs, k) == IF chs[k].id = 0 THEN [chs EXCEPT ![k].id = NextFreeId(chs)] ELSE chs
FillIds(chs) ==
  LET upTo[n \in 0..Len(chs)] == IF n = 0 THEN chs ELSE FillId(upTo[n - 1], n)
  IN  upTo[Len(chs)]

\* The first entry of a sequence that satisfies P, replaced by f of it.
ChangeFirst(s, P(_), f(_)) ==
  LET hits == {k \in DOMAIN s : P(s[k])} IN
  IF hits = {} THEN s ELSE [s EXCEPT ![Min(hits)] = f(@)]

AssignIn(n, i) == IF Contains(n.ids, i) THEN n ELSE [n EXCEPT !.ids = Append(@, i)]

\* A variant for mutation: the id is dropped instead of renamed.
RenameInLost(n, o, i) == [n EXCEPT !.ids = Without(@, o)]
\* A net that lists the new id already drops the renamed slot.
RenameIn(n, o, i) ==
  [n EXCEPT !.ids = IF Contains(@, i) THEN Without(@, o) ELSE Replace(@, o, i)]

UnassignEverywhere(ns, i) == [k \in DOMAIN ns |-> [ns[k] EXCEPT !.ids = Without(@, i)]]

\* add_or_update: contacts are keyed by call sign, their net list is overwritten.
PutContact(cs, c) ==
  IF \E k \in DOMAIN cs : cs[k].call = c.call
  THEN [k \in DOMAIN cs |-> IF cs[k].call = c.call THEN c ELSE cs[k]]
  ELSE Append(cs, c)

\* set_primary_self_address: the store always takes it, the state machine only
\* a valid one.
SetPrimaryOf(o, a) ==
  [o EXCEPT !.primary = a, !.used = IF a \in ValidAddrs THEN a ELSE @]

\* add_self_address: the first entry becomes primary, and the primary is applied.
AddOwn(o, a) ==
  LET added == [o EXCEPT !.list = IF Contains(@, a) THEN @ ELSE Append(@, a),
                         !.primary = IF @ = NoName THEN a ELSE @]
  IN IF added.primary = a THEN SetPrimaryOf(added, a) ELSE added

NoOwn == [list |-> <<>>, primary |-> NoName, used |-> NoName]

-----------------------------------------------------------------------------
(* The state file *)

FirstBase(base, i) ==
  LET hits == {k \in DOMAIN base : base[k].id = i} IN
  IF hits = {} THEN Channel(0, 0, 0, 0) ELSE base[Min(hits)]

\* A variant for mutation: a row of the preset is never written.
OverlayRowsOld(chs, base) == Keep(Rows(chs), {c \in ToSet(Rows(chs)) : c.id \notin Ids(base)})
\* write_station_body(overlay_only): rows equal to the preset's row are left out.
OverlayRows(chs, base) ==
  Keep(Rows(chs), {c \in ToSet(Rows(chs)) : c # FirstBase(base, c.id)})

DeletedIds(chs, base) == Ids(base) \ Ids(chs)

\* write_settings_body; calls are the station= lines of the address book.
SettingsBody(o, s, ov, chs, cs) ==
  [list |-> o.list, exchange |-> s.exchange, other |-> s.other, file |-> ov.file,
   calls |-> [k \in DOMAIN cs |-> cs[k].call],
   deleted |-> IF ov.file = NoName THEN {} ELSE DeletedIds(chs, ov.base)]

\* save_state
StateFile(chs, ns, cs, r, o, s, ov) ==
  [channels |-> IF ov.file = NoName THEN Rows(chs) ELSE OverlayRows(chs, ov.base),
   nets |-> ns, contacts |-> cs, roster |-> r, settings |-> SettingsBody(o, s, ov, chs, cs)]

\* parse_station_body(replace_channels = false): merge by id onto the preset.
Numbered(acc, c) == IF c.id = 0 THEN [c EXCEPT !.id = NextFreeId(acc)] ELSE c
MergeRow(acc, c) ==
  IF c.id \in Ids(acc)
  THEN ChangeFirst(acc, LAMBDA x : x.id = c.id, LAMBDA x : c)
  ELSE Append(acc, c)
MergeRows(base, rows) ==
  LET upTo[n \in 0..Len(rows)] ==
        IF n = 0 THEN base ELSE MergeRow(upTo[n - 1], Numbered(upTo[n - 1], rows[n]))
  IN  upTo[Len(rows)]

\* import_settings on the own addresses: each line is added and made primary.
ImportOwn(o, list) ==
  LET upTo[n \in 0..Len(list)] ==
        IF n = 0 THEN [o EXCEPT !.list = <<>>, !.primary = NoName]
        ELSE SetPrimaryOf(AddOwn(upTo[n - 1], list[n]), list[n])
  IN  IF list = <<>> THEN o ELSE upTo[Len(list)]

\* apply_config() copies every parsed key but lqa_exchange_enabled.
ApplySettings(s, f) == [s EXCEPT !.other = f.other]

DefaultSettings == [exchange |-> FALSE, other |-> 0]

\* parse_station_body: what a station file says of nets, contacts and rosters.
StationBody(d) == [nets |-> d.nets, contacts |-> d.contacts, roster |-> d.roster]

\* load_state in a process that has just started; a preset that is not there
\* leaves the overlay rows as the whole channel list.
LoadState(d, there) ==
  LET f     == IF there THEN d.settings.file ELSE NoName
      base  == FillIds(Presets[f].channels)
      read  == StationBody(d)
      kept  == Keep(base, {c \in ToSet(base) : c.id \notin d.settings.deleted})
  IN [channels |-> IF f = NoName THEN FillIds(d.channels) ELSE MergeRows(kept, d.channels),
      nets |-> read.nets, contacts |-> read.contacts, roster |-> read.roster,
      own |-> ImportOwn(NoOwn, d.settings.list),
      settings |-> ApplySettings(DefaultSettings, d.settings),
      overlay |-> IF f = NoName THEN [file |-> NoName, base |-> <<>>]
                  ELSE [file |-> f, base |-> base],
      scoped |-> [scan |-> IF read.nets = <<>> THEN NoName ELSE read.nets[1].name,
                  sound |-> NoName, contact |-> NoName]]

-----------------------------------------------------------------------------
(* What a program may find *)

\* What the files hold: rows (an id may be blank), nets, contacts, settings.
BlankRowSet == [id : 0..MaxId, rx : Nat, opt : Nat, use : {0}]
NetSet      == [name : NetNames, ids : Seq(1..MaxId), policy : Nat]
ContactSet  == [call : Calls, nets : Seq(NetNames)]
ConfigSet   == [list : Seq(Addrs), exchange : BOOLEAN, other : Nat,
                file : DOMAIN Presets \union {NoName}, calls : Seq(Calls), deleted : SUBSET (1..MaxId)]
DiskSet     == [channels : Seq(BlankRowSet), nets : Seq(NetSet), contacts : Seq(ContactSet),
                roster : SUBSET (Calls \union {NoName}), settings : ConfigSet]

NoBlanks(chs) == \A k \in DOMAIN chs : chs[k].id # 0
\* There are ids enough for the blank ones.
Fits(d) ==
  \/ NoBlanks(d.channels)
  \/ d.settings.file = NoName /\ Len(d.channels) <= MaxId
  \/ /\ d.settings.file # NoName
     /\ Len(Presets[d.settings.file].channels) + Len(d.channels) <= MaxId

ASSUME FilesAssumption ==
  /\ \A f \in DOMAIN Presets :
       /\ Presets[f].channels \in Seq(BlankRowSet) /\ Len(Presets[f].channels) <= MaxId
       /\ Presets[f].nets \in Seq(NetSet) /\ Presets[f].contacts \in Seq(ContactSet)
  /\ \A d \in FirstDisks : d \in DiskSet /\ Fits(d)

StoreInit ==
  \E d \in FirstDisks :
    LET m == LoadState(d, TRUE) IN
    /\ disk = d
    /\ channels = m.channels /\ nets = m.nets /\ contacts = m.contacts /\ roster = m.roster
    /\ own = m.own /\ settings = m.settings /\ overlay = m.overlay /\ scoped = m.scoped
    /\ export = [file |-> NoName] /\ dirty = FALSE /\ edits = 0

\* Every mutation ends in save_state(station_file_); the file holds what memory
\* holds after the command.
Save == /\ disk' = StateFile(channels', nets', contacts', roster', own', settings', overlay')
        /\ dirty' = FALSE
Edit == edits < MaxEdits /\ edits' = edits + 1
Command == Edit /\ UNCHANGED export

-----------------------------------------------------------------------------
(* Channels *)

AddChannel(c) ==
  LET c2 == IF c.id = 0 THEN [c EXCEPT !.id = NextFreeId(channels)] ELSE c IN
  /\ Command
  /\ \/ c.id # 0
     \/ Ids(channels) # 1..MaxId
  /\ channels' = IF \E k \in DOMAIN channels : channels[k].rx = c.rx
                 THEN ChangeFirst(channels, LAMBDA x : x.rx = c.rx, LAMBDA x : c2)
                 ELSE Append(channels, c2)
  /\ UNCHANGED <<nets, contacts, roster, own, settings, overlay, scoped>>
  /\ Save

DelChannel(f) ==
  LET hits == {k \in DOMAIN channels : channels[k].rx = f} IN
  /\ Command /\ hits # {}
  /\ channels' = Keep(channels, {c \in ToSet(channels) : c.rx # f})
  /\ nets' = UnassignEverywhere(nets, channels[Min(hits)].id)
  /\ UNCHANGED <<contacts, roster, own, settings, overlay, scoped>>
  /\ Save

RenameChannel(o, i) ==
  /\ Command
  /\ o # i /\ o \in Ids(channels) /\ i \notin Ids(channels)
  /\ channels' = ChangeFirst(channels, LAMBDA c : c.id = o, LAMBDA c : [c EXCEPT !.id = i])
  /\ nets' = [k \in DOMAIN nets |-> RenameIn(nets[k], o, i)]
  /\ UNCHANGED <<contacts, roster, own, settings, overlay, scoped>>
  /\ Save

\* set_channel_enabled, set_channel_mode, set_power: nothing is done, and
\* nothing saved, when the value does not change.
SetChannelOption(i, v) ==
  /\ Command
  /\ i \in Ids(channels) /\ FirstBase(channels, i).opt # v
  /\ channels' = ChangeFirst(channels, LAMBDA c : c.id = i, LAMBDA c : [c EXCEPT !.opt = v])
  /\ UNCHANGED <<nets, contacts, roster, own, settings, overlay, scoped>>
  /\ Save

ClearChannels ==
  /\ Command
  /\ channels' = <<>>
  /\ UNCHANGED <<nets, contacts, roster, own, settings, overlay, scoped>>
  /\ Save

-----------------------------------------------------------------------------
(* Nets *)

AddNet(n) ==
  /\ Command /\ n \notin NamesOf(nets)
  /\ nets' = Append(nets, [name |-> n, ids |-> <<>>, policy |-> 0])
  /\ UNCHANGED <<channels, contacts, roster, own, settings, overlay, scoped>>
  /\ Save

DelNet(n) ==
  /\ Command /\ n \in NamesOf(nets)
  /\ nets' = Keep(nets, {x \in ToSet(nets) : x.name # n})
  /\ UNCHANGED <<channels, contacts, roster, own, settings, overlay, scoped>>
  /\ Save

InNet(n, f(_)) == nets' = ChangeFirst(nets, LAMBDA x : x.name = n, f)

AssignChannel(n, i) ==
  /\ Command /\ n \in NamesOf(nets)
  /\ InNet(n, LAMBDA x : AssignIn(x, i))
  /\ UNCHANGED <<channels, contacts, roster, own, settings, overlay, scoped>>
  /\ Save

UnassignChannel(n, i) ==
  /\ Command /\ n \in NamesOf(nets)
  /\ InNet(n, LAMBDA x : [x EXCEPT !.ids = Without(@, i)])
  /\ UNCHANGED <<channels, contacts, roster, own, settings, overlay, scoped>>
  /\ Save

UpdateNet(n, p) ==
  /\ Command /\ n \in NamesOf(nets)
  /\ InNet(n, LAMBDA x : [x EXCEPT !.policy = p])
  /\ UNCHANGED <<channels, contacts, roster, own, settings, overlay, scoped>>
  /\ Save

\* rename_net carries the name to the selected nets and to every contact.
Renamed(o, n) ==
  [scoped EXCEPT !.scan = IF @ = o THEN n ELSE @, !.sound = IF @ = o THEN n ELSE @]

RenameNet(o, n) ==
  /\ Command
  /\ o # n /\ n \notin NamesOf(nets) /\ o \in NamesOf(nets)
  /\ InNet(o, LAMBDA x : [x EXCEPT !.name = n])
  /\ scoped' = Renamed(o, n)
  /\ contacts' = [k \in DOMAIN contacts |-> [contacts[k] EXCEPT !.nets = Replace(@, o, n)]]
  /\ UNCHANGED <<channels, roster, own, settings, overlay>>
  /\ Save

\* Selecting the scanned or the sounded net is not written to the state file.
SelectNets(s, a) ==
  /\ Command
  /\ scoped' = [scoped EXCEPT !.scan = s, !.sound = a]
  /\ UNCHANGED <<body, own, settings, overlay, disk, dirty>>

-----------------------------------------------------------------------------
(* Contacts, rosters, own addresses, settings *)

AddContact(c) ==
  /\ Command
  /\ contacts' = PutContact(contacts, [call |-> c, nets |-> <<>>])
  /\ UNCHANGED <<channels, nets, roster, own, settings, overlay, scoped>>
  /\ Save

RemoveContact(c) ==
  /\ Command /\ \E k \in DOMAIN contacts : contacts[k].call = c
  /\ contacts' = Keep(contacts, {x \in ToSet(contacts) : x.call # c})
  /\ scoped' = [scoped EXCEPT !.contact = IF @ = c THEN NoName ELSE @]
  /\ UNCHANGED <<channels, nets, roster, own, settings, overlay>>
  /\ Save

SelectContact(c) ==
  /\ Command /\ \E k \in DOMAIN contacts : contacts[k].call = c
  /\ scoped' = [scoped EXCEPT !.contact = c]
  /\ UNCHANGED <<body, own, settings, overlay, disk, dirty>>

\* add_group_roster, del_group_roster, add_group_member, del_group_member
EditRoster(r) ==
  /\ Command
  /\ \/ roster = {NoName} /\ r = {}
     \/ roster # {NoName} /\ r = {NoName}
     \/ /\ NoName \notin roster \cup r
        /\ \E c \in Calls : r \in {roster \cup {c}, roster \ {c}}
  /\ roster' = r
  /\ UNCHANGED <<channels, nets, contacts, own, settings, overlay, scoped>>
  /\ Save

SetOwn(o) ==
  /\ own' = o
  /\ UNCHANGED <<body, settings, overlay, scoped>>
  /\ Save

AddSelfAddress(a) == Command /\ SetOwn(AddOwn(own, a))

\* SelfAddressStore::remove moves the primary, the state machine keeps its address.
RemoveSelfAddress(a) ==
  LET left == Without(own.list, a) IN
  /\ Command /\ Contains(own.list, a)
  /\ SetOwn([own EXCEPT !.list = left,
             !.primary = IF @ # a THEN @ ELSE IF left = <<>> THEN NoName ELSE left[1]])

SetPrimaryAddress(a) ==
  /\ Command /\ Contains(own.list, a) /\ a \in ValidAddrs
  /\ SetOwn(SetPrimaryOf(own, a))

\* A settings command of the bridge changes config_ and saves the state.
ChangeSetting(s) ==
  /\ Command /\ s # settings
  /\ settings' = s
  /\ UNCHANGED <<body, own, overlay, scoped>>
  /\ Save

-----------------------------------------------------------------------------
(* Files *)

\* STATION_LOAD: load_channel_file() and save_state().
LoadPreset(f) ==
  LET base == FillIds(Presets[f].channels) IN
  /\ Command
  /\ channels' = base /\ nets' = Presets[f].nets /\ contacts' = Presets[f].contacts
  /\ roster' = {NoName}
  /\ overlay' = [file |-> f, base |-> base]
  /\ UNCHANGED <<own, settings, scoped>>
  /\ Save

\* SETTINGS_EXPORT names the preset and, last, the state file itself.
ExportSettings ==
  /\ Edit
  /\ export' = SettingsBody(own, settings, overlay, channels, contacts)
  /\ UNCHANGED <<body, own, settings, overlay, scoped, disk, dirty>>

\* SETTINGS_IMPORT of such a file: its address lines save the state on the way,
\* then the state file is read as if it were a station file, and the stations
\* it does not know are added.  Nothing is saved at the end.
ImportSettings ==
  LET own2  == ImportOwn(own, export.list)
      saved == IF export.list = <<>> THEN disk
               ELSE StateFile(channels, nets, contacts, roster, own2, settings, overlay)
      read  == StationBody(saved)
      new   == Keep(export.calls,
                    ToSet(export.calls) \ {read.contacts[k].call : k \in DOMAIN read.contacts})
  IN
  /\ Edit /\ export # [file |-> NoName]
  /\ own' = own2 /\ settings' = ApplySettings(settings, export)
  /\ disk' = saved /\ dirty' = TRUE
  /\ channels' = FillIds(saved.channels) /\ nets' = read.nets /\ roster' = read.roster
  /\ contacts' = read.contacts \o [k \in DOMAIN new |-> [call |-> new[k], nets |-> <<>>]]
  /\ UNCHANGED <<overlay, scoped, export>>

\* The process ends at any moment and is started again.
Restart ==
  \E there \in BOOLEAN :
    LET m == LoadState(disk, there) IN
    /\ Edit
    /\ channels' = m.channels /\ nets' = m.nets /\ contacts' = m.contacts /\ roster' = m.roster
    /\ own' = m.own /\ settings' = m.settings /\ overlay' = m.overlay /\ scoped' = m.scoped
    /\ dirty' = (m.overlay.file # disk.settings.file)
    /\ UNCHANGED <<disk, export>>

StoreNext ==
  \/ \E i \in 0..MaxId, f \in Freqs, o \in {<<0, 0>>, <<1, 0>>, <<0, 1>>} :
        AddChannel(Channel(i, f, o[1], o[2]))
  \/ \E f \in Freqs : DelChannel(f)
  \/ \E i, j \in 1..MaxId : RenameChannel(i, j)
  \/ \E i \in 1..MaxId, v \in {0, 1} : SetChannelOption(i, v)
  \/ ClearChannels
  \/ \E n \in NetNames : AddNet(n) \/ DelNet(n) \/ \E m \in NetNames : RenameNet(n, m)
  \/ \E n \in NetNames, i \in 1..MaxId : AssignChannel(n, i) \/ UnassignChannel(n, i)
  \/ \E n \in NetNames, p \in {0, 1} : UpdateNet(n, p)
  \/ \E s, a \in NetNames \cup {NoName} : SelectNets(s, a)
  \/ \E c \in Calls : AddContact(c) \/ RemoveContact(c) \/ SelectContact(c)
  \/ \E r \in (SUBSET Calls) \cup {{NoName}} : EditRoster(r)
  \/ \E a \in Addrs : AddSelfAddress(a) \/ RemoveSelfAddress(a) \/ SetPrimaryAddress(a)
  \/ \E x \in BOOLEAN, v \in {0, 1} : ChangeSetting([exchange |-> x, other |-> v])
  \/ \E f \in DOMAIN Presets : LoadPreset(f)
  \/ ExportSettings \/ ImportSettings \/ Restart

StoreSpec == StoreInit /\ [][StoreNext]_vars

-----------------------------------------------------------------------------
(* Properties *)

IdsUnique == \A i, j \in DOMAIN channels : channels[i].id = channels[j].id => i = j

\* Whatever the operator did since the last load, a restart brings back the
\* channels, nets, contacts, rosters, addresses and applied settings, although
\* the file holds only the difference from the preset (save_state, load_state).
\* Two channels with one id, which CHANNEL_ADD permits, are the exception.
RestartRestores ==
  LET m == LoadState(disk, TRUE) IN
  ~dirty /\ IdsUnique =>
    /\ ToSet(m.channels) = ToSet(Rows(channels))
    /\ m.nets = nets /\ m.contacts = contacts /\ m.roster = roster
    /\ m.own.list = own.list /\ m.settings.other = settings.other

Scope(ns, chs, k) == {chs[j].rx : j \in {j \in DOMAIN chs : Contains(ns[k].ids, chs[j].id)}}
References == {scoped.scan, scoped.sound} \cup UNION {ToSet(contacts[k].nets) : k \in DOMAIN contacts}
Dangling == References \ (NamesOf(nets) \cup {NoName})

\* A rename takes every reference along: no channel drops out of a net when its
\* id changes, and no contact or selection is left with a net's old name
\* (rename_channel, rename_net).
RenamesFollow ==
  [][/\ \A o, i \in 1..MaxId : RenameChannel(o, i) /\ IdsUnique =>
          \A k \in DOMAIN nets : Scope(nets, channels, k) \subseteq Scope(nets', channels', k)
     /\ \A o, n \in NetNames : RenameNet(o, n) => Dangling' \subseteq Dangling]_vars

\* A settings file written by SETTINGS_EXPORT and read back at once leaves the
\* channels as they are ("a distinct file that never contains key=value lines").
ImportOwnExport ==
  [][ImportSettings /\ export = SettingsBody(own, settings, overlay, channels, contacts)
     => {c.rx : c \in ToSet(channels')} = {c.rx : c \in ToSet(channels)}]_vars

\* A restart keeps the operator's choice of the LQA exchange (load_state: "plus
\* all settings").
ExchangeSurvives == ~dirty => LoadState(disk, TRUE).settings = settings
=============================================================================
