------------------------------ MODULE MCStores ------------------------------
(***************************************************************************)
(* Instances of the station's data for TLC: its configuration, its link    *)
(* quality, and the transfer of data blocks over a link.  They share no    *)
(* state, so each behaviour changes one of them and leaves the others in   *)
(* an initial state.                                                       *)
(***************************************************************************)
EXTENDS StationStores, LqaStore, Fs1052Arq

PresetRows == <<Channel(1, 1, 0, 0), Channel(0, 2, 0, 0)>>
Net(n, i) == [name |-> n, ids |-> i, policy |-> 0]
W == [call |-> "w", nets |-> <<"n">>]
Files == [p \in {"p"} |-> [channels |-> PresetRows, nets |-> <<Net("n", <<1, 2>>)>>, contacts |-> <<W>>]]

Empty == [channels |-> <<>>, nets |-> <<>>, contacts |-> <<>>, roster |-> {NoName},
          settings |-> [list |-> <<>>, exchange |-> FALSE, other |-> 0, file |-> NoName,
                        calls |-> <<>>, deleted |-> {}]]
Based == [Empty EXCEPT !.nets = <<Net("n", <<1, 2>>)>>, !.contacts = <<W>>,
                       !.settings.file = "p", !.settings.calls = <<"w">>]
Disks == {Empty, Based}

VARIABLE focus  \* what changes

MemoryInit ==
  /\ ArqInit
  /\ \/ focus = "stores" /\ StoreInit /\ LqaInit
     \/ focus = "lqa" /\ LqaInit /\ StoreInit /\ disk = Empty
     \/ focus = "arq" /\ LqaInit /\ StoreInit /\ disk = Empty
MemoryNext ==
  \/ focus = "stores" /\ StoreNext /\ UNCHANGED <<lvars, arqVars, focus>>
  \/ focus = "lqa" /\ LqaNext /\ UNCHANGED <<vars, arqVars, focus>>
  \/ focus = "arq" /\ ArqNext /\ UNCHANGED <<vars, lvars, focus>>
MemorySpec == MemoryInit /\ [][MemoryNext]_<<vars, lvars, arqVars, focus>>
=============================================================================
