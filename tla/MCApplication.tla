--------------------------- MODULE MCApplication ----------------------------
(* Small instances of what runs around the receive path: the threads of one    *)
(* session, the graphical receiver that owns sessions, and the device table it *)
(* hands polls to.  A behaviour runs one of them.                              *)
EXTENDS Session, GuiReceiver, DeviceList

VARIABLE part

MCEntity(id, br, kind, group, lt, lap, type, label) ==
  [id |-> id, br |-> br, kind |-> kind, groupId |-> group, ltSlot |-> lt, lap |-> lap,
   type |-> type, label |-> label]

\* A piconet with its connection, central and two peripherals; a member of
\* another one, whose connection is not shown, with a smaller LAP; an advertiser.
MCEntities ==
  << MCEntity(1, TRUE, "device", 102, 1, 2, 2, 1),
     MCEntity(2, TRUE, "device", 102, Central, 2, 2, 3),
     MCEntity(3, TRUE, "device", 101, 3, 1, 2, 1),
     MCEntity(102, TRUE, "connection", 102, -1, 2, 1, 5),
     MCEntity(201, FALSE, "device", 0, NotAMember, 0, 1, 2) >>

MCReadings ==
  { [id \in IdsOf(MCEntities) |->
       [rssi |-> IF id = odd THEN NoRssi ELSE (id * odd) % 5, packets |-> (id + odd) % 3]]
    : odd \in {2, 3} }

MCSorts == {[role |-> r, asc |-> a] : r \in {"identifier", "rssi"}, a \in BOOLEAN}
             \cup {[role |-> "packetRate", asc |-> FALSE]}

Hybrid == <<"ble", "bredr">>

MCInit ==
  /\ part \in {"session", "receiver", "devices"}
  /\ Init /\ GuiInit /\ DeviceInit

MCNext ==
  \/ part = "session" /\ Next /\ UNCHANGED <<part, guiVars, deviceVars>>
  \/ part = "receiver" /\ GuiNext /\ UNCHANGED <<part, vars, deviceVars>>
  \/ part = "devices" /\ DeviceNext /\ UNCHANGED <<part, vars, guiVars>>

\* The actions that are assured a turn are disabled in the parts that do not run.
MCSpec ==
  /\ MCInit /\ [][MCNext]_<<part, vars, guiVars, deviceVars>>
  /\ Fairness /\ GuiFair
=============================================================================
