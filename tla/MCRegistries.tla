---------------------------- MODULE MCRegistries -----------------------------
(* Small instances of the two registries and of the tracker they show signal  *)
(* strengths with.  The three have nothing in common but the session that     *)
(* owns them: a behaviour exercises one of them.                              *)
EXTENDS BleRegistry, BredrRegistry, RssiTracker

CONSTANTS a1, a2, a3, i1, i2

VARIABLE part

MCBleEvents ==
  [kind : {"junk"}]
  \cup [kind : {"data"}, aa : Aas, empty : BOOLEAN, init : Inits, rssi : {TRUE}]
  \cup [kind : {"adv"}, addr : {11}, crcOk : {TRUE}, rssi : {TRUE}]
  \cup [kind : {"connect"}, addr : {11}, initiator : {12}, aa : Aas,
        init : Inits, crcOk : BOOLEAN, rssi : {FALSE}]

Symmetry == Permutations(Aas) \cup Permutations(Inits)

Init ==
  /\ part \in {"ble", "bredr", "rssi"}
  /\ BleInit /\ LapInit /\ RssiInit
  /\ part # "ble" => ~enforce
  /\ part # "bredr" => threshold = 1

Next ==
  \/ part = "ble" /\ BleNext /\ UNCHANGED <<part, lapVars, rssiVars>>
  \/ part = "bredr" /\ LapNext /\ UNCHANGED <<part, bleVars, rssiVars>>
  \/ part = "rssi" /\ RssiNext /\ UNCHANGED <<part, bleVars, lapVars>>

Spec == Init /\ [][Next]_<<part, bleVars, lapVars, rssiVars>>
=============================================================================
