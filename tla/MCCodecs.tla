------------------------------ MODULE MCCodecs -------------------------------
(* The codecs over bounded inputs.  Both error correction and CRC are linear:  *)
(* sums of one or two unit words reach every case they can tell apart.         *)
EXTENDS BleCodec, BredrVerdicts

Units(n) == {{i, j} \ {n} : i, j \in 0..n}

MCBredrSamples ==
  [kind : {"block"}, data : Units(10), turned : Units(15)]
  \cup [kind : {"clock"}, clk6 : 0..63]
  \cup [kind : {"packet"}, header : {TRUE}, hecOk : {TRUE}, type : 0..15,
        air : {0, 7, 8, 14, 15, 16, 30, 31, 159, 239, 240, 255, 256, 976, 1455,
               1469, 1470, 1495, 1500, 2744, 2745, 2999},
        length : {0, 1, 3, 17, 18, 27, 28, 29, 30, 32, 121, 122, 182, 183, 224,
                  225, 339, 340},
        crcOk : BOOLEAN, fecOk : BOOLEAN]
  \cup [kind : {"packet"}, header : BOOLEAN, hecOk : BOOLEAN, type : {4},
        air : {2999}, length : {1}, crcOk : {TRUE}, fecOk : {TRUE}]

MCBleSamples ==
  [kind : {"crc"}, header : {{}} \cup {{i} : i \in 0..15}, init : Units(24)]
  \cup [kind : {"ad"}, data : BoundedSeq(0..3, 6)]
  \cup [kind : {"adv", "data"},
        type : {"ADV_IND", "ADV_DIRECT_IND", "CONNECT_IND", "other"},
        raw : {4, 5, 10, 11, 12, 16, 17, 39, 42, 261, 262},
        length : {0, 5, 6, 11, 12, 34, 37, 255},
        crcOk : BOOLEAN, crcHolds : BOOLEAN]

\* Lists, solicitations and service data of each width, with UUIDs of the base,
\* more than a list holds, flags, and a structure that is cut off.
MCAdvertised ==
  {<<3, 3, 1, 2>>, <<5, 2, 3, 4, 1, 2>>, <<7, 20, 8, 9, 3, 4, 5, 6>>, <<3, 22, 8, 9>>,
   <<4, 5, 2, 2, 2>>, <<7, 31, 2, 2, 2, 3, 3, 3>>, <<4, 4, 4, 4, 4>>, <<4, 32, 3, 3, 3>>,
   <<5, 6, 5, 5, 5, 5>>, <<2, 1, 9, 9, 7, 6, 6, 6, 6, 7, 7, 7, 7>>, <<5, 21, 1, 2, 7, 0>>,
   <<6, 33, 7, 7, 7, 7, 9>>, <<2, 1, 4, 9>>}

\* Packets of one connection: eSCO on LT_ADDR 1, ACL on 2, broadcasts on 0; what
\* the peripheral never sends it does not send, and of SCO and eSCO only type 7
\* has flags.  Any may be encrypted, and any whose decoding can fail spoiled.
\* And packets read at a wrong clock, of any form.
Lt(type) == CASE type = 1 -> 2 [] type \in {7, 12, 13} -> 1 [] OTHER -> 2

MCSizes == {0, 14, 240, 2424, 2745}

OwnPackets ==
  {p \in [own : {TRUE}, type : 0..15, lt : {0, 1, 2}, peripheral : BOOLEAN,
          flags : BOOLEAN, size : MCSizes, length : {9, 17, 320},
          fecOk : BOOLEAN, crcOk : BOOLEAN] :
     /\ p.lt = Lt(p.type) \/ (p.lt = 0 /\ ~p.peripheral)
     /\ MaySend(p)
     /\ p.flags => p.type = 7
     /\ ~p.fecOk => p.type \in {2, 3, 8, 10, 12, 14} /\ ~p.crcOk
     /\ p.type \in Acl => p.length <= MaxUserBytes(p.type)
     /\ p.type = 8 => p.length <= 9
     /\ p.type \notin Acl \cup {8} => p.length = 9
     /\ p.size = 14 => p.type = 12
     /\ p.size = 2424 => p.type = 15}

StrayPackets ==
  {p \in [own : {FALSE}, type : {1, 2, 3, 4, 5, 15}, lt : {2},
          peripheral : BOOLEAN, flags : {TRUE}, size : {100, 239, 2745},
          length : {0, 30, 339}, fecOk : {TRUE}, crcOk : BOOLEAN] :
     p.type \notin Acl => p.length = 0}

MCPackets == OwnPackets \cup StrayPackets

SomeBle == [kind |-> "none"]
SomeBredr == [kind |-> "none"]

codecVars == <<bleSample, bredrSample, infoVars, verdictVars>>

\* Either an input of the operators is tried or advertisements are merged.
CodecsInit ==
  /\ \/ bleSample \in BleSamples \cup {SomeBle} /\ bredrSample = SomeBredr
     \/ bleSample = SomeBle /\ bredrSample \in BredrSamples
  /\ InfoInit
  /\ VerdictInit

CodecsIdle ==
  /\ bleSample = SomeBle /\ bredrSample = SomeBredr
  /\ InfoInit /\ VerdictInit

CodecsNext ==
  /\ bleSample = SomeBle /\ bredrSample = SomeBredr
  /\ \/ InfoNext /\ count = 0 /\ UNCHANGED verdictVars
     \/ VerdictNext /\ merged = <<>> /\ UNCHANGED infoVars
  /\ UNCHANGED <<bleSample, bredrSample>>

CodecsSpec == CodecsInit /\ [][CodecsNext]_codecVars

-----------------------------------------------------------------------------
\* Each code is undone by what the decoder does: the (15,10) code corrects what
\* it can and refuses the rest, both whitening tables are the register, and the
\* LE checksum is reversed to the CRCInit it was made with.
CodesInvert == CodeCorrects /\ WhiteningIsRegister /\ InitIsRecovered
=============================================================================
