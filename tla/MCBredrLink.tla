---------------------------- MODULE MCBredrLink ----------------------------
(* Small instances of BredrLink for TLC.  The central's clock advances with *)
(* the receiver's, at an unknown offset that may drift; a frame reads as    *)
(* its own UAP at the clock it was sent at, as another one elsewhere.       *)
EXTENDS BredrLink

TrueUap == 1
OtherUap == 0
TrueOffset == 2

\* When frames start, in quarters of a slot: the last ones follow a silence
\* that starts recovery over, and start in the middle of a slot.
MCStarts == {0, 4, 30, 34}

SentAt(start, shift) == (RxClk([start |-> start]) + TrueOffset + shift) % Clocks

\* An error-free header, sent at clock c, that also validates at the clocks of
\* "alias"; "sure" tells whether a payload check confirms the clock.
Good(c, alias, sure) ==
  [header |-> TRUE, clean |-> TRUE,
   uap |-> [k \in Clock |-> IF k \in {c} \cup alias THEN TrueUap ELSE OtherUap],
   lt |-> [k \in Clock |-> IF k = c THEN 1 ELSE 2],
   says |-> [k \in Clock |-> IF sure /\ k = c THEN "strong"
                             ELSE IF sure /\ k \notin alias THEN "prune"
                             ELSE "weak"]]

Dirty ==
  [Good(0, {}, FALSE) EXCEPT !.clean = FALSE, !.uap = [k \in Clock |-> OtherUap]]

Headerless == [Dirty EXCEPT !.header = FALSE]

HalfRound(c) == (c + Clocks \div 2) % Clocks

\* Frames nothing is learned from come early, and after the silence.
FramesAt(start) ==
  {Good(SentAt(start, shift), {}, FALSE) : shift \in {0, 1}}
    \cup {Good(SentAt(start, 0), {HalfRound(SentAt(start, 0))}, TRUE)}
    \cup (IF start \in {4, 34} THEN {Dirty, Headerless} ELSE {})

MCEvents ==
  UNION {[start : {start}, rssi : {TRUE}, frame : FramesAt(start)]
           : start \in MCStarts}
=============================================================================
