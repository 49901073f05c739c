----------------------------- MODULE RssiTracker -----------------------------
(* The signal strength shown for a device or a connection                     *)
(* (models/rssi_tracker.c): a ring of the frames heard last, and the mean     *)
(* over those of the latest frame's source and of the window that ends with   *)
(* it.  Times are whole ticks, strengths are left out: what can go wrong is   *)
(* which frames count.                                                        *)
EXTENDS Integers, Sequences, SequencesExt, FiniteSetsExt

CONSTANTS
  Depth,      \* RSSI_TRACKER_MAX_SAMPLES
  RssiWindow, \* RSSI_TRACKER_WINDOW_SEC
  Sources,    \* source_id
  Ticks,      \* the times of frames
  MaxFrames   \* bound of the model: frames added

ASSUME RssiAssumption == Depth \in Nat \ {0} /\ RssiWindow \in Nat /\ Ticks \subseteq Nat

VARIABLES
  tracker,  \* frames, head, count
  added     \* history: the frames added, in order

rssiVars == <<tracker, added>>

NoFrame == [at |-> -1, source |-> -1]

RssiInit ==
  /\ tracker = [frames |-> [i \in 0 .. Depth - 1 |-> NoFrame], head |-> 0, count |-> 0]
  /\ added = <<>>

TrackerAdd(f) ==
  /\ Len(added) < MaxFrames
  /\ tracker' = [frames |-> [tracker.frames EXCEPT ![tracker.head] = f],
                 head |-> (tracker.head + 1) % Depth,
                 count |-> IF tracker.count < Depth THEN tracker.count + 1
                           ELSE tracker.count]
  /\ added' = Append(added, f)

\* The slot of the frame added i frames before the latest.
SlotOf(i) == (tracker.head + Depth - 1 - i) % Depth
LatestFrame == tracker.frames[SlotOf(0)]
Same(i) == tracker.frames[SlotOf(i)].source = LatestFrame.source
Outside(i) == tracker.frames[SlotOf(i)].at < LatestFrame.at - RssiWindow

\* Mutant: the age of a frame is looked at before its source is.
ScanEnd_AnySource ==
  CHOOSE n \in 0 .. tracker.count :
    /\ n = tracker.count \/ Outside(n)
    /\ \A i \in 0 .. n - 1 : ~Outside(i)

\* The scan goes back in time: it passes over frames of other sources and ends
\* at the first of the latest frame's source that is too old.
ScanEnd ==
  CHOOSE n \in 0 .. tracker.count :
    /\ n = tracker.count \/ (Same(n) /\ Outside(n))
    /\ \A i \in 0 .. n - 1 : ~(Same(i) /\ Outside(i))

\* rssi_tracker_average: the frames it takes the mean of.
Averaged == {i \in 0 .. ScanEnd - 1 : Same(i)}

RssiNext == \E at \in Ticks, source \in Sources : TrackerAdd([at |-> at, source |-> source])

RssiSpec == RssiInit /\ [][RssiNext]_rssiVars

-----------------------------------------------------------------------------
(* Correctness *)

\* The frames that ought to count, of the last Depth ones.
KeptFrames == SubSeq(added, Len(added) - tracker.count + 1, Len(added))
InOrder == \A s \in Sources : \A i, j \in DOMAIN KeptFrames :
  i < j /\ KeptFrames[i].source = s /\ KeptFrames[j].source = s => KeptFrames[i].at <= KeptFrames[j].at
InWindow ==
  {i \in 0 .. Len(KeptFrames) - 1 :
     LET f == KeptFrames[Len(KeptFrames) - i] IN
     f.source = Last(KeptFrames).source /\ f.at >= Last(KeptFrames).at - RssiWindow}

\* The mean is over at least the latest frame and only over frames of its source
\* and its window; when each source's frames came in the order of their times,
\* as the code says they do, over all of them.
MeanOfWindow ==
  added # <<>> =>
    /\ 0 \in Averaged
    /\ Averaged \subseteq InWindow
    /\ InOrder => Averaged = InWindow
=============================================================================
