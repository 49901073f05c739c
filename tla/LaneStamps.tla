----------------------------- MODULE LaneStamps ------------------------------
(***************************************************************************)
(* One lane of the channelizer service: the radio's blocks pass through    *)
(* the lane's down-converter and its filter bank, each of which carries    *)
(* the samples that did not fill an output over to the next call, and      *)
(* every block a worker emits is stamped with a radio sample index.  A     *)
(* sample is the index the radio gave it; a lane sample is the Decim radio *)
(* samples it was computed from, a frame the lane samples it was computed  *)
(* from, all side by side in one sequence.                                 *)
(***************************************************************************)
EXTENDS Integers, Sequences, FiniteSets

CONSTANTS
  Decim,        \* decim of the DDC stage: lanes of the service
  HalfFrame,    \* M2: lane samples per frame of the bank
  MaxChunk,     \* max_in: lane samples fed to the bank at once
  BlockSizes,   \* radio samples in a block
  MaxSamples,   \* bound on the radio's position
  MaxGaps       \* bound on the losses

ASSUME LaneAssumption ==
  /\ {Decim, HalfFrame, MaxChunk} \subseteq Nat \ {0}
  /\ BlockSizes \subseteq Nat \ {0}

VARIABLES
  position,    \* index of the radio's next sample
  ddcCarry,    \* ddc_stage_t.carry, rotated samples short of an output
  bankCarry,   \* channelizer_bank_t.carry, lane samples short of a frame
  sub,         \* the lane block the bank's worker holds: base, samples, done
  emitted,     \* the frames of the last block of the lane and its stamp
  gaps,        \* history: losses so far
  mixed,       \* history: frames computed across a loss
  framed,      \* history: frames emitted
  unsent       \* history: radio samples lost with a block or given up

laneVars == <<position, ddcCarry, bankCarry, sub, emitted, gaps, mixed, framed, unsent>>

NoSub == [base |-> 0, samples |-> <<>>, done |-> 0]

LaneInit ==
  /\ position = 0 /\ ddcCarry = <<>> /\ bankCarry = <<>>
  /\ sub = NoSub
  /\ emitted = [stamp |-> 0, frames |-> <<>>]
  /\ gaps = 0 /\ mixed = 0 /\ framed = 0 /\ unsent = 0

FrameSpan == HalfFrame * Decim

\* The samples that fill outputs of n each, and the ragged tail kept for later.
Filled(samples, n) == SubSeq(samples, 1, n * (Len(samples) \div n))
Ragged(samples, n) == SubSeq(samples, n * (Len(samples) \div n) + 1, Len(samples))

Frames(samples) ==
  [k \in 1 .. Len(samples) \div FrameSpan |->
     SubSeq(samples, (k - 1) * FrameSpan + 1, k * FrameSpan)]

Whole(frame) == \A i \in 1 .. Len(frame) - 1 : frame[i + 1] = frame[i] + 1
Mixed(frames) == Cardinality({k \in DOMAIN frames : ~ Whole(frames[k])})

Block(n) == [i \in 1 .. n |-> position + i - 1]

\* The stamp of a lane block: the carried samples come before the block.
DdcBase(base) == base - Len(ddcCarry)

\* Mutant: the offset is counted in lane samples.
FrameBase_LaneUnits == sub.base + sub.done

\* The stamp of a bank block: the samples of the lane block already fed.
FrameBase == sub.base + sub.done * Decim

Idle == sub = NoSub

\* svc_ddc_worker: a radio block becomes a lane block.
DdcRuns ==
  /\ Idle
  /\ \E n \in BlockSizes :
       LET window == ddcCarry \o Block(n) IN
       /\ position + n <= MaxSamples
       /\ position' = position + n
       /\ ddcCarry' = Ragged(window, Decim)
       /\ sub' = IF Len(window) < Decim THEN NoSub
                 ELSE [base |-> DdcBase(position), samples |-> Filled(window, Decim),
                       done |-> 0]
  /\ UNCHANGED <<bankCarry, emitted, gaps, mixed, framed, unsent>>

\* Live, a block is lost before the lane: the radio's pool or the reader's
\* queue was full, or the worker had no block to fill.
RadioBlockLost ==
  /\ Idle /\ gaps < MaxGaps
  /\ \E n \in BlockSizes :
       /\ position + n <= MaxSamples
       /\ position' = position + n
       /\ unsent' = unsent + n
  /\ gaps' = gaps + 1
  /\ UNCHANGED <<ddcCarry, bankCarry, sub, emitted, mixed, framed>>

\* A lane block is lost between the two workers.
LaneBlockLost ==
  /\ sub.samples # <<>> /\ sub.done = 0 /\ gaps < MaxGaps
  /\ unsent' = unsent + Len(sub.samples)
  /\ sub' = NoSub
  /\ gaps' = gaps + 1
  /\ UNCHANGED <<position, ddcCarry, bankCarry, emitted, mixed, framed>>

\* How many lane samples the block held has, and how many the bank has been fed
\* after the next chunk, which follows.
SubCount == Len(sub.samples) \div Decim
Fed == IF sub.done + MaxChunk < SubCount THEN sub.done + MaxChunk ELSE SubCount
Chunk == SubSeq(sub.samples, sub.done * Decim + 1, Fed * Decim)

\* What the bank keeps of the chunk it was fed.
BankKeeps(window) == Ragged(window, FrameSpan)

\* svc_pfb_worker: the next sub-chunk goes through the bank.
BankRuns ==
  /\ sub.samples # <<>>
  /\ LET window == bankCarry \o Chunk
         frames == Frames(window)
     IN /\ emitted' = [stamp |-> FrameBase, frames |-> frames]
        /\ bankCarry' = BankKeeps(window)
        /\ mixed' = mixed + Mixed(frames)
        /\ framed' = framed + Len(frames)
  /\ sub' = IF Fed < SubCount THEN [sub EXCEPT !.done = Fed] ELSE NoSub
  /\ UNCHANGED <<position, ddcCarry, gaps, unsent>>

\* Live and without a block to fill, the worker gives up the rest of the lane
\* block: one drop is noted whatever the number of chunks.
BankGivesUp ==
  /\ sub.samples # <<>> /\ gaps < MaxGaps
  /\ unsent' = unsent + Len(sub.samples) - sub.done * Decim
  /\ sub' = NoSub
  /\ gaps' = gaps + 1
  /\ UNCHANGED <<position, ddcCarry, bankCarry, emitted, mixed, framed>>

LaneNext == DdcRuns \/ RadioBlockLost \/ LaneBlockLost \/ BankRuns \/ BankGivesUp

LaneSpec == LaneInit /\ [][LaneNext]_laneVars

-----------------------------------------------------------------------------
(* Properties. *)

\* However the radio's blocks are cut, carried and lost, the index a reader
\* computes for a frame is never before the frame's first sample and after it
\* only by the lane samples the bank had carried, less than a frame.
StampsAreClose ==
  \A k \in DOMAIN emitted.frames :
    LET late == emitted.stamp + (k - 1) * FrameSpan - Head(emitted.frames[k]) IN
    Whole(emitted.frames[k]) => late \in {Decim * n : n \in 0 .. HalfFrame - 1}

\* A loss spoils at most the one frame that was being gathered when it
\* happened, and everything else the radio sent is in a frame, in a carry or
\* on its way: the workers neither drop nor repeat a sample of their own.
LossesAreContained ==
  /\ mixed <= gaps
  /\ position = unsent + framed * FrameSpan + Len(ddcCarry) + Len(bankCarry)
                  + Len(sub.samples) - sub.done * Decim

\* Positions stay true through two stages that carry samples over from block to
\* block, and a lost block costs what was in it and no more.
LanesKeepTime == StampsAreClose /\ LossesAreContained
=============================================================================
