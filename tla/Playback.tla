-------------------------------- MODULE Playback --------------------------------
(***************************************************************************)
(* How the siren is played: the generator of audio.PlaySiren on one side and  *)
(* the machine's audio output on the other.                                 *)
(*                                                                         *)
(* audio/play.go, the buffers siren.go fills, and the three devices: ALSA,    *)
(* which takes a buffer in as many pieces as it likes; waveOut, which marks   *)
(* each buffer when it is done with it; and Audio Queue, which counts them.   *)
(* The sound is a stretch of numbered frames.                               *)
(***************************************************************************)
EXTENDS Integers, Sequences, SequencesExt

CONSTANTS
  Frames,       \* frames in a buffer (bufferSamples)
  Buffers,      \* buffersInFlight, buffersInQueue
  Recoveries,   \* times ALSA's stream is put back together
  MaxChunks     \* buffers' worth of siren generated

VARIABLES
  os,           \* whose device this is
  gen,          \* PlaySiren: where it is, and the device's own fields
  content,      \* what is in each buffer: the number of its first frame
  hdr,          \* waveOut: the flags of each header
  free,         \* Audio Queue: how many buffers have come back
  queue,        \* what the device has been given and has not played
  heard,        \* the last frame that was heard
  stop          \* whether the stop channel is closed

vars == <<os, gen, content, hdr, free, queue, heard, stop>>

Slots == 0 .. Buffers - 1
NoFlags == [prepared |-> FALSE, done |-> FALSE]

Init ==
  /\ os \in {"alsa", "waveOut", "audioQueue"}
  /\ gen = [pc |-> "open", chunk |-> 0, next |-> 0, slot |-> 0, at |-> 0, left |-> 0, failed |-> FALSE]
  /\ content = [i \in Slots |-> 0]
  /\ hdr = [i \in Slots |-> NoFlags]
  /\ free = 0
  /\ queue = <<>>
  /\ heard = 0
  /\ stop = FALSE

Goto(from, to) == gen.pc = from /\ gen' = [gen EXCEPT !.pc = to]
Fail(from) == gen.pc = from /\ gen' = [gen EXCEPT !.pc = "close", !.failed = TRUE]

First == gen.chunk * Frames + 1   \* of the frames about to be generated

-----------------------------------------------------------------------------
(***************************************************************************)
(* PlaySiren.                                                              *)
(***************************************************************************)
\* openOutput: there is a device, or there is none.
Open ==
  /\ \/ Goto("open", "loop") /\ free' = IF os = "audioQueue" THEN Buffers ELSE 0
     \/ gen.pc = "open" /\ gen' = [gen EXCEPT !.pc = "over", !.failed = TRUE] /\ UNCHANGED free
  /\ UNCHANGED <<os, content, hdr, queue, heard, stop>>

Stopped ==
  /\ stop
  /\ Goto("loop", "close")
  /\ UNCHANGED <<os, content, hdr, free, queue, heard, stop>>

\* The next stretch of siren is generated and Write is called with it.
Fill ==
  /\ ~stop /\ gen.pc = "loop" /\ gen.chunk < MaxChunks
  /\ gen' = [gen EXCEPT !.pc = "write", !.at = 0, !.left = Recoveries]
  /\ UNCHANGED <<os, content, hdr, free, queue, heard, stop>>

Wrote == gen' = [gen EXCEPT !.pc = "loop", !.chunk = @ + 1]

\* The device is let go of; what it has not played it does not play.
Close ==
  /\ Goto("close", "over")
  /\ queue' = <<>>
  /\ hdr' = [i \in Slots |-> NoFlags]
  /\ UNCHANGED <<os, content, free, heard, stop>>

Stop ==
  /\ ~stop /\ stop' = TRUE
  /\ UNCHANGED <<os, gen, content, hdr, free, queue, heard>>

-----------------------------------------------------------------------------
(***************************************************************************)
(* ALSA.                                                                   *)
(***************************************************************************)
\* Mutant: a device that takes nothing is asked again for ever.
WriteiForEver ==
  /\ os = "alsa" /\ gen.pc = "write" /\ gen.at < Frames
  /\ \/ \E n \in 1 .. Frames - gen.at :
          /\ gen' = [gen EXCEPT !.at = @ + n, !.left = Recoveries]
          /\ queue' = queue \o [i \in 1 .. n |-> First + gen.at + i - 1]
     \/ /\ gen' = [gen EXCEPT !.left = IF @ > 1 THEN @ - 1 ELSE Recoveries]
        /\ UNCHANGED queue
  /\ UNCHANGED <<os, content, hdr, free, heard, stop>>

\* The device takes some of what is left, or nothing, or answers with an error; the
\* stream is recovered as often as the budget allows, unless that fails too.
Writei ==
  /\ os = "alsa" /\ gen.pc = "write" /\ gen.at < Frames
  /\ \/ \E n \in 1 .. Frames - gen.at :
          /\ gen' = [gen EXCEPT !.at = @ + n]
          /\ queue' = queue \o [i \in 1 .. n |-> First + gen.at + i - 1]
     \/ /\ gen.left > 1
        /\ gen' = [gen EXCEPT !.left = @ - 1]
        /\ UNCHANGED queue
     \/ Fail("write") /\ UNCHANGED queue
  /\ UNCHANGED <<os, content, hdr, free, heard, stop>>

WriteiDone ==
  /\ os = "alsa" /\ gen.pc = "write" /\ gen.at = Frames
  /\ Wrote
  /\ UNCHANGED <<os, content, hdr, free, queue, heard, stop>>

-----------------------------------------------------------------------------
(***************************************************************************)
(* waveOut and Audio Queue, which are lent a few buffers in rotation.        *)
(***************************************************************************)
\* The buffer that is about to be used again, whether or not it can be had.
Turn ==
  /\ os # "alsa" /\ gen.pc = "write"
  /\ gen' = [gen EXCEPT !.pc = "wait", !.slot = gen.next, !.next = (@ + 1) % Buffers]
  /\ UNCHANGED <<os, content, hdr, free, queue, heard, stop>>

\* Mutant: a header that is still out is written over.
ReclaimUnwaited ==
  /\ os = "waveOut"
  /\ Goto("wait", "handOver")
  /\ hdr' = [hdr EXCEPT ![gen.slot] = NoFlags]
  /\ UNCHANGED <<os, content, free, queue, heard, stop>>

\* reclaim: a header that was never lent is ours; one that was is ours when it is done.
Reclaim ==
  /\ os = "waveOut" /\ (hdr[gen.slot].prepared => hdr[gen.slot].done)
  /\ Goto("wait", "handOver")
  /\ hdr' = [hdr EXCEPT ![gen.slot] = NoFlags]
  /\ UNCHANGED <<os, content, free, queue, heard, stop>>

\* waitForABuffer
WaitForABuffer ==
  /\ os = "audioQueue" /\ free > 0
  /\ Goto("wait", "handOver")
  /\ free' = free - 1
  /\ UNCHANGED <<os, content, hdr, queue, heard, stop>>

\* The device has kept every buffer for a second, or will not let go of one it is done
\* with (waveOutUnprepareHeader).
NotGivenBack ==
  /\ IF os = "waveOut" THEN hdr[gen.slot].prepared ELSE os = "audioQueue" /\ free <= 0
  /\ Fail("wait")
  /\ UNCHANGED <<os, content, hdr, free, queue, heard, stop>>

\* The buffer is filled and handed over, and the device may refuse it.
HandOver ==
  /\ gen.pc = "handOver"
  /\ content' = [content EXCEPT ![gen.slot] = First]
  /\ \/ /\ queue' = Append(queue, gen.slot)
        /\ hdr' = IF os = "waveOut" THEN [hdr EXCEPT ![gen.slot].prepared = TRUE] ELSE hdr
        /\ Wrote
     \/ /\ Fail("handOver")
        /\ \/ UNCHANGED hdr
           \/ os = "waveOut" /\ hdr' = [hdr EXCEPT ![gen.slot].prepared = TRUE]
        /\ UNCHANGED queue
  /\ UNCHANGED <<os, free, heard, stop>>

-----------------------------------------------------------------------------
(***************************************************************************)
(* The device, on a thread of its own, which nothing obliges to go on.       *)
(***************************************************************************)
PlayFrame ==
  /\ os = "alsa" /\ queue # <<>>
  /\ heard' = Head(queue)
  /\ queue' = Tail(queue)
  /\ UNCHANGED <<os, gen, content, hdr, free, stop>>

\* An underrun or a suspend loses what was queued.
LoseQueue ==
  /\ os = "alsa" /\ queue # <<>>
  /\ queue' = <<>>
  /\ UNCHANGED <<os, gen, content, hdr, free, heard, stop>>

\* A buffer is played and given back: by its flag, or by bufferReturned's counting.
PlayBuffer ==
  /\ os # "alsa" /\ queue # <<>>
  /\ LET slot == Head(queue) IN
       /\ heard' = content[slot] + Frames - 1
       /\ IF os = "waveOut" THEN hdr' = [hdr EXCEPT ![slot].done = TRUE] /\ UNCHANGED free
          ELSE free' = free + 1 /\ UNCHANGED hdr
  /\ queue' = Tail(queue)
  /\ UNCHANGED <<os, gen, content, stop>>

Generator == Open \/ Stopped \/ Fill \/ Writei \/ WriteiDone \/ Turn \/ Reclaim \/ WaitForABuffer
               \/ NotGivenBack \/ HandOver \/ Close

Next == Generator \/ Stop \/ PlayFrame \/ LoseQueue \/ PlayBuffer

Spec == Init /\ [][Next]_vars

\* The generator's goroutine is scheduled and its calls return; the device may play
\* nothing more at any moment.
FairSpec == Spec /\ WF_vars(Generator)

-----------------------------------------------------------------------------
\* The theorems ask this of the constants.
ConstantsOK ==
  /\ Frames \in Nat \ {0} /\ Buffers \in Nat \ {0}
  /\ Recoveries \in Nat /\ MaxChunks \in Nat

TypeOK ==
  /\ gen.pc \in {"open", "loop", "write", "wait", "handOver", "close", "over"}
  /\ gen.chunk \in 0 .. MaxChunks /\ gen.next \in Slots /\ gen.slot \in Slots
  /\ gen.at \in 0 .. Frames /\ gen.left \in 0 .. Recoveries
  /\ free \in 0 .. Buffers /\ heard \in 0 .. MaxChunks * Frames

\* Nothing is heard twice or out of its order: no buffer is filled while the device has
\* it, and no part of one is offered again after a short write or a recovery.  (Write,
\* reclaim, waitForABuffer, bufferReturned, recoverFrom.)
HeardInOrder == [][heard' # heard => heard' > heard]_vars

\* A siren that is told to stop is over, and the device given back, although the device
\* never plays another sample.  (PlaySiren, and the budgets of the three devices.)
StopIsHeard == stop ~> gen.pc = "over"
=============================================================================
