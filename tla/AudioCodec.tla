----------------------------- MODULE AudioCodec -----------------------------
(* The ES8311's two sample buffers, between I2S and the host's audio.  The    *)
(* host takes and gives samples when it likes; I2S transfers blocks in the    *)
(* guest's time; register writes, the supply, the amplifier and the rates     *)
(* start and stop either direction.  A sample is a number, counted modulo     *)
(* Samples; the registers are the conditions es8311UpdateAudio derives from   *)
(* them; a rate is the number of its samples in 20 ms.                        *)
EXTENDS Integers, Sequences

CONSTANTS
  Capacity,     \* of both buffers, in samples (4096)
  Block,        \* most samples of one transfer (I2sBlockFrames)
  Burst,        \* bound: most samples the host gives at once
  Rates,        \* rates that I2S sets; 0 is a stopped clock
  Supported,    \* those within 8 and 96 kHz
  Samples       \* modulus of the numbers of samples

CodecAssumption ==
  /\ Capacity \in Nat /\ Block \in 1..Capacity /\ Burst \in Nat /\ Samples \in Nat
  /\ Samples > Capacity + Block /\ 0 \in Rates /\ Supported \subseteq Rates \cap 1..Capacity /\ Rates \subseteq Nat

VARIABLES
  codec,   \* struct Es8311
  host,    \* history: samples sent to it and heard from it, and of those the ones of this run
  guest    \* history: the last input block, and the number the next sound must begin with

vars == <<codec, host, guest>>

Free == -1    \* nothing is expected: the input was restarted, or overflowed
Numbers(first, count) == [i \in 1..count |-> (first + i - 1) % Samples]
Newest(s) == IF Len(s) > Capacity THEN SubSeq(s, Len(s) - Capacity + 1, Len(s)) ELSE s

Powerless == [dac |-> FALSE, adc |-> FALSE, mute |-> FALSE]

Init ==
  /\ codec = [powered |-> FALSE, amplifier |-> FALSE, registers |-> Powerless,
              rate |-> [input |-> 0, output |-> 0], active |-> [input |-> FALSE, output |-> FALSE],
              playback |-> <<>>, capture |-> <<>>, primed |-> FALSE]
  /\ host = [sent |-> 0, heard |-> 0, fresh |-> 0]
  /\ guest = [block |-> "none", next |-> Free]

\* outputGain is not zero.
Audible(c) == c.amplifier /\ ~c.registers.mute

\* Plausible bug: sound that waits is kept while the output is muted.
UpdatedKeepsSound(c, opened) ==
  LET on == [output |-> c.powered /\ c.registers.dac /\ c.rate.output \in Supported /\ "output" \in opened,
             input |-> c.powered /\ c.registers.adc /\ c.rate.input \in Supported /\ "input" \in opened]
  IN [c EXCEPT !.active = on, !.playback = IF on.output THEN @ ELSE <<>>,
               !.capture = IF on.input THEN @ ELSE <<>>, !.primed = @ /\ on.input]

\* es8311UpdateAudio; the host may refuse to open a voice.
Updated(c, opened) ==
  LET on == [output |-> c.powered /\ c.registers.dac /\ c.rate.output \in Supported /\ "output" \in opened,
             input |-> c.powered /\ c.registers.adc /\ c.rate.input \in Supported /\ "input" \in opened]
  IN [c EXCEPT !.active = on,
               !.playback = IF on.output /\ Audible(c) THEN @ ELSE <<>>,
               !.capture = IF on.input THEN @ ELSE <<>>,
               !.primed = @ /\ on.input]

\* The histories begin anew when the input does.
Restarts(restart) ==
  IF restart THEN host' = [host EXCEPT !.fresh = 0] /\ guest' = [block |-> "none", next |-> Free]
  ELSE UNCHANGED <<host, guest>>

UpdateAudio(c) ==
  \E opened \in SUBSET {"input", "output"} :
    codec' = Updated(c, opened) /\ Restarts(~codec'.active.input)

-----------------------------------------------------------------------------
(* The board and the guest                                                    *)

PowerInput(level) ==
  /\ codec.powered # level
  /\ UpdateAudio([codec EXCEPT !.powered = level, !.registers = IF level THEN Powerless ELSE @])

AmplifierInput(level) ==
  codec.amplifier # level /\ UpdateAudio([codec EXCEPT !.amplifier = level])

WriteRegister(name, value) ==
  codec.powered /\ UpdateAudio([codec EXCEPT !.registers[name] = value])

SetOutputRate(r) ==
  /\ codec.rate.output # r
  /\ UpdateAudio([codec EXCEPT !.rate.output = r, !.playback = <<>>])

SetInputRate(r) ==
  /\ codec.rate.input # r
  /\ \E opened \in SUBSET {"input", "output"} :
       codec' = Updated([codec EXCEPT !.rate.input = r, !.capture = <<>>, !.primed = FALSE], opened)
  /\ Restarts(TRUE)

-----------------------------------------------------------------------------
(* Playback                                                                   *)

\* A stalled host loses the oldest samples and does not stall the guest; then it
\* is offered all there is and takes some of it.
TransferOutput(count) ==
  /\ codec.active.output
  /\ host' = [host EXCEPT !.sent = (@ + count) % Samples]
  /\ LET block == [i \in 1..count |-> [n |-> Numbers(host.sent, count)[i], sound |-> Audible(codec)]]
         queue == Newest(codec.playback \o block)
     IN \E taken \in 0..Len(queue) :
          codec' = [codec EXCEPT !.playback = SubSeq(queue, taken + 1, Len(queue))]
  /\ UNCHANGED guest

PlaybackAvailable ==
  /\ codec.active.output
  /\ \E taken \in 1..Len(codec.playback) :
       codec' = [codec EXCEPT !.playback = SubSeq(@, taken + 1, Len(@))]
  /\ UNCHANGED <<host, guest>>

-----------------------------------------------------------------------------
(* Capture                                                                    *)

\* The newest input is kept if the guest does not consume it.
CaptureAvailable(count) ==
  /\ codec.active.input
  /\ LET queue == codec.capture \o Numbers(host.heard, count)
     IN /\ codec' = [codec EXCEPT !.capture = Newest(queue)]
        /\ guest' = [guest EXCEPT !.next = IF Len(queue) > Capacity THEN Free ELSE @]
  /\ host' = [host EXCEPT !.heard = (@ + count) % Samples,
                          !.fresh = IF @ + count > Capacity THEN Capacity ELSE @ + count]

\* Whether input may be delivered: primed with 20 ms, until it runs short.
Primed(count) ==
  LET available == Len(codec.capture)
  IN  (codec.primed \/ (available >= count /\ available >= codec.rate.input)) /\ available >= count

TransferInput(count) ==
  /\ codec.rate.input # 0
  /\ LET sound == codec.active.input /\ Primed(count)
     IN /\ codec' = [codec EXCEPT !.primed = Primed(count),
                                  !.capture = IF sound THEN SubSeq(@, count + 1, Len(@)) ELSE @]
        /\ guest' = IF sound THEN [block |-> "sound", next |-> (codec.capture[count] + 1) % Samples]
                    ELSE [guest EXCEPT !.block = "silence"]
  /\ UNCHANGED host

Counts == 1..Block

Next ==
  \/ \E level \in BOOLEAN : PowerInput(level) \/ AmplifierInput(level)
  \/ \E name \in DOMAIN Powerless, value \in BOOLEAN : WriteRegister(name, value)
  \/ \E r \in Rates : SetOutputRate(r) \/ SetInputRate(r)
  \/ \E count \in Counts : TransferOutput(count) \/ TransferInput(count)
  \/ PlaybackAvailable
  \/ \E count \in 1..Burst : CaptureAvailable(count)

Spec == Init /\ [][Next]_vars

-----------------------------------------------------------------------------
(* Types of the state.                                                        *)
TypeOK ==
  /\ {codec.powered, codec.amplifier, codec.primed} \subseteq BOOLEAN
  /\ codec.registers \in [dac : BOOLEAN, adc : BOOLEAN, mute : BOOLEAN]
  /\ codec.rate \in [input : Rates, output : Rates] /\ codec.active \in [input : BOOLEAN, output : BOOLEAN]
  /\ codec.playback \in Seq([n : 0..Samples - 1, sound : BOOLEAN]) /\ codec.capture \in Seq(0..Samples - 1)
  /\ Len(codec.playback) <= Capacity /\ Len(codec.capture) <= Capacity
  /\ guest \in [block : {"none", "silence", "sound"}, next : Free..Samples - 1]

(* What waits for a host that has stalled is the newest sound, without a gap   *)
(* ("A stalled host must not stall virtual DMA or accumulate old sound").      *)
PlaybackRecent ==
  \A i \in DOMAIN codec.playback :
    codec.playback[i].n = (host.sent - Len(codec.playback) + i - 1) % Samples

(* No sound from before a mute, a stop or the loss of the amplifier waits to   *)
(* be played after it.                                                         *)
SilentWhenMuted ==
  ~codec.active.output \/ ~Audible(codec) => \A i \in DOMAIN codec.playback : ~codec.playback[i].sound

(* The input that waits is the newest the host gave, without a gap, and none   *)
(* of it is from before the input was started or its rate was set.             *)
CaptureRecent ==
  /\ Len(codec.capture) <= host.fresh
  /\ \A i \in DOMAIN codec.capture : codec.capture[i] = (host.heard - Len(codec.capture) + i - 1) % Samples

(* Nothing is skipped between two blocks of sound, whatever silence was        *)
(* delivered in between, unless the buffer overflowed ("instead of splicing    *)
(* partial blocks into repeated silence").                                     *)
NoneSkipped ==
  guest.next # Free =>
    guest.next = IF codec.capture = <<>> THEN host.heard ELSE codec.capture[1]

(* The state's invariants together, for runs that take the codec with others. *)
CodecSafety == TypeOK /\ PlaybackRecent /\ SilentWhenMuted /\ CaptureRecent /\ NoneSkipped
=============================================================================
