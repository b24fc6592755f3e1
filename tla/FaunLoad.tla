------------------------------ MODULE FaunLoad ------------------------------
(***************************************************************************)
(* faun_loadBuffer: faun_readBuffer reads a file into memory, in the       *)
(* thread of the application, and what it got is sent to the audio thread. *)
(*                                                                         *)
(* WAVE files are read by support/wav_read.c, FLAC files by FlacDecoder;   *)
(* Ogg files and rFX are what libvorbisfile and sfx_gen make of them.      *)
(***************************************************************************)
EXTENDS FlacDecoder, SequencesExt

CONSTANTS BufSizes, \* bytes of readBuf: several, for a frame may be cut anywhere
          OutLen,   \* decodeSize
          Unset     \* a field of the local FaunBuffer that was not assigned

HeaderLen == 20     \* bytes that wav_readHeader has read of any file

(* No file that is told to be FLAC is shorter than the header read of it.  *)
SoundLoad(f) ==
  /\ f.kind \in {"short", "other", "wav", "ogg", "rfx", "flac"}
  /\ f.kind = "wav" => Listed(f.chunks) /\ \A i \in DOMAIN f.chunks : f.chunks[i].len \in Nat
  /\ f.kind \in {"ogg", "rfx"} => f.len \in Nat
  /\ f.kind = "ogg" => f.readable \in Nat
  /\ f.kind = "flac" => f.samples \in Nat /\ f.has >= HeaderLen

ASSUME LoadAssumption ==
  /\ BufSizes \subseteq Nat /\ \A n \in BufSizes : n >= HeaderLen
  /\ OutLen \in Nat \ {0}
  /\ Unset \notin Nat
  /\ \A f \in Files : SoundLoad(f)

VARIABLES bufSize,
          phase,    \* where faun_readBuffer is, "idle" between loads
          chunk,    \* chunk of the WAVE file read next
          buf,      \* FaunBuffer
          error     \* its error message

vars == <<file, decoder, bufSize, phase, chunk, buf, error>>

NoError == "none"

(* faun_loadBuffer clears the pointer of its buffer only.                  *)
EmptyBuf == [avail |-> Unset, used |-> Unset, written |-> 0]

(* _allocBufferVoice; `written' is a history: frames of it assigned        *)
Alloc(frames) == [avail |-> frames, used |-> 0, written |-> 0]

Half(f) == IF f.half THEN 2 ELSE 1   \* frames made of one at 22050 Hz

Init ==
  /\ file \in Files /\ bufSize \in BufSizes
  /\ DecoderInit
  /\ phase = "idle" /\ chunk = 1
  /\ buf = EmptyBuf /\ error = NoError

Load ==
  /\ phase = "idle" /\ phase' = "header"
  /\ UNCHANGED file
  /\ given' = 0 /\ pos' = 0 /\ flac' = FlacReset /\ call' = "return" /\ room' = 0
  /\ out' = <<>>
  /\ chunk' = 1 /\ buf' = EmptyBuf /\ error' = NoError

Return(message, b) ==
  /\ phase' = "done"
  /\ error' = message
  /\ buf' = b

-----------------------------------------------------------------------------
(* wav_readHeader: the RIFF header, the format chunk, then the data chunk; *)
(* what it does not find is an error, of which only one kind is looked at. *)

ReadHeader ==
  /\ phase = "header"
  /\ CASE file.kind = "short" -> Return(NoError, buf) /\ UNCHANGED given
       [] file.kind = "other" -> Return(NoError, buf) /\ UNCHANGED given
       [] file.kind = "wav"   -> phase' = "fmt" /\ UNCHANGED <<given, buf, error>>
       [] file.kind \in {"ogg", "rfx"} -> phase' = file.kind /\ UNCHANGED <<given, buf, error>>
       [] file.kind = "flac"  -> /\ phase' = "flac_read"
                                 /\ given' = 8 * HeaderLen
                                 /\ UNCHANGED <<buf, error>>
  /\ UNCHANGED <<file, pos, flac, call, room, out, chunk>>

FindChunk ==
  /\ phase \in {"fmt", "data"}
  /\ chunk' = chunk + 1
  /\ IF chunk > Len(file.chunks) THEN Return(NoError, buf)
     ELSE /\ phase' = IF file.chunks[chunk].id # phase THEN phase
                      ELSE IF phase = "fmt" THEN "data" ELSE "samples"
          /\ UNCHANGED <<buf, error>>
  /\ UNCHANGED <<file, decoder>>

(* The samples of the data chunk; a file may end before they do.           *)
ReadSamples ==
  LET data   == file.chunks[chunk - 1]
      frames == data.len * Half(file)
  IN
  /\ phase = "samples"
  /\ IF ~file.rateOk THEN Return("WAVE sample rate is unsupported", buf)
     ELSE IF ~file.bitsOk THEN Return("WAVE bits per sample is not 16", buf)
     ELSE IF data.has < data.len THEN Return("WAVE fread failed", Alloc(frames))
     ELSE Return(NoError, [Alloc(frames) EXCEPT !.used = frames, !.written = frames])
  /\ UNCHANGED <<file, decoder, chunk>>

-----------------------------------------------------------------------------
(* Ogg and rFX                                                             *)

(* _readOgg fills the buffer up to `avail'; ov_read_float gives nothing    *)
(* when no whole frame at 22050 Hz is left to fill.                        *)
OggFrames(avail) ==
  Min({avail - (avail % Half(file)), file.readable * Half(file)})

ReadOgg ==
  LET total == file.len
      n     == OggFrames(total)
      b     == [Alloc(total) EXCEPT !.used = n, !.written = n]
  IN
  /\ phase = "ogg"
  /\ IF ~file.opens THEN Return("Ogg open failed", buf)
     ELSE Return(IF n > 0 /\ n = total THEN NoError ELSE "Ogg read failed", b)
  /\ UNCHANGED <<file, decoder, chunk>>

ReadSfx ==
  /\ phase = "rfx"
  /\ IF file.opens
     THEN Return(NoError, [Alloc(file.len) EXCEPT !.used = file.len, !.written = file.len])
     ELSE Return("rFX fread failed", buf)
  /\ UNCHANGED <<file, decoder, chunk>>

-----------------------------------------------------------------------------
(* FLAC                                                                    *)

FileBytes == Min({file.has, FlacBits \div 8})

ToRead == bufSize - (given \div 8 - Taken)
Got    == Min({ToRead, FileBytes - given \div 8})

\* Mutant: the loop goes on at the end of the file.
NoMoreNot == FALSE

(* fread returns nothing.                                                  *)
NoMore == ToRead > 0 /\ Got = 0

FlacFrames == IF buf.avail = Unset THEN 0 ELSE buf.avail

ReadFlac ==
  /\ phase = "flac_read"
  /\ IF NoMore
     THEN /\ Return(error, [buf EXCEPT !.used = FlacFrames])
          /\ UNCHANGED <<file, decoder>>
     ELSE Process(Got, OutLen) /\ phase' = "flac" /\ UNCHANGED <<buf, error>>
  /\ UNCHANGED chunk

DecodeFlac == phase = "flac" /\ Decode /\ UNCHANGED <<phase, chunk, buf, error>>

Channels == Len(file.frames[1].subs)

(* What fx_flac_process returned.                                          *)
SaveFlac ==
  /\ phase = "flac" /\ call = "return"
  /\ IF flac.state = "err" THEN Return("FLAC decode failed", [buf EXCEPT !.used = FlacFrames])
     ELSE IF flac.state = "end_of_metadata" /\ file.samples = 0
     THEN Return("FLAC total samples is unknown", [buf EXCEPT !.used = FlacFrames])
     ELSE /\ phase' = "flac_read"
          /\ buf' = IF flac.state = "end_of_metadata" THEN Alloc(file.samples)
                    ELSE [buf EXCEPT !.written = Len(out) \div Channels]
          /\ UNCHANGED error
  /\ UNCHANGED <<file, decoder, chunk>>

Flac == ReadFlac \/ DecodeFlac \/ SaveFlac

-----------------------------------------------------------------------------

(* The buffer is sent if there is no error; the file may be loaded again.  *)
SetBuffer == phase = "done" /\ phase' = "idle" /\ UNCHANGED <<file, decoder, chunk, buf, error>>

Step == ReadHeader \/ FindChunk \/ ReadSamples \/ ReadOgg \/ ReadSfx \/ Flac \/ SetBuffer

Next == (Load \/ Step) /\ UNCHANGED bufSize

Spec == Init /\ [][Next]_vars

(* The thread that loads goes on.                                          *)
FairSpec == Spec /\ WF_vars(Step /\ UNCHANGED bufSize)

-----------------------------------------------------------------------------
(* Properties                                                              *)

TypeOK ==
  /\ file \in Files
  /\ given \in Nat /\ pos \in 0 .. given
  /\ flac.chan \in Nat /\ flac.cur \in 0 .. MaxBlockSize
  /\ call \in {"run", "return"} /\ room \in 0 .. OutLen
  /\ phase \in {"idle", "header", "fmt", "data", "samples", "ogg", "rfx",
                "flac_read", "flac", "done"}
  /\ {buf.avail, buf.used} \subseteq Nat \cup {Unset} /\ buf.written \in Nat

(* The values of a file in the order in which they are heard; a frame that *)
(* was damaged is left out.                                                *)
FrameValues(k) ==
  LET f  == file.frames[k]
      cc == Len(f.subs)
  IN IF ~f.intact THEN <<>>
     ELSE [i \in 1 .. f.size * cc |->
             LET c == (i - 1) % cc
             IN Value(k, (i - 1) \div cc, c, IF f.subs[c + 1].wasted # 0 THEN 1 ELSE 0)]

Values == FlattenSeq([k \in DOMAIN file.frames |-> FrameValues(k)])

(* Wherever the file is cut into pieces, between the bytes of a checksum   *)
(* as in the middle of a sample, the values decoded so far are those of    *)
(* the first frames in order, shifted once, and none of a damaged frame.   *)
ValuesInOrder ==
  file.kind = "flac" => IsPrefix(out, Values)

LoadOK == TypeOK /\ ValuesInOrder

(* Frames that the file says it has, at the mixing rate.                   *)
Frames ==
  CASE file.kind = "wav"  ->
         LET k == CHOOSE k \in DOMAIN file.chunks : file.chunks[k].id = "data"
         IN file.chunks[k].len * Half(file)
    [] file.kind = "flac" -> file.samples
    [] OTHER -> file.len * Half(file)

Undamaged == file.kind = "flac" => \A k \in DOMAIN file.frames : file.frames[k].intact

(* A load that ends without a message has the whole file: the audio thread *)
(* never plays a frame that was not written.                               *)
LoadIsWhole ==
  phase = "done" /\ error = NoError /\ Undamaged =>
    buf.used = Frames /\ buf.used <= buf.written

(* Every load ends, however little is read at a time.                      *)
LoadEnds == phase # "idle" ~> phase = "idle"

=============================================================================
