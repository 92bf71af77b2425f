----------------------------- MODULE CameraCapture -----------------------------
(***************************************************************************)
(* CameraCapture::run(): opens a camera's stream, reads packets, has them  *)
(* decoded, holds every picture back until its time has come and puts it   *)
(* into the camera's frame queue; a file starts again at its end.          *)
(*                                                                         *)
(* External, as the loop uses them: the stream (a file of packets, each of *)
(* up to two pictures, or a camera that may answer late or never), the     *)
(* decoder, which keeps the last pictures back and may refuse a packet     *)
(* while there are pictures to be received, and the processor, which takes *)
(* frames from the queue, which nobody aborts.  A picture is known by its  *)
(* pass through the file and its place in it.  A read error is fatal to    *)
(* the whole program.                                                      *)
(*                                                                         *)
(* Whoever waits for the camera may wait for ever.  The interrupt callback *)
(* is set after the input was opened, when FFmpeg has already handed a     *)
(* copy of the callback of that moment, none, to the layer that reads: it  *)
(* can end a wait only where the context's own callback is polled.         *)
(***************************************************************************)
EXTENDS Naturals, Sequences, FiniteSets

CONSTANTS
    Packets,        \* packets of the stream in one pass
    Delay,          \* pictures the decoder keeps back
    FrameRoom,      \* capacity of the frame queue
    MaxPasses       \* passes through the file (bound of the model)

ASSUME CaptureAssumption ==
    Packets \in Nat /\ Delay \in Nat /\ FrameRoom \in Nat \ {0} /\ MaxPasses \in Nat \ {0}

VARIABLES
    pull,           \* isPullBased()
    stage,          \* where run() is
    held,           \* FFmpeg objects allocated and not yet freed
    place,          \* the packet read last: its pass and number
    refused,        \* send_result == AVERROR(EAGAIN)
    decoder,        \* pictures decoded and not yet received
    origin,         \* start_pts: the pass it was taken in, or Unset
    shown,          \* the last picture received, and the origin of its time
    spoiled,        \* did a picture fail to decode? (a history of the model)
    queued,         \* frames in the queue
    stopAsked       \* requestInterruption() was called

captureVars == <<pull, stage, held, place, refused, decoder, origin, shown, spoiled,
                 queued, stopAsked>>

Resources == <<"input", "codec", "packet", "frame", "bgr_frame", "sws", "buffer">>

Unset == 0
Nothing == [pass |-> 0, number |-> 0, origin |-> Unset]

CaptureInit ==
    /\ pull \in BOOLEAN
    /\ stage = "open" /\ held = {}
    /\ place = [pass |-> 1, number |-> 0]
    /\ refused = FALSE /\ decoder = <<>> /\ origin = Unset
    /\ shown = Nothing /\ spoiled = FALSE
    /\ queued = 0 /\ stopAsked = FALSE
------------------------------------------------------------------------------
(* Opening and closing.                                                    *)

\* Opening the input waits for the camera, and so does finding its streams, which
\* reads packets.
Connecting == stage = "open" /\ held = {}
Probing == stage = "open" /\ held = {Resources[1]}

Connect ==
    /\ Connecting
    /\ \/ held' = {Resources[1]} /\ UNCHANGED stage
       \/ stage' = "free" /\ UNCHANGED held
    /\ UNCHANGED <<pull, place, refused, decoder, origin, shown, spoiled, queued, stopAsked>>

\* Step by step; each makes sure of what the next one needs.
Open ==
    /\ stage = "open" /\ held # {}
    /\ held' = held \cup {Resources[Cardinality(held) + 1]}
    /\ stage' = IF Cardinality(held') = Len(Resources) THEN "test" ELSE stage
    /\ UNCHANGED <<pull, place, refused, decoder, origin, shown, spoiled, queued, stopAsked>>

\* Any step of it may fail, also one that allocates nothing: an exception.
OpenFails ==
    /\ stage = "open" /\ held # {}
    /\ stage' = "free"
    /\ UNCHANGED <<pull, held, place, refused, decoder, origin, shown, spoiled, queued,
                   stopAsked>>

\* After the loop what is left in the decoder is thrown away.
Drain ==
    /\ stage = "leave"
    /\ decoder' = <<>>
    /\ stage' = "free"
    /\ UNCHANGED <<pull, held, place, refused, origin, shown, spoiled, queued, stopAsked>>

\* Slip: what was opened is freed only where the loop has ended.
FreeAfterLoop ==
    /\ stage = "free"
    /\ held' = IF Cardinality(held) = Len(Resources) THEN {} ELSE held
    /\ stage' = "done"
    /\ UNCHANGED <<pull, place, refused, decoder, origin, shown, spoiled, queued, stopAsked>>

\* Reached from the loop and from the exception handlers alike.
Free ==
    /\ stage = "free"
    /\ held' = {}
    /\ stage' = "done"
    /\ UNCHANGED <<pull, place, refused, decoder, origin, shown, spoiled, queued, stopAsked>>
------------------------------------------------------------------------------
(* The outer loop: a packet.                                               *)

\* Slip: what was decoded is shown before a request to stop is heeded.
TestStopWhenShown ==
    /\ stage = "test"
    /\ stage' = IF stopAsked /\ decoder = <<>> THEN "leave" ELSE "read"
    /\ UNCHANGED <<pull, held, place, refused, decoder, origin, shown, spoiled, queued,
                   stopAsked>>

TestStop ==
    /\ stage = "test"
    /\ stage' = IF stopAsked THEN "leave" ELSE "read"
    /\ UNCHANGED <<pull, held, place, refused, decoder, origin, shown, spoiled, queued,
                   stopAsked>>

\* The interrupt callback may end a read that waits for the camera; nothing makes
\* sure that the layer it waits in asks for it.
ReadInterrupted ==
    /\ stage = "read" /\ stopAsked
    /\ stage' = "leave"
    /\ UNCHANGED <<pull, held, place, refused, decoder, origin, shown, spoiled, queued,
                   stopAsked>>

\* A picture can be received when more are decoded than are kept back.
Ready == Len(decoder) > Delay

\* The pictures of the packet at place p.
Pictures(p, n) == [i \in 1 .. n |-> [pass |-> p.pass, number |-> 2 * p.number + i]]

\* A packet is read and sent to the decoder, which takes it, or refuses it because
\* pictures wait to be received.
ReadPacket ==
    /\ stage = "read" /\ place.number < Packets
    /\ place' = [place EXCEPT !.number = @ + 1]
    /\ \/ \E n \in 0 .. 2 : decoder' = decoder \o Pictures(place', n) /\ refused' = FALSE
       \/ Ready /\ refused' = TRUE /\ UNCHANGED decoder
    /\ stage' = "receive"
    /\ UNCHANGED <<pull, held, origin, shown, spoiled, queued, stopAsked>>

\* A packet of another stream, or one the decoder rejects, is passed over.
PassOver ==
    /\ stage = "read"
    /\ \/ UNCHANGED place
       \/ place.number < Packets /\ place' = [place EXCEPT !.number = @ + 1]
    /\ stage' = "test"
    /\ UNCHANGED <<pull, held, refused, decoder, origin, shown, spoiled, queued, stopAsked>>

\* Slip: the decoder keeps the pictures of the pass that ended.
StartAgainUnflushed ==
    /\ stage = "read" /\ place.number = Packets /\ place.pass < MaxPasses
    /\ place' = [pass |-> place.pass + 1, number |-> 0]
    /\ origin' = Unset
    /\ stage' = "test"
    /\ UNCHANGED <<pull, held, refused, decoder, shown, spoiled, queued, stopAsked>>

\* The end of the file: back to its start with an empty decoder and a new clock.
StartAgain ==
    /\ stage = "read" /\ place.number = Packets /\ place.pass < MaxPasses
    /\ place' = [pass |-> place.pass + 1, number |-> 0]
    /\ decoder' = <<>> /\ origin' = Unset
    /\ stage' = "test"
    /\ UNCHANGED <<pull, held, refused, shown, spoiled, queued, stopAsked>>

SeekFails ==
    /\ stage = "read" /\ place.number = Packets
    /\ stage' = "leave"
    /\ UNCHANGED <<pull, held, place, refused, decoder, origin, shown, spoiled, queued,
                   stopAsked>>

ReadError ==
    /\ stage = "read"
    /\ stage' = "aborted"
    /\ UNCHANGED <<pull, held, place, refused, decoder, origin, shown, spoiled, queued,
                   stopAsked>>
------------------------------------------------------------------------------
(* The inner loop: the pictures the decoder has.                           *)

\* Its test sends it back to the outer one.
LeaveInner ==
    /\ stage = "receive" /\ stopAsked
    /\ stage' = "test"
    /\ UNCHANGED <<pull, held, place, refused, decoder, origin, shown, spoiled, queued,
                   stopAsked>>

\* The first picture of a pass starts the clock; then the picture waits for its time.
ReceivePicture ==
    /\ stage = "receive" /\ ~stopAsked /\ Ready
    /\ origin' = IF origin = Unset THEN Head(decoder).pass ELSE origin
    /\ shown' = [pass |-> Head(decoder).pass, number |-> Head(decoder).number,
                 origin |-> origin']
    /\ decoder' = Tail(decoder)
    /\ stage' = "emit"
    /\ UNCHANGED <<pull, held, place, refused, spoiled, queued, stopAsked>>

\* Slip: a frame that is skipped ends the inner loop.
EmitOrLeave ==
    /\ stage = "emit"
    /\ pull \/ queued < FrameRoom
    /\ queued' = IF queued < FrameRoom THEN queued + 1 ELSE queued
    /\ stage' = IF queued < FrameRoom THEN "receive" ELSE "test"
    /\ UNCHANGED <<pull, held, place, refused, decoder, origin, shown, spoiled, stopAsked>>

\* A pull camera skips the frame if the queue is full; a push camera waits, and does
\* not hear of a request to stop.
Emit ==
    /\ stage = "emit"
    /\ pull \/ queued < FrameRoom
    /\ queued' = IF queued < FrameRoom THEN queued + 1 ELSE queued
    /\ stage' = "receive"
    /\ UNCHANGED <<pull, held, place, refused, decoder, origin, shown, spoiled, stopAsked>>

\* A picture that cannot be decoded ends the inner loop.
DecodingFails ==
    /\ stage = "receive" /\ ~stopAsked
    /\ decoder' = IF Ready THEN Tail(decoder) ELSE decoder
    /\ spoiled' = TRUE
    /\ stage' = "test"
    /\ UNCHANGED <<pull, held, place, refused, origin, shown, queued, stopAsked>>

\* No picture is ready.  A packet that was refused is sent (again, and again: the
\* result of the first call is kept); otherwise it is time for another one.
ReceiveNone ==
    /\ stage = "receive" /\ ~stopAsked /\ ~Ready
    /\ IF refused
       THEN /\ \E n \in 0 .. 2 : decoder' = decoder \o Pictures(place, n)
            /\ UNCHANGED stage
       ELSE stage' = "test" /\ UNCHANGED decoder
    /\ UNCHANGED <<pull, held, place, refused, origin, shown, spoiled, queued, stopAsked>>
------------------------------------------------------------------------------
(* The processor and the engine.                                           *)

TakeFromQueue ==
    /\ queued > 0
    /\ queued' = queued - 1
    /\ UNCHANGED <<pull, stage, held, place, refused, decoder, origin, shown, spoiled,
                   stopAsked>>

AskToStop ==
    /\ stopAsked' = TRUE
    /\ UNCHANGED <<pull, stage, held, place, refused, decoder, origin, shown, spoiled, queued>>

\* What the thread does without an answer of the camera.
OwnStep ==
    \/ ~Probing /\ (Open \/ OpenFails)
    \/ TestStop
    \/ LeaveInner \/ ReceivePicture \/ Emit \/ DecodingFails \/ ReceiveNone
    \/ Drain \/ Free

\* What ends a wait for the camera, if anything does.
CameraAnswers ==
    \/ Connect
    \/ Probing /\ (Open \/ OpenFails)
    \/ ReadPacket \/ PassOver \/ StartAgain \/ SeekFails \/ ReadError \/ ReadInterrupted

CaptureNext == OwnStep \/ CameraAnswers \/ TakeFromQueue \/ AskToStop

\* The thread keeps running; neither the camera nor the processor is relied on.
CaptureFairness == WF_captureVars(OwnStep)

CaptureSpec == CaptureInit /\ [][CaptureNext]_captureVars /\ CaptureFairness
------------------------------------------------------------------------------
(* Properties.                                                             *)

CaptureTypeOK ==
    /\ held \subseteq { Resources[i] : i \in DOMAIN Resources }
    /\ place.pass \in 1 .. MaxPasses /\ place.number \in 0 .. Packets
    /\ queued \in 0 .. FrameRoom
    /\ stage \in {"test", "read", "receive", "emit", "leave"} =>
           Cardinality(held) = Len(Resources)
    /\ stage = "done" => held = {}

\* A picture's time is counted from the first picture of its own pass: nothing is left
\* over from the pass before, neither in the decoder nor in the clock.
ClockOfItsPass == shown.origin = shown.pass

\* As long as every picture can be decoded, the loop keeps the decoder empty enough
\* never to be refused: pictures come in the order of the stream, each once.
PicturesInOrder ==
    [][~spoiled /\ shown' # shown =>
         \/ shown'.pass > shown.pass
         \/ shown'.pass = shown.pass /\ shown'.number > shown.number]_captureVars

\* A request to stop is heeded wherever the loop is, after at most one more answer of
\* the camera.  Only if the call it waits in never returns does it go unheard: opening
\* the input, finding its streams, a read, or putting a frame into the queue of a push
\* camera that stays full.  (Then the engine terminates the thread.)
StopIsHeeded ==
    stopAsked ~> \/ stage \in {"done", "aborted"}
                 \/ []Connecting
                 \/ []Probing
                 \/ [](stage = "read")
                 \/ [](stage = "emit" /\ ~pull /\ queued = FrameRoom)
=============================================================================
