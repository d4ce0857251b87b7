------------------------------ MODULE Recorder ------------------------------
(***************************************************************************)
(* The desktop recorder, src/recorder_main.cpp: a window that starts and   *)
(* stops a recording, and the thread that captures, encodes and writes it  *)
(* to an IVF file, which FFmpeg then makes an MP4 of.                      *)
(*                                                                         *)
(* The thread posts Done when it ends.  The error box that Done may show   *)
(* dispatches the window's messages while it is up: the window is disabled *)
(* for the user's clicks, but not for the hot key.                         *)
(***************************************************************************)
EXTENDS VideoEncoder

CONSTANTS
    MaxRecordings,  \* bound: recordings started
    MaxTicks        \* bound: pictures of a recording

ASSUME RecorderAssumption == MaxRecordings \in Nat /\ MaxTicks \in Nat \ {0}

VARIABLES
    window,         \* "none", "open", "gone"
    boxes,          \* error boxes that are up
    active, closing, stop,
    recordings,     \* how many were started
    worker,         \* where record is; "none" if there is no thread
    done,           \* a Done in the window's queue
    failed,         \* failure is not empty
    ticks,          \* pictures taken
    timestamps,     \* pending: of pictures that are not written yet
    file,           \* the pictures in the IVF file, with the timestamps they got
    ivf, mp4        \* the files of this recording: "none", "part", "whole"

ui == <<window, boxes, active, closing, stop, recordings, done, failed>>
recording == <<ticks, timestamps, file, ivf, mp4>>
recorderVars == <<ui, worker, recording>>

RecorderInit ==
    /\ window = "none" /\ boxes = 0 /\ active = FALSE /\ closing = FALSE /\ stop = FALSE
    /\ recordings = 0 /\ worker = "none" /\ done = FALSE /\ failed = FALSE
    /\ ticks = 0 /\ timestamps = << >> /\ file = << >> /\ ivf = "none" /\ mp4 = "none"

-----------------------------------------------------------------------------
(* The window *)

StartRecorder ==
    /\ window = "none" /\ window' = "open"
    /\ UNCHANGED <<boxes, active, closing, stop, recordings, worker, done, failed, recording,
                   encoderVars>>

\* toggle, when no recording is active
Begin ==
    /\ ~active /\ recordings < MaxRecordings
    /\ recordings' = recordings + 1 /\ active' = TRUE /\ stop' = FALSE /\ failed' = FALSE
    /\ worker' = "open"
    /\ ticks' = 0 /\ timestamps' = << >> /\ file' = << >> /\ ivf' = "none" /\ mp4' = "none"
    /\ UNCHANGED <<window, boxes, closing, done, encoderVars>>

\* toggle, when one is
StopRecording ==
    /\ active /\ ~stop /\ stop' = TRUE
    /\ UNCHANGED <<window, boxes, active, closing, recordings, worker, done, failed, recording,
                   encoderVars>>

\* WM_COMMAND and WM_HOTKEY; an error box keeps the button from being pressed.
Toggle == window = "open" /\ (Begin \/ StopRecording)

\* WM_CLOSE
CloseRecorder ==
    /\ window = "open" /\ boxes = 0
    /\ IF active THEN closing' = TRUE /\ stop' = TRUE /\ UNCHANGED window
       ELSE window' = "gone" /\ UNCHANGED <<closing, stop>>
    /\ UNCHANGED <<boxes, active, recordings, worker, done, failed, recording, encoderVars>>

WindowAfter == IF closing THEN "gone" ELSE "open"

\* Done: the thread is joined; an error is shown before anything else happens.
Done ==
    /\ window = "open" /\ done /\ done' = FALSE
    /\ worker' = "none" /\ active' = FALSE
    /\ IF failed THEN boxes' = boxes + 1 /\ UNCHANGED window
       ELSE window' = WindowAfter /\ UNCHANGED boxes
    /\ UNCHANGED <<closing, stop, recordings, failed, recording, encoderVars>>

\* The user dismisses the error box, and the handler of Done goes on.
Dismiss ==
    /\ window = "open" /\ boxes > 0 /\ boxes' = boxes - 1 /\ window' = WindowAfter
    /\ UNCHANGED <<active, closing, stop, recordings, worker, done, failed, recording,
                   encoderVars>>

-----------------------------------------------------------------------------
(* record *)

\* The thread goes on for as long as the process is there.
At(place) == worker = place /\ window # "gone"
WorkerStep == UNCHANGED <<window, boxes, active, closing, stop, recordings>>

\* FFmpeg, the files, the display, and the encoder, of fixed quality.
Open ==
    /\ At("open") /\ worker' = "first" /\ ivf' = "part"
    /\ \E kind \in {"vpl", "nvenc"} : Make(kind, 0)
    /\ WorkerStep /\ UNCHANGED <<done, failed, ticks, timestamps, file, mp4>>

\* The first picture, for which it waits 10 s; after it, one for each tick, new or not.
AcquireFirst ==
    /\ At("first") /\ ~stop
    /\ \/ Acquires /\ worker' = "input"
       \/ AcquiresNot /\ UNCHANGED worker
    /\ WorkerStep /\ UNCHANGED <<done, failed, recording, encoder, rate, surface, inflight>>

AcquireNext ==
    /\ At("next") /\ ~stop /\ ticks < MaxTicks
    /\ (Acquires \/ AcquiresNot) /\ worker' = "input"
    /\ WorkerStep /\ UNCHANGED <<done, failed, recording, encoder, rate, surface, inflight>>

RecorderInput ==
    /\ At("input") /\ InputReady /\ InputTexture /\ worker' = "encode"
    /\ WorkerStep /\ UNCHANGED <<done, failed, recording, encoder, rate, inflight, capture>>

\* writePackets: each packet takes the oldest timestamp.
Writes(packets, waiting) ==
    /\ file' = file \o [i \in 1..Len(packets) |-> [picture |-> packets[i], time |-> waiting[i]]]
    /\ timestamps' = SubSeq(waiting, Len(packets) + 1, Len(waiting))

EncodeTick ==
    /\ At("encode") /\ worker' = "next" /\ ticks' = ticks + 1
    /\ \E packets \in {<< >>, <<Head(Submitted(ticks))>>, Submitted(ticks)} :
         /\ Encodes(ticks, packets)
         /\ Writes(packets, Append(timestamps, ticks))
    /\ WorkerStep /\ UNCHANGED <<done, failed, ivf, mp4, encoder, rate, capture>>

StopSeen ==
    /\ (At("first") \/ At("next")) /\ (stop \/ ticks = MaxTicks)
    /\ worker' = "drain"
    /\ WorkerStep /\ UNCHANGED <<done, failed, recording, encoderVars>>

\* (mutant) Nobody looks whether all of it was drained.
DrainUnchecked ==
    /\ At("drain")
    /\ \E packets \in {inflight, << >>} : Drains(packets) /\ Writes(packets, timestamps)
    /\ IF ticks > 0 THEN worker' = "remux" /\ ivf' = "whole" /\ UNCHANGED failed
       ELSE worker' = "end" /\ failed' = TRUE /\ UNCHANGED ivf
    /\ encoder' = "none" /\ surface' = FALSE
    /\ WorkerStep /\ UNCHANGED <<done, ticks, mp4, rate, capture>>

\* What the encoder holds back is written, and the number of pictures.
Drain ==
    /\ At("drain")
    /\ \E packets \in {inflight, << >>} : Drains(packets) /\ Writes(packets, timestamps)
    /\ IF timestamps' = << >> /\ ticks > 0
       THEN worker' = "remux" /\ ivf' = "whole" /\ UNCHANGED failed
       ELSE worker' = "end" /\ failed' = TRUE /\ UNCHANGED ivf
    /\ encoder' = "none" /\ surface' = FALSE
    /\ WorkerStep /\ UNCHANGED <<done, ticks, mp4, rate, capture>>

\* (mutant) The IVF file goes first.
RemuxMoves ==
    /\ At("remux") /\ worker' = "end" /\ ivf' = "none"
    /\ \/ mp4' = "whole" /\ UNCHANGED failed
       \/ mp4' \in {"none", "part"} /\ failed' = TRUE
    /\ WorkerStep /\ UNCHANGED <<done, ticks, timestamps, file, encoderVars>>

\* remux: FFmpeg makes the MP4, and the IVF file is removed; or either fails.
Remux ==
    /\ At("remux") /\ worker' = "end"
    /\ \/ mp4' = "whole" /\ ivf' = "none" /\ UNCHANGED failed
       \/ mp4' \in {"none", "part", "whole"} /\ failed' = TRUE /\ UNCHANGED ivf
    /\ WorkerStep /\ UNCHANGED <<done, ticks, timestamps, file, encoderVars>>

\* An exception leaves record: no desktop, an encoder's, a full disk.
RecordThrows ==
    /\ worker \in {"open", "first", "next", "input", "encode", "drain"} /\ window # "gone"
    /\ worker' = "end" /\ failed' = TRUE
    /\ Destroy /\ UNCHANGED <<rate, capture>>
    /\ WorkerStep /\ UNCHANGED <<done, recording>>

PostDone ==
    /\ At("end") /\ worker' = "posted" /\ done' = TRUE
    /\ WorkerStep /\ UNCHANGED <<failed, recording, encoderVars>>

RecorderChange == DesktopChanges /\ UNCHANGED <<encoder, rate, surface, inflight, duplication,
                                               recorderVars>>

Worker == \/ Open \/ AcquireFirst \/ AcquireNext \/ RecorderInput \/ EncodeTick \/ StopSeen
          \/ Drain \/ Remux \/ PostDone
RecorderUser == StartRecorder \/ Toggle \/ CloseRecorder
RecorderNext == Worker \/ RecordThrows \/ RecorderUser \/ Done \/ Dismiss \/ RecorderChange

RecorderTypeOK ==
    /\ window \in {"none", "open", "gone"} /\ boxes \in 0..MaxRecordings
    /\ {active, closing, stop, done, failed} \subseteq BOOLEAN
    /\ recordings \in 0..MaxRecordings /\ ticks \in 0..MaxTicks
    /\ worker \in {"none", "open", "first", "next", "input", "encode", "drain", "remux", "end",
                   "posted"}
    /\ {ivf, mp4} \subseteq {"none", "part", "whole"}
=============================================================================
